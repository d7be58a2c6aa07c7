---------------------------- MODULE FsLinkProofs ----------------------------
(***************************************************************************)
(* Proofs about names and links, on top of the inode cache and the blocks  *)
(* of FsProofs: InodesLive, NoPanic and CyclesOnlyInIput, for every number  *)
(* of processes, inodes, blocks and names.                                 *)
(*                                                                         *)
(* LinkInv counts links: the names of an inode, its subdirectories (their  *)
(* ".."), the links that calls under way have still to enter or to drop    *)
(* and the root's own are together at most its nlink, and no two           *)
(* directories name each other.  MakingOk is about the inode that ialloc   *)
(* has marked and create has not entered yet, RegLive about the inodes that *)
(* a call holds between its steps.                                         *)
(*                                                                         *)
(* The ".." of a removed directory is no link, and a lookup of it may find *)
(* an inode that has been freed: UpLive says that this does not happen.    *)
(* It follows from LinkInv where the calls make directories in the root    *)
(* only (TopDirs) or have no ".." in a path (NoUps); otherwise it is a     *)
(* hypothesis about the behaviour.                                         *)
(***************************************************************************)
EXTENDS FsProofs

LEMMA FewerMembers == ASSUME NEW A, IsFiniteSet(A), NEW B, B \subseteq A PROVE Cardinality(B) <= Cardinality(A) /\ Cardinality(B) \in Nat /\ Cardinality(A) \in Nat /\ IsFiniteSet(B)
BY FS_Subset, FS_CardinalityType

LEMMA OneMoreMember == ASSUME NEW A, IsFiniteSet(A), NEW x, NEW B, B \subseteq A \union {x}
                       PROVE  Cardinality(B) <= Cardinality(A) + 1
<1>0. Cardinality(A) \in Nat  BY FS_CardinalityType
<1>1. IsFiniteSet(A \union {x}) /\ Cardinality(A \union {x}) <= Cardinality(A) + 1
  <2>1. CASE x \in A  BY <1>0, <2>1, FS_AddElement
  <2>2. CASE x \notin A  BY <1>0, <2>2, AddBlock
  <2> QED BY <2>1, <2>2
<1>2. Cardinality(B) <= Cardinality(A \union {x})  BY <1>1, FewerMembers
<1> QED BY <1>1, <1>2, FewerMembers

LEMMA OneMemberLess == ASSUME NEW A, IsFiniteSet(A), NEW x \in A, NEW B, B \subseteq A, x \notin B
                       PROVE  Cardinality(B) + 1 <= Cardinality(A)
<1>1. IsFiniteSet(A \ {x}) /\ Cardinality(A \ {x}) = Cardinality(A) - 1  BY FS_RemoveElement
<1>2. B \subseteq A \ {x}  OBVIOUS
<1>3. Cardinality(B) <= Cardinality(A \ {x}) /\ Cardinality(B) \in Nat  BY <1>1, <1>2, FewerMembers
<1> QED BY <1>1, <1>3, FS_CardinalityType

-----------------------------------------------------------------------------
(***************************************************************************)
(* Links.  T is what the directories in use (D) name, N the link counts,   *)
(* P the inodes whose count a process under way has still to settle.       *)
(***************************************************************************)
NamedBy(T, i)   == {x \in Inums \X Names : T[x[1]][x[2]] = i}
SubsOf(T, D, i) == {e \in Names : T[i][e] \in D}
PendOn(P, i)    == {p \in Procs : P[p] = i}
Claimed(T, D, P, i) ==
  Cardinality(NamedBy(T, i)) + Cardinality(SubsOf(T, D, i)) + Cardinality(PendOn(P, i)) + One(1, i)
Forest(T) == \A i, j \in Inums, e, f \in Names : ~(T[i][e] = j /\ T[j][f] = i)
LinksType(T, D, N, P) ==
  /\ T \in [Inums -> [Names -> {0} \union Inums]] /\ D \subseteq Inums
  /\ N \in [Inums -> Int] /\ P \in [Procs -> {0} \union Inums]
  /\ \A i \in Inums \ D, e \in Names : T[i][e] = 0
LinksOk(T, D, N, P) ==
  /\ LinksType(T, D, N, P)
  /\ \A i \in Inums : Claimed(T, D, P, i) <= N[i]
  /\ Forest(T)

LEMMA ClaimsFinite ==
  ASSUME NEW T, NEW D, NEW P, NEW i
  PROVE  /\ IsFiniteSet(NamedBy(T, i)) /\ IsFiniteSet(SubsOf(T, D, i)) /\ IsFiniteSet(PendOn(P, i))
         /\ Cardinality(NamedBy(T, i)) \in Nat /\ Cardinality(SubsOf(T, D, i)) \in Nat /\ Cardinality(PendOn(P, i)) \in Nat
         /\ One(1, i) \in Nat
<1>1. IsFiniteSet(Names) /\ IsFiniteSet(Procs)  BY FsAssumption
<1>2. IsFiniteSet(Inums)  BY Consts, FS_Interval DEF Inums
<1>3. IsFiniteSet(Inums \X Names)  BY <1>1, <1>2, FS_Product
<1>4. NamedBy(T, i) \subseteq Inums \X Names /\ SubsOf(T, D, i) \subseteq Names /\ PendOn(P, i) \subseteq Procs
  BY DEF NamedBy, SubsOf, PendOn
<1>5. IsFiniteSet(NamedBy(T, i)) /\ Cardinality(NamedBy(T, i)) \in Nat  BY <1>3, <1>4, FewerMembers
<1>6. IsFiniteSet(SubsOf(T, D, i)) /\ Cardinality(SubsOf(T, D, i)) \in Nat  BY <1>1, <1>4, FewerMembers
<1>7. IsFiniteSet(PendOn(P, i)) /\ Cardinality(PendOn(P, i)) \in Nat  BY <1>1, <1>4, FewerMembers
<1> QED BY <1>5, <1>6, <1>7 DEF One

\* Whoever is claimed has a link.
LEMMA ClaimedHasLink ==
  ASSUME NEW T, NEW D, NEW N, NEW P, LinksOk(T, D, N, P), NEW i \in Inums,
         \/ i = 1 \/ \E p \in Procs : P[p] = i
         \/ \E j \in Inums, e \in Names : T[j][e] = i
  PROVE  N[i] > 0
<1>1. N[i] \in Int /\ Claimed(T, D, P, i) <= N[i]  BY DEF LinksOk, LinksType
<1>2. /\ IsFiniteSet(NamedBy(T, i)) /\ IsFiniteSet(SubsOf(T, D, i)) /\ IsFiniteSet(PendOn(P, i))
      /\ Cardinality(NamedBy(T, i)) \in Nat /\ Cardinality(SubsOf(T, D, i)) \in Nat /\ Cardinality(PendOn(P, i)) \in Nat
      /\ One(1, i) \in Nat
  BY ClaimsFinite
<1>3. CASE i = 1
  <2>1. One(1, i) = 1  BY <1>3 DEF One
  <2> QED BY <1>1, <1>2, <2>1 DEF Claimed
<1>4. ASSUME NEW p \in Procs, P[p] = i PROVE N[i] > 0
  <2>1. PendOn(P, i) # {}  BY <1>4 DEF PendOn
  <2>2. Cardinality(PendOn(P, i)) # 0  BY <1>2, <2>1, FS_EmptySet
  <2> QED BY <1>1, <1>2, <2>2 DEF Claimed
<1>5. ASSUME NEW j \in Inums, NEW e \in Names, T[j][e] = i PROVE N[i] > 0
  <2>1. <<j, e>> \in NamedBy(T, i)  BY <1>5 DEF NamedBy
  <2>2. Cardinality(NamedBy(T, i)) # 0  BY <1>2, <2>1, FS_EmptySet
  <2> QED BY <1>1, <1>2, <2>2 DEF Claimed
<1> QED BY <1>3, <1>4, <1>5

\* Claims that change in three sets by no more than the count.
LEMMA ClaimsMove ==
  ASSUME NEW T, NEW D, NEW N, NEW P, LinksOk(T, D, N, P), NEW i \in Inums, NEW U, NEW E, NEW Q,
         NEW a \in Int, NEW b \in Int, NEW c \in Int, NEW n \in Int,
         Cardinality(NamedBy(U, i)) <= Cardinality(NamedBy(T, i)) + a,
         Cardinality(SubsOf(U, E, i)) <= Cardinality(SubsOf(T, D, i)) + b,
         Cardinality(PendOn(Q, i)) <= Cardinality(PendOn(P, i)) + c,
         N[i] + a + b + c <= n
  PROVE  Claimed(U, E, Q, i) <= n
<1>1. N[i] \in Int /\ Claimed(T, D, P, i) <= N[i]  BY DEF LinksOk, LinksType
<1>2. /\ Cardinality(NamedBy(T, i)) \in Nat /\ Cardinality(SubsOf(T, D, i)) \in Nat /\ Cardinality(PendOn(P, i)) \in Nat
      /\ One(1, i) \in Nat
  BY ClaimsFinite
<1>3. /\ Cardinality(NamedBy(U, i)) \in Nat /\ Cardinality(SubsOf(U, E, i)) \in Nat /\ Cardinality(PendOn(Q, i)) \in Nat
  BY ClaimsFinite
<1> QED BY <1>1, <1>2, <1>3 DEF Claimed

\* What a new entry, or a new debt, does to the claims on an inode.
LEMMA NamedChange ==
  ASSUME NEW T, NEW U, NEW i \in Inums, NEW j \in Inums, NEW e \in Names,
         \A k \in Inums, f \in Names : k # j \/ f # e => U[k][f] = T[k][f]
  PROVE  /\ U[j][e] # i => Cardinality(NamedBy(U, i)) <= Cardinality(NamedBy(T, i))
         /\ Cardinality(NamedBy(U, i)) <= Cardinality(NamedBy(T, i)) + 1
         /\ U[j][e] # i /\ T[j][e] = i => Cardinality(NamedBy(U, i)) <= Cardinality(NamedBy(T, i)) - 1
<1>1. IsFiniteSet(NamedBy(T, i)) /\ Cardinality(NamedBy(T, i)) \in Nat /\ Cardinality(NamedBy(U, i)) \in Nat
  BY ClaimsFinite
<1>2. NamedBy(U, i) \subseteq NamedBy(T, i) \union {<<j, e>>}  BY DEF NamedBy
<1>3. U[j][e] # i => <<j, e>> \notin NamedBy(U, i)  BY DEF NamedBy
<1>4. T[j][e] = i => <<j, e>> \in NamedBy(T, i)  BY DEF NamedBy
<1>5. Cardinality(NamedBy(U, i)) <= Cardinality(NamedBy(T, i)) + 1  BY <1>1, <1>2, OneMoreMember
<1>6. ASSUME U[j][e] # i PROVE NamedBy(U, i) \subseteq NamedBy(T, i)  BY <1>2, <1>3, <1>6
<1>7. ASSUME U[j][e] # i PROVE Cardinality(NamedBy(U, i)) <= Cardinality(NamedBy(T, i))  BY <1>1, <1>6, <1>7, FewerMembers
<1>8. ASSUME U[j][e] # i, T[j][e] = i PROVE Cardinality(NamedBy(U, i)) <= Cardinality(NamedBy(T, i)) - 1
  <2>1. Cardinality(NamedBy(U, i)) + 1 <= Cardinality(NamedBy(T, i))  BY <1>1, <1>3, <1>4, <1>6, <1>8, OneMemberLess
  <2> QED BY <1>1, <2>1
<1> QED BY <1>5, <1>7, <1>8

LEMMA SubsChange ==
  ASSUME NEW T, NEW D, NEW U, NEW E, NEW i \in Inums, NEW e \in Names,
         \A f \in Names : f # e /\ U[i][f] \in E => T[i][f] \in D
  PROVE  /\ U[i][e] \notin E => Cardinality(SubsOf(U, E, i)) <= Cardinality(SubsOf(T, D, i))
         /\ Cardinality(SubsOf(U, E, i)) <= Cardinality(SubsOf(T, D, i)) + 1
         /\ U[i][e] \notin E /\ T[i][e] \in D => Cardinality(SubsOf(U, E, i)) <= Cardinality(SubsOf(T, D, i)) - 1
<1>1. IsFiniteSet(SubsOf(T, D, i)) /\ Cardinality(SubsOf(T, D, i)) \in Nat /\ Cardinality(SubsOf(U, E, i)) \in Nat
  BY ClaimsFinite
<1>2. SubsOf(U, E, i) \subseteq SubsOf(T, D, i) \union {e}  BY DEF SubsOf
<1>3. U[i][e] \notin E => e \notin SubsOf(U, E, i)  BY DEF SubsOf
<1>4. T[i][e] \in D => e \in SubsOf(T, D, i)  BY DEF SubsOf
<1>5. Cardinality(SubsOf(U, E, i)) <= Cardinality(SubsOf(T, D, i)) + 1  BY <1>1, <1>2, OneMoreMember
<1>6. ASSUME U[i][e] \notin E PROVE SubsOf(U, E, i) \subseteq SubsOf(T, D, i)  BY <1>2, <1>3, <1>6
<1>7. ASSUME U[i][e] \notin E PROVE Cardinality(SubsOf(U, E, i)) <= Cardinality(SubsOf(T, D, i))  BY <1>1, <1>6, <1>7, FewerMembers
<1>8. ASSUME U[i][e] \notin E, T[i][e] \in D PROVE Cardinality(SubsOf(U, E, i)) <= Cardinality(SubsOf(T, D, i)) - 1
  <2>1. Cardinality(SubsOf(U, E, i)) + 1 <= Cardinality(SubsOf(T, D, i))  BY <1>1, <1>3, <1>4, <1>6, <1>8, OneMemberLess
  <2> QED BY <1>1, <2>1
<1> QED BY <1>5, <1>7, <1>8

LEMMA PendChange ==
  ASSUME NEW P, NEW Q, NEW i \in Inums, NEW p \in Procs, \A q \in Procs : q # p => Q[q] = P[q]
  PROVE  /\ Q[p] # i => Cardinality(PendOn(Q, i)) <= Cardinality(PendOn(P, i))
         /\ Cardinality(PendOn(Q, i)) <= Cardinality(PendOn(P, i)) + 1
         /\ Q[p] # i /\ P[p] = i => Cardinality(PendOn(Q, i)) <= Cardinality(PendOn(P, i)) - 1
<1>1. IsFiniteSet(PendOn(P, i)) /\ Cardinality(PendOn(P, i)) \in Nat /\ Cardinality(PendOn(Q, i)) \in Nat
  BY ClaimsFinite
<1>2. PendOn(Q, i) \subseteq PendOn(P, i) \union {p}  BY DEF PendOn
<1>3. Q[p] # i => p \notin PendOn(Q, i)  BY DEF PendOn
<1>4. P[p] = i => p \in PendOn(P, i)  BY DEF PendOn
<1>5. Cardinality(PendOn(Q, i)) <= Cardinality(PendOn(P, i)) + 1  BY <1>1, <1>2, OneMoreMember
<1>6. ASSUME Q[p] # i PROVE PendOn(Q, i) \subseteq PendOn(P, i)  BY <1>2, <1>3, <1>6
<1>7. ASSUME Q[p] # i PROVE Cardinality(PendOn(Q, i)) <= Cardinality(PendOn(P, i))  BY <1>1, <1>6, <1>7, FewerMembers
<1>8. ASSUME Q[p] # i, P[p] = i PROVE Cardinality(PendOn(Q, i)) <= Cardinality(PendOn(P, i)) - 1
  <2>1. Cardinality(PendOn(Q, i)) + 1 <= Cardinality(PendOn(P, i))  BY <1>1, <1>3, <1>4, <1>6, <1>8, OneMemberLess
  <2> QED BY <1>1, <2>1
<1> QED BY <1>5, <1>7, <1>8

\* An inode without links is freed.
LEMMA LinksFreed ==
  ASSUME NEW T, NEW D, NEW N, NEW P, LinksOk(T, D, N, P), NEW i \in Inums, N[i] = 0,
         NEW U, NEW E, NEW M, LinksType(U, E, M, P), M[i] = 0, E \subseteq D,
         \A k \in Inums : k # i => M[k] = N[k] /\ U[k] = T[k],
         \A e \in Names : U[i][e] = 0
  PROVE  LinksOk(U, E, M, P)
<1>1. LinksType(T, D, N, P) /\ Forest(T) /\ 0 \notin Inums  BY Consts DEF LinksOk
<1>2. \A k \in Inums, e \in Names : U[k][e] \in {0, T[k][e]}  OBVIOUS
<1>3. \A k \in Inums : Claimed(U, E, P, k) <= M[k]
  <2> TAKE k \in Inums
  <2>1. NamedBy(U, k) \subseteq NamedBy(T, k)  BY <1>1, <1>2 DEF NamedBy
  <2>2. SubsOf(U, E, k) \subseteq SubsOf(T, D, k)  BY <1>1, <1>2 DEF SubsOf, LinksType
  <2>3. Cardinality(NamedBy(U, k)) <= Cardinality(NamedBy(T, k)) + 0  BY <2>1, FewerMembers, ClaimsFinite
  <2>4. Cardinality(SubsOf(U, E, k)) <= Cardinality(SubsOf(T, D, k)) + 0  BY <2>2, FewerMembers, ClaimsFinite
  <2>5. Cardinality(PendOn(P, k)) <= Cardinality(PendOn(P, k)) + 0  BY ClaimsFinite
  <2>6. N[k] \in Int /\ M[k] \in Int /\ N[k] + 0 + 0 + 0 <= M[k] /\ 0 \in Int  BY <1>1 DEF LinksType
  <2> QED BY <2>3, <2>4, <2>5, <2>6, ClaimsMove
<1>4. Forest(U)  BY <1>1, <1>2 DEF Forest
<1> QED BY <1>3, <1>4 DEF LinksOk

\* A link is counted before it is entered, and no longer counted after it was removed.
LEMMA LinksPending ==
  ASSUME NEW T, NEW D, NEW N, NEW P, LinksOk(T, D, N, P), NEW i \in Inums, NEW p \in Procs, NEW x \in {-1, 1},
         NEW M, NEW Q, LinksType(T, D, M, Q), M[i] = N[i] + x, \A k \in Inums : k # i => M[k] = N[k],
         \A q \in Procs : q # p => Q[q] = P[q],
         IF x = 1 THEN P[p] = 0 /\ Q[p] = i ELSE P[p] = i /\ Q[p] = 0
  PROVE  LinksOk(T, D, M, Q)
<1>1. LinksType(T, D, N, P) /\ Forest(T) /\ 0 \notin Inums  BY Consts DEF LinksOk
<1>3. \A k \in Inums : Claimed(T, D, Q, k) <= M[k]
  <2> TAKE k \in Inums
  <2>1. Cardinality(NamedBy(T, k)) <= Cardinality(NamedBy(T, k)) + 0  BY ClaimsFinite
  <2>2. Cardinality(SubsOf(T, D, k)) <= Cardinality(SubsOf(T, D, k)) + 0  BY ClaimsFinite
  <2>3. PICK c \in Int : c = IF k = i THEN x ELSE 0  OBVIOUS
  <2>4. Cardinality(PendOn(Q, k)) <= Cardinality(PendOn(P, k)) + c
    <3>1. Cardinality(PendOn(Q, k)) \in Nat /\ Cardinality(PendOn(P, k)) \in Nat  BY ClaimsFinite
    <3>2. CASE k # i
      <4>1. Q[p] # k  BY <1>1, <3>2
      <4>2. Cardinality(PendOn(Q, k)) <= Cardinality(PendOn(P, k))  BY <4>1, PendChange
      <4> QED BY <2>3, <3>1, <3>2, <4>2
    <3>3. CASE k = i /\ x = 1
      <4>1. Cardinality(PendOn(Q, k)) <= Cardinality(PendOn(P, k)) + 1  BY PendChange
      <4> QED BY <2>3, <3>3, <4>1
    <3>4. CASE k = i /\ x = -1
      <4>1. Q[p] # k /\ P[p] = k  BY <1>1, <3>4
      <4>2. Cardinality(PendOn(Q, k)) <= Cardinality(PendOn(P, k)) - 1  BY <4>1, PendChange
      <4> QED BY <2>3, <3>1, <3>4, <4>2
    <3> QED BY <3>2, <3>3, <3>4
  <2>6. N[k] \in Int /\ M[k] \in Int /\ N[k] + 0 + 0 + c <= M[k] /\ 0 \in Int  BY <1>1, <2>3 DEF LinksType
  <2> QED BY <2>1, <2>2, <2>3, <2>4, <2>6, ClaimsMove
<1> QED BY <1>1, <1>3 DEF LinksOk

\* link enters what it has counted: no directory.
LEMMA LinksEntered ==
  ASSUME NEW T, NEW D, NEW N, NEW P, LinksOk(T, D, N, P), NEW j \in Inums, NEW e \in Names, NEW p \in Procs,
         NEW c \in Inums \ D, P[p] = c,
         NEW U, NEW Q, LinksType(U, D, N, Q), U[j][e] = c, Q[p] = 0,
         \A k \in Inums, f \in Names : k # j \/ f # e => U[k][f] = T[k][f],
         \A q \in Procs : q # p => Q[q] = P[q]
  PROVE  LinksOk(U, D, N, Q)
<1>1. LinksType(T, D, N, P) /\ Forest(T) /\ 0 \notin Inums  BY Consts DEF LinksOk
<1>2. \A k \in Inums : Claimed(U, D, Q, k) <= N[k]
  <2> TAKE k \in Inums
  <2>1. PICK a \in Int : a = IF k = c THEN 1 ELSE 0  OBVIOUS
  <2>2. PICK b \in Int : b = IF k = c THEN -1 ELSE 0  OBVIOUS
  <2>3. Cardinality(NamedBy(U, k)) <= Cardinality(NamedBy(T, k)) + a
    <3>1. Cardinality(NamedBy(U, k)) \in Nat /\ Cardinality(NamedBy(T, k)) \in Nat  BY ClaimsFinite
    <3>2. CASE k # c
      <4>1. Cardinality(NamedBy(U, k)) <= Cardinality(NamedBy(T, k))  BY <3>2, NamedChange
      <4> QED BY <2>1, <3>1, <3>2, <4>1
    <3>3. CASE k = c
      <4>1. Cardinality(NamedBy(U, k)) <= Cardinality(NamedBy(T, k)) + 1  BY NamedChange
      <4> QED BY <2>1, <3>3, <4>1
    <3> QED BY <3>2, <3>3
  <2>4. Cardinality(SubsOf(U, D, k)) <= Cardinality(SubsOf(T, D, k)) + 0
    <3>1. SubsOf(U, D, k) \subseteq SubsOf(T, D, k)
      <4>1. \A f \in Names : U[k][f] \in D => U[k][f] # c  OBVIOUS
      <4> QED BY <4>1 DEF SubsOf
    <3> QED BY <3>1, FewerMembers, ClaimsFinite
  <2>5. Cardinality(PendOn(Q, k)) <= Cardinality(PendOn(P, k)) + b
    <3>1. Cardinality(PendOn(Q, k)) \in Nat /\ Cardinality(PendOn(P, k)) \in Nat /\ Q[p] # k  BY <1>1, ClaimsFinite
    <3>2. CASE k # c
      <4>1. Cardinality(PendOn(Q, k)) <= Cardinality(PendOn(P, k))  BY <3>1, PendChange
      <4> QED BY <2>2, <3>1, <3>2, <4>1
    <3>3. CASE k = c
      <4>1. Cardinality(PendOn(Q, k)) <= Cardinality(PendOn(P, k)) - 1  BY <3>1, <3>3, PendChange
      <4> QED BY <2>2, <3>1, <3>3, <4>1
    <3> QED BY <3>2, <3>3
  <2>6. N[k] \in Int /\ N[k] + a + 0 + b <= N[k] /\ 0 \in Int  BY <1>1, <2>1, <2>2 DEF LinksType
  <2> QED BY <2>1, <2>2, <2>3, <2>4, <2>5, <2>6, ClaimsMove
<1>3. Forest(U)
  <2> SUFFICES ASSUME NEW k \in Inums, NEW m \in Inums, NEW f \in Names, NEW g \in Names, U[k][f] = m, U[m][g] = k
               PROVE FALSE
    BY DEF Forest
  <2>1. U[c][f] = 0 /\ U[c][g] = 0  BY DEF LinksType
  <2>2. m # c /\ k # c  BY <1>1, <2>1
  <2>3. U[k][f] = T[k][f] /\ U[m][g] = T[m][g]  BY <2>2
  <2> QED BY <1>1, <2>3 DEF Forest
<1> QED BY <1>2, <1>3 DEF LinksOk

\* unlink removes a name, and with it the link that a subdirectory is for its parent.
LEMMA LinksRemoved ==
  ASSUME NEW T, NEW D, NEW N, NEW P, LinksOk(T, D, N, P), NEW j \in Inums, NEW e \in Names, NEW p \in Procs,
         NEW c \in Inums, T[j][e] = c, P[p] = 0,
         NEW U, NEW M, NEW Q, LinksType(U, D, M, Q), U[j][e] = 0, Q[p] = c,
         \A k \in Inums, f \in Names : k # j \/ f # e => U[k][f] = T[k][f],
         \A q \in Procs : q # p => Q[q] = P[q],
         M[j] = N[j] - (IF c \in D THEN 1 ELSE 0), \A k \in Inums : k # j => M[k] = N[k]
  PROVE  LinksOk(U, D, M, Q)
<1>1. LinksType(T, D, N, P) /\ Forest(T) /\ 0 \notin Inums  BY Consts DEF LinksOk
<1>0. j # c  BY <1>1 DEF Forest
<1>2. \A k \in Inums : Claimed(U, D, Q, k) <= M[k]
  <2> TAKE k \in Inums
  <2>1. PICK a \in Int : a = IF k = c THEN -1 ELSE 0  OBVIOUS
  <2>2. PICK b \in Int : b = IF k = j /\ c \in D THEN -1 ELSE 0  OBVIOUS
  <2>7. PICK h \in Int : h = IF k = c THEN 1 ELSE 0  OBVIOUS
  <2>3. Cardinality(NamedBy(U, k)) <= Cardinality(NamedBy(T, k)) + a
    <3>1. Cardinality(NamedBy(U, k)) \in Nat /\ Cardinality(NamedBy(T, k)) \in Nat /\ U[j][e] # k  BY <1>1, ClaimsFinite
    <3>2. CASE k # c
      <4>1. Cardinality(NamedBy(U, k)) <= Cardinality(NamedBy(T, k))  BY <3>1, NamedChange
      <4> QED BY <2>1, <3>1, <3>2, <4>1
    <3>3. CASE k = c
      <4>1. Cardinality(NamedBy(U, k)) <= Cardinality(NamedBy(T, k)) - 1  BY <3>1, <3>3, NamedChange
      <4> QED BY <2>1, <3>1, <3>3, <4>1
    <3> QED BY <3>2, <3>3
  <2>4. Cardinality(SubsOf(U, D, k)) <= Cardinality(SubsOf(T, D, k)) + b
    <3>1. Cardinality(SubsOf(U, D, k)) \in Nat /\ Cardinality(SubsOf(T, D, k)) \in Nat /\ 0 \notin D
      BY <1>1, ClaimsFinite DEF LinksType
    <3>2. CASE k = j /\ c \in D
      <4>1. \A f \in Names : f # e /\ U[k][f] \in D => T[k][f] \in D  OBVIOUS
      <4>2. U[k][e] \notin D /\ T[k][e] \in D  BY <3>1, <3>2
      <4>3. Cardinality(SubsOf(U, D, k)) <= Cardinality(SubsOf(T, D, k)) - 1  BY <4>1, <4>2, SubsChange
      <4> QED BY <2>2, <3>1, <3>2, <4>3
    <3>3. CASE ~(k = j /\ c \in D)
      <4>1. SubsOf(U, D, k) \subseteq SubsOf(T, D, k)
        <5>1. \A f \in Names : U[k][f] \in {0, T[k][f]}  OBVIOUS
        <5> QED BY <3>1, <5>1 DEF SubsOf
      <4>2. Cardinality(SubsOf(U, D, k)) <= Cardinality(SubsOf(T, D, k))  BY <4>1, FewerMembers, ClaimsFinite
      <4> QED BY <2>2, <3>1, <3>3, <4>2
    <3> QED BY <3>2, <3>3
  <2>5. Cardinality(PendOn(Q, k)) <= Cardinality(PendOn(P, k)) + h
    <3>1. Cardinality(PendOn(Q, k)) \in Nat /\ Cardinality(PendOn(P, k)) \in Nat  BY ClaimsFinite
    <3>2. CASE k # c
      <4>1. Cardinality(PendOn(Q, k)) <= Cardinality(PendOn(P, k))  BY <3>2, PendChange
      <4> QED BY <2>7, <3>1, <3>2, <4>1
    <3>3. CASE k = c
      <4>1. Cardinality(PendOn(Q, k)) <= Cardinality(PendOn(P, k)) + 1  BY PendChange
      <4> QED BY <2>7, <3>3, <4>1
    <3> QED BY <3>2, <3>3
  <2>6. N[k] \in Int /\ M[k] \in Int /\ N[k] + a + b + h <= M[k]  BY <1>0, <1>1, <2>1, <2>2, <2>7 DEF LinksType
  <2> QED BY <2>3, <2>4, <2>5, <2>6, ClaimsMove
<1>3. Forest(U)
  <2> SUFFICES ASSUME NEW k \in Inums, NEW m \in Inums, NEW f \in Names, NEW g \in Names, U[k][f] = m, U[m][g] = k
               PROVE FALSE
    BY DEF Forest
  <2>3. U[k][f] = T[k][f] /\ U[m][g] = T[m][g]  BY <1>1
  <2> QED BY <1>1, <2>3 DEF Forest
<1> QED BY <1>2, <1>3 DEF LinksOk

\* create enters what it has made; a directory is a link for its parent.
LEMMA LinksMade ==
  ASSUME NEW T, NEW D, NEW N, NEW P, LinksOk(T, D, N, P), NEW j \in D, NEW e \in Names,
         NEW n \in Inums \ D, N[n] = 0, NEW dir \in BOOLEAN,
         NEW U, NEW E, NEW M, LinksType(U, E, M, P), E = D \union (IF dir THEN {n} ELSE {}), U[j][e] = n,
         \A k \in Inums, f \in Names : k # j \/ f # e => U[k][f] = T[k][f],
         M[n] = 1, M[j] = N[j] + (IF dir THEN 1 ELSE 0), \A k \in Inums : k # j /\ k # n => M[k] = N[k]
  PROVE  LinksOk(U, E, M, P)
<1>1. LinksType(T, D, N, P) /\ Forest(T) /\ 0 \notin Inums /\ j \in Inums  BY Consts DEF LinksOk, LinksType
<1>0. j # n /\ \A k \in Inums, f \in Names : T[k][f] # n
  <2>1. ~(N[n] > 0)  OBVIOUS
  <2> QED BY <2>1, ClaimedHasLink
<1>2. \A k \in Inums : Claimed(U, E, P, k) <= M[k]
  <2> TAKE k \in Inums
  <2>1. PICK a \in Int : a = IF k = n THEN 1 ELSE 0  OBVIOUS
  <2>2. PICK b \in Int : b = IF k = j /\ dir THEN 1 ELSE 0  OBVIOUS
  <2>3. Cardinality(NamedBy(U, k)) <= Cardinality(NamedBy(T, k)) + a
    <3>1. Cardinality(NamedBy(U, k)) \in Nat /\ Cardinality(NamedBy(T, k)) \in Nat  BY ClaimsFinite
    <3>2. CASE k # n
      <4>1. Cardinality(NamedBy(U, k)) <= Cardinality(NamedBy(T, k))  BY <1>1, <3>2, NamedChange
      <4> QED BY <2>1, <3>1, <3>2, <4>1
    <3>3. CASE k = n
      <4>1. Cardinality(NamedBy(U, k)) <= Cardinality(NamedBy(T, k)) + 1  BY <1>1, NamedChange
      <4> QED BY <2>1, <3>3, <4>1
    <3> QED BY <3>2, <3>3
  <2>4. Cardinality(SubsOf(U, E, k)) <= Cardinality(SubsOf(T, D, k)) + b
    <3>1. Cardinality(SubsOf(U, E, k)) \in Nat /\ Cardinality(SubsOf(T, D, k)) \in Nat  BY ClaimsFinite
    <3>2. \A f \in Names : (k # j \/ f # e) /\ U[k][f] \in E => T[k][f] \in D
      <4> TAKE f \in Names
      <4> HAVE (k # j \/ f # e) /\ U[k][f] \in E
      <4>1. U[k][f] = T[k][f] /\ T[k][f] # n  BY <1>0
      <4> QED BY <4>1
    <3>3. CASE k = j /\ dir
      <4>1. Cardinality(SubsOf(U, E, k)) <= Cardinality(SubsOf(T, D, k)) + 1  BY <3>2, SubsChange
      <4> QED BY <2>2, <3>3, <4>1
    <3>4. CASE ~(k = j /\ dir)
      <4>1. SubsOf(U, E, k) \subseteq SubsOf(T, D, k)
        <5>1. k = j => U[j][e] \notin E  BY <3>4
        <5> QED BY <3>2, <5>1 DEF SubsOf
      <4>2. Cardinality(SubsOf(U, E, k)) <= Cardinality(SubsOf(T, D, k))  BY <4>1, FewerMembers, ClaimsFinite
      <4> QED BY <2>2, <3>1, <3>4, <4>2
    <3> QED BY <3>3, <3>4
  <2>5. Cardinality(PendOn(P, k)) <= Cardinality(PendOn(P, k)) + 0  BY ClaimsFinite
  <2>6. N[k] \in Int /\ M[k] \in Int /\ N[k] + a + b + 0 <= M[k] /\ 0 \in Int
    <3>1. N[k] \in Int /\ M[k] \in Int  BY <1>1 DEF LinksType
    <3>2. CASE k = n  BY <1>0, <2>1, <2>2, <3>2
    <3>3. CASE k = j  BY <1>0, <2>1, <2>2, <3>1, <3>3
    <3>4. CASE k # n /\ k # j  BY <2>1, <2>2, <3>1, <3>4
    <3> QED BY <3>1, <3>2, <3>3, <3>4
  <2> QED BY <2>1, <2>2, <2>3, <2>4, <2>5, <2>6, ClaimsMove
<1>3. Forest(U)
  <2> SUFFICES ASSUME NEW k \in Inums, NEW m \in Inums, NEW f \in Names, NEW g \in Names, U[k][f] = m, U[m][g] = k
               PROVE FALSE
    BY DEF Forest
  <2>1. \A h \in Names : T[n][h] = 0 /\ U[n][h] = 0
    <3>1. \A h \in Names : T[n][h] = 0  BY <1>1 DEF LinksType
    <3> QED BY <1>0, <3>1
  <2>2. m # n /\ k # n  BY <1>1, <2>1
  <2>3. U[k][f] = T[k][f] /\ U[m][g] = T[m][g]  BY <2>2
  <2> QED BY <1>1, <2>3 DEF Forest
<1> QED BY <1>2, <1>3 DEF LinksOk

-----------------------------------------------------------------------------
(***************************************************************************)
(* The links of a state, and what the processes under way rely on.         *)
(***************************************************************************)
Num(s) == icache[s].inum
\* The inode that ialloc has marked for p and create has yet to fill in.
MakingBy(p) == IF pc[p] = "ialloc" THEN inum[p] ELSE IF pc[p] = "create3" THEN Num(at[p]) ELSE 0
\* The inode whose count p has raised before the entry, or has yet to lower after it.
PendSlot(p) ==
  IF ip[p] # None THEN ip[p]
  ELSE IF K(p) \in {"linkbad", "unlink3"} \/ (K(p) = "unlockdp" /\ at[p] # None) THEN at[p] ELSE None
Pending(p) == IF PendSlot(p) = None THEN 0 ELSE Num(PendSlot(p))
\* An inode in use that is not just being made.
Alive(i) == i \in Inums /\ dinode[i].type # "free" /\ \A p \in Procs : MakingBy(p) # i

Tree   == [j \in Inums |-> [e \in Names |-> IF j \in DirsInUse THEN dirlookup(dinode[j], e) ELSE 0]]
NLinks == [i \in Inums |-> dinode[i].nlink]
Pend   == [p \in Procs |-> Pending(p)]
\* Directories are made in the root only: then every ".." leads to the root.
TopDirs  == \A c \in Calls : c.op = "mkdir" => c.abs = TRUE /\ Len(c.path) = 1
UpOk(up) == TopDirs => up = 1
DirsOk ==
  /\ \A i \in DirsInUse : dirlookup(dinode[i], ".") = i /\ UpOk(dirlookup(dinode[i], ".."))
  /\ \A i \in Inums : Alive(i) /\ dinode[i].type = "dir" => dinode[i].size > 0
MakingOk ==
  \A p \in Procs : MakingBy(p) # 0 =>
    /\ MakingBy(p) \in Inums
    /\ dinode[MakingBy(p)] = Free(NewType(p))
    /\ \A q \in Procs : q # p => MakingBy(q) # MakingBy(p)

\* The pointers of p to inodes that are alive.
Ptrs(p) == {cwd[p], ofile[p], at[p], ip[p], dp[p]}
Live(p) == {cwd[p], ofile[p], ip[p], dp[p]} \union (IF pc[p] = "create3" THEN {} ELSE {at[p]})
                                            \union (IF pc[p] = "drop" THEN {} ELSE {put[p]})
LiveOk(p) == \A s \in Live(p) : s # None => Alive(Num(s))
\* Nobody else knows what p is about to free.
Sole(p) ==
  pc[p] = "free" => /\ dinode[Num(put[p])].nlink = 0
                    /\ \A q \in Procs : put[p] \notin Ptrs(q) /\ (q # p => put[q] # put[p])
DirAt(s) == dinode[Num(s)].type = "dir"
Kinds(p) ==
  /\ DirAt(cwd[p])
  /\ K(p) \in {"link2", "unlink1", "create1"} => DirAt(at[p])
  /\ dp[p] # None => DirAt(dp[p])
  /\ ip[p] # None => ~DirAt(ip[p])
  /\ pc[p] \in {"unlink2", "ialloc", "create3"} => skipelem(p) \in Names
  /\ pc[p] = "unlink2" => Tree[Num(dp[p])][skipelem(p)] = Num(at[p])
RegLive(p) == LiveOk(p) /\ Sole(p) /\ Kinds(p)
LinkInv ==
  /\ LinksOk(Tree, DirsInUse, NLinks, Pend)
  /\ DirsOk /\ MakingOk /\ \A p \in Procs : RegLive(p)

\* The directory that a ".." leads to when it is looked up has not been removed.
\* The code does not see to that: the ".." of a removed directory is no link.
LooksUp(p) == pc[p] \in {"link2", "create1"} \/ (pc[p] = "namex" /\ path[p] # <<>> /\ ~AtParent(p))
UpLive ==
  \A p \in Procs :
    LooksUp(p) /\ skipelem(p) = ".." /\ DirAt(at[p]) =>
      LET i == dirlookup(dinode[Num(at[p])], "..") IN i # 0 /\ dinode[i].nlink > 0

LEMMA PendType ==
  ASSUME FsInv, NEW p \in Procs
  PROVE  PendSlot(p) \in Slots \union {None} /\ Pending(p) \in {0} \union Inums
<1>1. PendSlot(p) \in Slots \union {None}  BY DEF FsInv, RegType, PendSlot
<1>2. PendSlot(p) # None => Num(PendSlot(p)) \in Inums  BY <1>1, RefNat, SlotFields DEF Num
<1> QED BY <1>1, <1>2 DEF Pending

LEMMA LinksTyped == FsInv => LinksType(Tree, DirsInUse, NLinks, Pend)
<1> SUFFICES ASSUME FsInv PROVE LinksType(Tree, DirsInUse, NLinks, Pend)  OBVIOUS
<1>1. \A j \in Inums, e \in Names : dirlookup(dinode[j], e) \in {0} \union Inums  BY LookupType DEF Elems
<1>2. Tree \in [Inums -> [Names -> {0} \union Inums]]  BY <1>1 DEF Tree
<1>3. NLinks \in [Inums -> Int]
  <2>1. \A i \in Inums : dinode[i] \in Inode  BY DEF FsInv, Good
  <2> QED BY <2>1, InodeFields DEF NLinks
<1>4. Pend \in [Procs -> {0} \union Inums]  BY PendType DEF Pend
<1>5. \A i \in Inums \ DirsInUse, e \in Names : Tree[i][e] = 0  BY DEF Tree
<1> QED BY <1>2, <1>3, <1>4, <1>5 DEF LinksType, DirsInUse

\* A slot that is used keeps its inode.
KeepsNums == \A s \in Slots : icache[s].ref > 0 => icache'[s].inum = icache[s].inum

\* The other processes see the inodes they saw.
LEMMA OthersKept ==
  ASSUME FsInv, NEW p \in Procs, Only(p), KeepsNums, NEW q \in Procs, q # p
  PROVE  /\ Pending(q)' = Pending(q) /\ MakingBy(q)' = MakingBy(q)
         /\ Ptrs(q)' = Ptrs(q) /\ Live(q)' = Live(q) /\ put'[q] = put[q] /\ pc'[q] = pc[q] /\ K(q)' = K(q)
         /\ \A s \in Ptrs(q) \union Live(q) \union {put[q]} : s # None => s \in Slots /\ icache[s].ref > 0 /\ Num(s)' = Num(s)
<1>1. /\ cwd'[q] = cwd[q] /\ ofile'[q] = ofile[q] /\ at'[q] = at[q] /\ ip'[q] = ip[q] /\ dp'[q] = dp[q]
      /\ put'[q] = put[q] /\ pc'[q] = pc[q] /\ ret'[q] = ret[q] /\ inum'[q] = inum[q]
  BY DEF Only, Same
<1>2. K(q)' = K(q) /\ Ptrs(q)' = Ptrs(q) /\ Live(q)' = Live(q)  BY <1>1 DEF K, Ptrs, Live
<1>3. \A s \in {cwd[q], ofile[q], put[q], at[q], ip[q], dp[q]} : s # None => s \in Slots
  BY DEF FsInv, RegType
<1>4. \A s \in {cwd[q], ofile[q], put[q], at[q], ip[q], dp[q]} : s # None => s \in Slots /\ icache[s].ref > 0 /\ Num(s)' = Num(s)
  BY <1>3, Pointed DEF KeepsNums, Num
<1>5. PendSlot(q)' = PendSlot(q) /\ PendSlot(q) \in {None, ip[q], at[q]}  BY <1>1, <1>2 DEF PendSlot
<1>6. Pending(q)' = Pending(q)  BY <1>4, <1>5 DEF Pending, Num
<1>7. MakingBy(q)' = MakingBy(q)
  <2>1. pc[q] = "create3" => at[q] # None  BY DEF FsInv, RegsOk, K, AtSteps, Iput
  <2> QED BY <1>1, <1>4, <2>1 DEF MakingBy, Num
<1>8. Ptrs(q) \union Live(q) \union {put[q]} \subseteq {cwd[q], ofile[q], put[q], at[q], ip[q], dp[q]}  BY DEF Ptrs, Live
<1> QED BY <1>1, <1>2, <1>4, <1>6, <1>7, <1>8

\* A link keeps an inode alive.
LEMMA LinkedIsAlive ==
  ASSUME FsInv, BlocksInv, MakingOk, NEW i \in Inums, dinode[i].nlink > 0
  PROVE  Alive(i)
<1>1. dinode[i].type = "free" => dinode[i] = Free("free")  BY DEF BlocksInv, BlocksIn, Shape
<1>2. Free("free").nlink = 0 /\ \A p \in Procs : Free(NewType(p)).nlink = 0  BY DEF Free
<1>3. \A p \in Procs : MakingBy(p) # i
  <2> SUFFICES ASSUME NEW p \in Procs, MakingBy(p) = i PROVE FALSE  OBVIOUS
  <2>1. dinode[i] = Free(NewType(p))  BY Consts DEF MakingOk
  <2> QED BY <1>2, <2>1
<1> QED BY <1>1, <1>2, <1>3 DEF Alive

\* What can be reached is alive, and is not being freed.
Found(i) == Alive(i) /\ \A q \in Procs : pc[q] = "free" => Num(put[q]) # i

LEMMA LinkedIsFound ==
  ASSUME FsInv, BlocksInv, LinkInv, NEW i \in Inums, dinode[i].nlink > 0
  PROVE  Found(i)
<1>1. Alive(i)  BY LinkedIsAlive DEF LinkInv
<1>2. \A q \in Procs : pc[q] = "free" => dinode[Num(put[q])].nlink = 0  BY DEF LinkInv, RegLive, Sole
<1> QED BY <1>1, <1>2 DEF Found

LEMMA PointedIsFound ==
  ASSUME FsInv, LinkInv, NEW p \in Procs, NEW s \in Slots, s \in Ptrs(p), pc[p] \notin {"create3", "drop"}
  PROVE  Found(Num(s))
<1>1. s \in Live(p) /\ s # None  BY Consts DEF Live, Ptrs
<1>2. Alive(Num(s))  BY <1>1 DEF LinkInv, RegLive, LiveOk
<1>3. icache[s].ref > 0  BY Pointed DEF Ptrs
<1>4. ASSUME NEW q \in Procs, pc[q] = "free" PROVE Num(put[q]) # Num(s)
  <2>1. put[q] # s  BY <1>4 DEF LinkInv, RegLive, Sole
  <2>2. put[q] \in Slots /\ icache[put[q]].ref > 0  BY <1>4, InIput DEF Iput
  <2> QED BY <1>3, <2>1, <2>2 DEF FsInv, Good, Unique, Num
<1> QED BY <1>2, <1>4 DEF Found

LEMMA AliveDir ==
  ASSUME FsInv, LinkInv, NEW i \in Inums, Alive(i), dinode[i].type = "dir"
  PROVE  i \in DirsInUse /\ dinode[i].size > 0 /\ dirlookup(dinode[i], ".") = i
         /\ \A e \in Names : Tree[i][e] = dirlookup(dinode[i], e)
<1>1. dinode[i].size > 0  BY DEF LinkInv, DirsOk
<1>2. i \in DirsInUse  BY <1>1 DEF DirsInUse
<1> QED BY <1>1, <1>2 DEF LinkInv, DirsOk, Tree

\* What a name, "." or a ".." that leads on is found to be.
LEMMA LookupFound ==
  ASSUME FsInv, BlocksInv, LinkInv, UpLive, NEW p \in Procs, at[p] \in Slots, pc[p] \in {"namex", "link2", "create1", "unlink1"},
         DirAt(at[p]), LooksUp(p) \/ (pc[p] # "namex" /\ skipelem(p) \in Names),
         NEW i, i = dirlookup(dinode[Num(at[p])], skipelem(p)), i # 0
  PROVE  i \in Inums /\ Found(i)
<1>0. K(p) = pc[p]  BY DEF K, Iput
<1>1. Num(at[p]) \in Inums /\ Found(Num(at[p]))
  <2>1. Num(at[p]) \in Inums  BY RefNat, SlotFields DEF Num
  <2>2. Found(Num(at[p]))  BY PointedIsFound DEF Ptrs
  <2> QED BY <2>1, <2>2
<1>2. /\ Num(at[p]) \in DirsInUse /\ dirlookup(dinode[Num(at[p])], ".") = Num(at[p])
      /\ \A e \in Names : Tree[Num(at[p])][e] = dirlookup(dinode[Num(at[p])], e)
  BY <1>1, AliveDir DEF DirAt, Found
<1>3. skipelem(p) \in Elems  BY <1>0, SkipElem DEF LooksUp
<1>4. i \in Inums  BY <1>1, <1>3, LookupType
<1>5. CASE skipelem(p) = "."  BY <1>1, <1>2, <1>5
<1>6. CASE skipelem(p) = ".."
  <2>1. LooksUp(p)  BY <1>6, FsAssumption
  <2>2. dinode[i].nlink > 0  BY <1>6, <2>1 DEF UpLive
  <2> QED BY <1>4, <2>2, LinkedIsFound
<1>7. CASE skipelem(p) \in Names
  <2>1. Tree[Num(at[p])][skipelem(p)] = i  BY <1>2, <1>7
  <2>2. NLinks[i] > 0  BY <1>1, <1>4, <1>7, <2>1, ClaimedHasLink DEF LinkInv
  <2>3. dinode[i].nlink > 0  BY <1>4, <2>2 DEF NLinks
  <2> QED BY <1>4, <2>3, LinkedIsFound
<1> QED BY <1>3, <1>5, <1>6, <1>7 DEF Elems

LEMMA RootFound == ASSUME FsInv, BlocksInv, LinkInv PROVE Found(1)
<1>1. 1 \in Inums  BY Consts
<1>2. NLinks[1] > 0  BY <1>1, ClaimedHasLink DEF LinkInv
<1> QED BY <1>1, <1>2, LinkedIsFound DEF NLinks

Survives(i) == Alive(i)' /\ dinode'[i].type = dinode[i].type

LEMMA OthersLive ==
  ASSUME FsInv, LinkInv, NEW p \in Procs, Only(p), KeepsNums, NEW q \in Procs, q # p,
         \A i \in Inums : (\E s \in Live(q) : s # None /\ Num(s) = i) => Survives(i),
         pc[q] = "free" => put[q] \notin Ptrs(p)' /\ put[q] # put'[p],
         \A i \in Inums : pc[q] = "free" /\ i = Num(put[q]) => dinode'[i].nlink = dinode[i].nlink,
         \A i \in Inums : pc[q] = "unlink2" /\ i = Num(dp[q]) => \A e \in Names : e = skipelem(q) => Tree'[i][e] = Tree[i][e]
  PROVE  RegLive(q)'
<1>1. /\ Ptrs(q)' = Ptrs(q) /\ Live(q)' = Live(q) /\ put'[q] = put[q] /\ pc'[q] = pc[q] /\ K(q)' = K(q)
      /\ \A s \in Ptrs(q) \union Live(q) \union {put[q]} : s # None => s \in Slots /\ icache[s].ref > 0 /\ Num(s)' = Num(s)
  BY OthersKept
<1>2. /\ cwd'[q] = cwd[q] /\ at'[q] = at[q] /\ ip'[q] = ip[q] /\ dp'[q] = dp[q] /\ path'[q] = path[q]
  BY DEF Only, Same
<1>3. RegLive(q) /\ RegType /\ RegsOk(q)  BY DEF LinkInv, FsInv
<1>4. \A s \in Slots : Num(s) \in Inums  BY RefNat, SlotFields DEF Num
<1>5. ASSUME NEW s \in Live(q), s # None PROVE Num(s)' = Num(s) /\ Num(s) \in Inums /\ Survives(Num(s)) /\ Alive(Num(s))'
  <2>1. s \in Slots /\ Num(s)' = Num(s)  BY <1>1, <1>5
  <2>2. PICK i \in Inums : i = Num(s)  BY <1>4, <2>1
  <2>3. Survives(i)  BY <1>5, <2>2
  <2>4. Alive(i)' /\ dinode'[i].type = dinode[i].type  BY <2>3 DEF Survives
  <2>5. i = Num(s)'  BY <2>1, <2>2
  <2>6. Alive(Num(s))'  BY <2>4, <2>5 DEF Alive
  <2> QED BY <2>1, <2>2, <2>4, <2>6 DEF Survives
<1>6. LiveOk(q)'  BY <1>1, <1>5 DEF LiveOk
<1>7. Sole(q)'
  <2> SUFFICES ASSUME pc[q] = "free" PROVE Sole(q)'  BY <1>1 DEF Sole
  <2>1. put[q] \in Slots  BY InIput DEF Iput
  <2>2. Num(put[q])' = Num(put[q]) /\ Num(put[q]) \in Inums  BY <1>1, <1>4, <2>1, Consts
  <2>3. dinode'[Num(put[q])].nlink = 0  BY <1>3, <2>2 DEF RegLive, Sole
  <2>4. ASSUME NEW r \in Procs PROVE put[q] \notin Ptrs(r)' /\ (r # q => put'[r] # put[q])
    <3>1. CASE r = p  BY <3>1
    <3>2. CASE r # p
      <4>1. Ptrs(r)' = Ptrs(r) /\ put'[r] = put[r]  BY <3>2, OthersKept
      <4> QED BY <1>3, <4>1 DEF RegLive, Sole
    <3> QED BY <3>1, <3>2
  <2> QED BY <1>1, <2>2, <2>3, <2>4 DEF Sole
<1>8. Kinds(q)'
  <2>1. cwd[q] \in Slots /\ cwd[q] # None /\ cwd[q] \in Live(q) /\ ip[q] \in Live(q) /\ dp[q] \in Live(q)
        /\ (pc[q] # "create3" => at[q] \in Live(q))
    BY <1>3, Consts DEF RegType, Live
  <2>2. \A s \in Live(q) : s # None => (dinode'[icache'[s].inum].type = "dir" <=> DirAt(s))
    BY <1>5 DEF Survives, DirAt, Num
  <2>3. DirAt(cwd[q])'  BY <1>2, <1>3, <2>1, <2>2 DEF RegLive, Kinds, DirAt, Num
  <2>4. K(q) \in {"link2", "unlink1", "create1"} => DirAt(at[q])' /\ at[q] # None
    <3>1. K(q) \in {"link2", "unlink1", "create1"} => at[q] # None /\ pc[q] # "create3"
      BY <1>3 DEF RegsOk, AtSteps, K, Iput
    <3> QED BY <1>2, <1>3, <2>1, <2>2, <3>1 DEF RegLive, Kinds, DirAt, Num
  <2>5. (dp[q] # None => DirAt(dp[q])') /\ (ip[q] # None => ~DirAt(ip[q])')  
    BY <1>2, <1>3, <2>1, <2>2 DEF RegLive, Kinds, DirAt, Num
  <2>6. pc[q] \in {"unlink2", "ialloc", "create3"} => skipelem(q)' \in Names  BY <1>2, <1>3 DEF RegLive, Kinds, skipelem
  <2>7. pc[q] = "unlink2" => Tree'[Num(dp[q])'][skipelem(q)'] = Num(at[q])'
    <3> SUFFICES ASSUME pc[q] = "unlink2" PROVE Tree'[Num(dp[q])'][skipelem(q)'] = Num(at[q])'  OBVIOUS
    <3>1. dp[q] # None /\ at[q] # None  BY <1>3 DEF RegsOk, K, DpSteps, AtSteps, Iput
    <3>2. Num(dp[q])' = Num(dp[q]) /\ Num(dp[q]) \in Inums /\ Num(at[q])' = Num(at[q])
      BY <1>2, <1>5, <2>1, <3>1 DEF Num
    <3>3. skipelem(q)' = skipelem(q) /\ skipelem(q) \in Names  BY <1>2, <1>3 DEF RegLive, Kinds, skipelem
    <3>4. Tree'[Num(dp[q])][skipelem(q)] = Tree[Num(dp[q])][skipelem(q)]  BY <3>2, <3>3
    <3> QED BY <1>3, <3>2, <3>3, <3>4 DEF RegLive, Kinds
  <2> QED BY <1>1, <1>2, <2>3, <2>4, <2>5, <2>6, <2>7 DEF Kinds, DirAt, Num
<1> QED BY <1>6, <1>7, <1>8 DEF RegLive

\* Not being freed.
Safe(i) == \A q \in Procs : pc[q] = "free" => Num(put[q]) # i
\* Where the pointers of p come from: p had them, or has found what they lead to.
LiveFrom(p) == \A s \in Live(p)' : s = None \/ s \in Live(p) \/ (s \in Slots /\ Found(icache'[s].inum))
PtrsFrom(p) == \A s \in Ptrs(p)' \union {put'[p]} :
                 s = None \/ s \in Ptrs(p) \union {put[p]} \/ (s \in Slots /\ Safe(icache'[s].inum))

LEMMA PointerSlot ==
  ASSUME FsInv, NEW p \in Procs, NEW s \in Ptrs(p) \union Live(p) \union {put[p]}, s # None
  PROVE  s \in Slots /\ icache[s].ref > 0 /\ Num(s) \in Inums
<1>1. s \in {cwd[p], ofile[p], put[p], at[p], ip[p], dp[p]}  BY DEF Ptrs, Live
<1>2. s \in Slots  BY <1>1 DEF FsInv, RegType
<1> QED BY <1>1, <1>2, Pointed, RefNat, SlotFields DEF Num

\* p takes no pointer to what q frees.
LEMMA FreedApart ==
  ASSUME FsInv, LinkInv, NEW p \in Procs, KeepsNums, PtrsFrom(p), NEW q \in Procs, q # p, pc[q] = "free"
  PROVE  put[q] \notin Ptrs(p)' /\ put[q] # put'[p]
<1>1. put[q] \in Slots /\ icache[put[q]].ref > 0 /\ put[q] # None  BY InIput, Consts DEF Iput
<1>2. put[q] \notin Ptrs(p) /\ put[q] # put[p]  BY DEF LinkInv, RegLive, Sole
<1>3. ~Safe(icache'[put[q]].inum)  BY <1>1 DEF Safe, KeepsNums, Num
<1> QED BY <1>1, <1>2, <1>3 DEF PtrsFrom

LEMMA LiveKept ==
  ASSUME FsInv, LinkInv, NEW p \in Procs, KeepsNums, LiveFrom(p),
         \A i \in Inums : Alive(i) /\ (Found(i) \/ \E s \in Live(p) : s # None /\ Num(s) = i) => Alive(i)'
  PROVE  LiveOk(p)'
<1> SUFFICES ASSUME NEW s \in Live(p)', s # None PROVE Alive(Num(s))'
  BY DEF LiveOk
<1>1. CASE s \in Live(p)
  <2>1. s \in Slots /\ icache[s].ref > 0 /\ Num(s) \in Inums  BY <1>1, PointerSlot
  <2>2. PICK i \in Inums : i = Num(s)  BY <2>1
  <2>3. Alive(i)  BY <1>1, <2>2 DEF LinkInv, RegLive, LiveOk
  <2>4. Alive(i)'  BY <1>1, <2>2, <2>3
  <2>5. i = Num(s)'  BY <2>1, <2>2 DEF KeepsNums, Num
  <2> QED BY <2>4, <2>5 DEF Alive
<1>2. CASE s \in Slots /\ Found(icache'[s].inum)
  <2>1. PICK i : i = icache'[s].inum  OBVIOUS
  <2>2. Found(i) /\ Alive(i) /\ i \in Inums  BY <1>2, <2>1 DEF Found, Alive
  <2>3. Alive(i)'  BY <2>2
  <2>4. i = Num(s)'  BY <2>1 DEF Num
  <2> QED BY <2>3, <2>4 DEF Alive
<1> QED BY <1>1, <1>2 DEF LiveFrom

\* A step of p that leaves the disk alone.
LEMMA QuietLinks ==
  ASSUME FsInv, LinkInv, NEW p \in Procs, Only(p), KeepsNums, dinode' = dinode, data' = data,
         Pending(p)' = Pending(p), MakingBy(p)' = MakingBy(p), MakingBy(p) # 0 => call'[p] = call[p],
         LiveFrom(p), PtrsFrom(p), Sole(p)', Kinds(p)'
  PROVE  LinkInv'
<1>1. \A q \in Procs : Pending(q)' = Pending(q) /\ MakingBy(q)' = MakingBy(q)
  <2> TAKE q \in Procs
  <2>1. CASE q = p  BY <2>1
  <2>2. CASE q # p  BY <2>2, OthersKept
  <2> QED BY <2>1, <2>2
<1>2. DirsInUse' = DirsInUse /\ NLinks' = NLinks /\ \A i, e : dirlookup(dinode[i], e)' = dirlookup(dinode[i], e)
  BY DEF DirsInUse, NLinks, dirlookup
<1>3. Tree' = Tree  BY <1>2 DEF Tree
<1>4. Pend' = Pend  BY <1>1 DEF Pend
<1>5. LinksOk(Tree', DirsInUse', NLinks', Pend')  BY <1>2, <1>3, <1>4 DEF LinkInv
<1>6. \A i : Alive(i)' <=> Alive(i)  BY <1>1 DEF Alive
<1>7. DirsOk'  BY <1>2, <1>6 DEF LinkInv, DirsOk
<1>8. MakingOk'
  <2>1. \A q \in Procs : MakingBy(q) # 0 => NewType(q)' = NewType(q)
    <3> TAKE q \in Procs
    <3>1. q # p => call'[q] = call[q]  BY DEF Only, Same
    <3> QED BY <3>1 DEF NewType
  <2> QED BY <1>1, <2>1 DEF LinkInv, MakingOk, Free
<1>9. LiveOk(p)'  BY <1>6, LiveKept
<1>10. ASSUME NEW q \in Procs PROVE RegLive(q)'
  <2>1. CASE q = p  BY <1>9, <2>1 DEF RegLive
  <2>2. CASE q # p
    <3>1. \A i \in Inums : (\E s \in Live(q) : s # None /\ Num(s) = i) => Survives(i)
      <4>1. \A s \in Live(q) : s # None => Alive(Num(s))  BY DEF LinkInv, RegLive, LiveOk
      <4> QED BY <1>6, <4>1 DEF Survives
    <3>2. pc[q] = "free" => put[q] \notin Ptrs(p)' /\ put[q] # put'[p]  BY <2>2, FreedApart
    <3> QED BY <1>3, <2>2, <3>1, <3>2, OthersLive
  <2> QED BY <2>1, <2>2
<1> QED BY <1>5, <1>7, <1>8, <1>10 DEF LinkInv, LinksOk, LinksType, Forest, Claimed, NamedBy, SubsOf, PendOn, One

LEMMA KeepSame == ASSUME icache' = icache PROVE KeepsNums
BY DEF KeepsNums
LEMMA KeepSeen ==
  ASSUME FsInv, NEW s \in Slots, icache[s].ref > 0, Loaded(s).d.type # "free", NEW h \in {0} \union Procs,
         icache' = Seen(icache, s, h)
  PROVE  KeepsNums
<1>1. Changed(icache, icache', s, dinode[icache[s].inum], h)  BY GoodSeen DEF FsInv
<1> QED BY <1>1 DEF Changed, KeepsNums
LEMMA KeepLock ==
  ASSUME FsInv, NEW s \in Slots, NEW h \in {0} \union Procs, icache' = [icache EXCEPT ![s].lock = h]
  PROVE  KeepsNums
<1>1. icache \in CacheType  BY RefNat
<1> QED BY <1>1 DEF KeepsNums, CacheType
LEMMA KeepGet ==
  ASSUME FsInv, NEW i \in Inums, HasSlot(icache, i), icache' = iget(icache, i), NEW t, t = SlotOf(icache, i)
  PROVE  KeepsNums /\ t \in Slots /\ icache'[t].inum = i
<1>1. icache \in CacheType /\ \A x \in Slots : icache[x].ref \in Nat  BY RefNat
<1>2. Got(icache, icache', i, t)  BY <1>1, IgetSlot
<1> QED BY <1>1, <1>2 DEF Got, KeepsNums
LEMMA KeepSeenGet ==
  ASSUME FsInv, NEW s \in Slots, icache[s].ref > 0, Loaded(s).d.type # "free", NEW h \in {0} \union Procs,
         NEW i \in Inums, HasSlot(icache, i), icache' = iget(Seen(icache, s, h), i), NEW t, t = SlotOf(icache, i)
  PROVE  KeepsNums /\ t \in Slots /\ icache'[t].inum = i
<1>1. \A x \in Slots : icache[x].ref \in Nat  BY RefNat
<1>2. PICK jc : jc = Seen(icache, s, h)  OBVIOUS
<1>3. Good(jc, dinode) /\ Changed(icache, jc, s, dinode[icache[s].inum], h)  BY <1>2, GoodSeen DEF FsInv
<1>4. SlotOf(jc, i) = t /\ HasSlot(jc, i)  BY <1>2, SeenSlot
<1>5. jc \in CacheType  BY <1>3 DEF Good
<1>6. Got(jc, icache', i, t)  BY <1>2, <1>4, <1>5, IgetSlot
<1> QED BY <1>1, <1>3, <1>6 DEF Got, Changed, KeepsNums
LEMMA KeepDup ==
  ASSUME FsInv, NEW s \in Slots, icache' = idup(icache, s)
  PROVE  KeepsNums
<1>1. icache \in CacheType  BY RefNat
<1> QED BY <1>1 DEF KeepsNums, CacheType, idup

LEMMA CwdKept ==
  ASSUME FsInv, LinkInv, NEW p \in Procs, KeepsNums, cwd'[p] = cwd[p], dinode' = dinode
  PROVE  DirAt(cwd[p])'
<1>1. cwd[p] \in Slots /\ icache[cwd[p]].ref > 0
  <2>1. cwd[p] \in Slots  BY DEF FsInv, RegType
  <2> QED BY <2>1, Pointed
<1>2. DirAt(cwd[p])  BY DEF LinkInv, RegLive, Kinds
<1> QED BY <1>1, <1>2 DEF KeepsNums, DirAt, Num

\* Steps that have nothing under way before or after but at and put.
LEMMA EasyLinks ==
  ASSUME FsInv, LinkInv, NEW p \in Procs, Only(p), KeepsNums, dinode' = dinode, data' = data,
         Pending(p) = 0, pc[p] \notin {"ialloc", "create3"},
         ip'[p] = None, dp'[p] = None, K(p)' \notin {"link2", "unlink1", "create1", "linkbad", "unlink3", "unlockdp"},
         pc'[p] \notin {"unlink2", "ialloc", "create3", "free"}, DirAt(cwd[p])', LiveFrom(p), PtrsFrom(p)
  PROVE  LinkInv'
<1>1. Pending(p)' = Pending(p)  BY DEF Pending, PendSlot
<1>2. MakingBy(p)' = MakingBy(p) /\ MakingBy(p) = 0  BY DEF MakingBy
<1>3. Sole(p)'  BY DEF Sole
<1>4. Kinds(p)'  BY DEF Kinds
<1> QED BY <1>1, <1>2, <1>3, <1>4, QuietLinks

LEMMA NothingPending ==
  ASSUME NEW p \in Procs, ip[p] = None, K(p) \notin {"linkbad", "unlink3", "unlockdp"}
  PROVE  Pending(p) = 0
BY DEF Pending, PendSlot

LEMMA PutAtLinks ==
  ASSUME FsInv, LinkInv, NEW p \in Procs, pc[p] \in AtSteps \ {"namex", "link2", "unlink2", "create3", "linkbad", "unlink3"},
         PutAt(p, "end_op"), UNCHANGED <<cwd, ofile, call, path, ip, dp, inum>>, KeepsNums, dinode' = dinode, data' = data
  PROVE  LinkInv'
<1> USE DEF PutAt, Put
<1>0. RegType /\ RegsOk(p)  BY DEF FsInv
<1>1. /\ pc'[p] = "iput" /\ ret'[p] = "end_op" /\ put'[p] = at[p] /\ at'[p] = None
      /\ ofile'[p] = ofile[p] /\ cwd'[p] = cwd[p] /\ ip'[p] = ip[p] /\ dp'[p] = dp[p]
  BY <1>0 DEF RegType
<1>2. Only(p)  BY <1>0 DEF Only, Same, RegType
<1>3. ip[p] = None /\ dp[p] = None /\ K(p) = pc[p] /\ pc[p] # "drop"
  BY <1>0 DEF RegsOk, K, AtSteps, DpSteps, Iput
<1>4. Pending(p) = 0  BY <1>3, NothingPending DEF AtSteps
<1>5. K(p)' = "end_op"  BY <1>1 DEF K, Iput
<1>6. LiveFrom(p) /\ PtrsFrom(p)  BY <1>1, <1>3 DEF LiveFrom, PtrsFrom, Live, Ptrs
<1>7. DirAt(cwd[p])'  BY <1>1, CwdKept
<1> QED BY <1>1, <1>2, <1>3, <1>4, <1>5, <1>6, <1>7, EasyLinks DEF AtSteps

LEMMA OpenedLinks ==
  ASSUME FsInv, LinkInv, NEW p \in Procs, pc[p] \in {"open1", "create2", "create4"},
         Opened(p), UNCHANGED <<cwd, call, path, ip, dp, inum>>, KeepsNums, dinode' = dinode, data' = data
  PROVE  LinkInv'
<1>1. CASE ofile[p] # None
  <2>1. PutAt(p, "end_op") /\ UNCHANGED ofile  BY <1>1 DEF Opened
  <2> QED BY <2>1, PutAtLinks DEF AtSteps
<1>2. CASE ofile[p] = None
  <2>0. RegType /\ RegsOk(p)  BY DEF FsInv
  <2>a. ofile' = [ofile EXCEPT ![p] = at[p]] /\ at' = [at EXCEPT ![p] = None] /\ Goto(p, "end_op")
    BY <1>2 DEF Opened
  <2> USE DEF Goto
  <2>1. /\ pc'[p] = "end_op" /\ ret'[p] = ret[p] /\ put'[p] = put[p] /\ at'[p] = None
        /\ ofile'[p] = at[p] /\ cwd'[p] = cwd[p] /\ ip'[p] = ip[p] /\ dp'[p] = dp[p]
    BY <2>0, <2>a DEF RegType
  <2>2. Only(p)  BY <2>0, <2>a DEF Only, Same, RegType
  <2>3. ip[p] = None /\ dp[p] = None /\ K(p) = pc[p]  BY <2>0 DEF RegsOk, K, AtSteps, DpSteps, Iput
  <2>4. Pending(p) = 0  BY <2>3, NothingPending
  <2>5. K(p)' = "end_op"  BY <2>1 DEF K, Iput
  <2>6. LiveFrom(p) /\ PtrsFrom(p)  BY <2>1, <2>3 DEF LiveFrom, PtrsFrom, Live, Ptrs
  <2>7. DirAt(cwd[p])'  BY <2>1, CwdKept
  <2> QED BY <2>1, <2>2, <2>3, <2>4, <2>5, <2>6, <2>7, EasyLinks
<1> QED BY <1>1, <1>2

LEMMA Open1Links == ASSUME FsInv, LinkInv, NEW p \in Procs, open1(p) PROVE LinkInv'
<1>1. ilock(p, "open1", at[p]) /\ icache' = Seen(icache, at[p], 0) /\ UNCHANGED <<disk, cwd, call, path, ip, dp, inum>>
  BY DEF open1
<1>2. pc[p] = "open1" /\ at[p] \in Slots /\ icache[at[p]].ref > 0 /\ Loaded(at[p]).d.type # "free"
  BY <1>1, LockedAt DEF AtSteps
<1>3. KeepsNums /\ dinode' = dinode /\ data' = data  BY <1>1, <1>2, KeepSeen DEF disk
<1>4. CASE Opened(p)  BY <1>1, <1>2, <1>3, <1>4, OpenedLinks
<1>5. CASE PutAt(p, "end_op") /\ UNCHANGED ofile  BY <1>1, <1>2, <1>3, <1>5, PutAtLinks DEF AtSteps
<1> QED BY <1>4, <1>5 DEF open1

LEMMA Create2Links == ASSUME FsInv, LinkInv, NEW p \in Procs, create2(p) PROVE LinkInv'
<1>1. ilock(p, "create2", at[p]) /\ icache' = Seen(icache, at[p], 0) /\ UNCHANGED <<disk, cwd, call, path, ip, dp, inum>>
  BY DEF create2
<1>2. pc[p] = "create2" /\ at[p] \in Slots /\ icache[at[p]].ref > 0 /\ Loaded(at[p]).d.type # "free"
  BY <1>1, LockedAt DEF AtSteps
<1>3. KeepsNums /\ dinode' = dinode /\ data' = data  BY <1>1, <1>2, KeepSeen DEF disk
<1>4. CASE Opened(p)  BY <1>1, <1>2, <1>3, <1>4, OpenedLinks
<1>5. CASE PutAt(p, "end_op") /\ UNCHANGED ofile  BY <1>1, <1>2, <1>3, <1>5, PutAtLinks DEF AtSteps
<1> QED BY <1>4, <1>5 DEF create2

LEMMA Create4Links == ASSUME FsInv, LinkInv, NEW p \in Procs, create4(p) PROVE LinkInv'
<1>1. pc[p] = "create4" /\ icache' = [icache EXCEPT ![at[p]].lock = 0] /\ UNCHANGED <<disk, cwd, call, path, ip, dp, inum>>
  BY DEF create4, InStep
<1>2. at[p] \in Slots  BY <1>1, HeldAt
<1>3. KeepsNums /\ dinode' = dinode /\ data' = data  BY <1>1, <1>2, KeepLock DEF disk
<1>4. CASE Opened(p)  BY <1>1, <1>3, <1>4, OpenedLinks
<1>5. CASE PutAt(p, "end_op") /\ UNCHANGED ofile  BY <1>1, <1>3, <1>5, PutAtLinks DEF AtSteps
<1> QED BY <1>4, <1>5 DEF create4

LEMMA Link3Links == ASSUME FsInv, LinkInv, NEW p \in Procs, link3(p) PROVE LinkInv'
<1>1. pc[p] = "link3" /\ PutAt(p, "end_op") /\ UNCHANGED <<disk, icache, cwd, ofile, call, path, ip, dp, inum>>
  BY DEF link3, InStep
<1> QED BY <1>1, KeepSame, PutAtLinks DEF AtSteps, disk

LEMMA KindKept ==
  ASSUME FsInv, KeepsNums, dinode' = dinode, NEW s \in Slots, icache[s].ref > 0
  PROVE  icache'[s].inum = Num(s) /\ (dinode'[icache'[s].inum].type = "dir" <=> DirAt(s))
BY DEF KeepsNums, DirAt, Num

\* A step that only moves on, with nothing held but what it had.
LEMMA GotoLinks ==
  ASSUME FsInv, LinkInv, NEW p \in Procs, pc[p] \in Idle, NEW l \in Idle, pc' = [pc EXCEPT ![p] = l],
         UNCHANGED <<ret, put>>, Same(call, call', p), Same(path, path', p),
         UNCHANGED <<cwd, ofile, at, ip, dp, inum>>, KeepsNums, dinode' = dinode, data' = data
  PROVE  LinkInv'
<1>0. RegType /\ RegsOk(p)  BY DEF FsInv
<1>1. pc'[p] = l  BY <1>0 DEF RegType
<1>2. Only(p)  BY <1>0 DEF Only, Same, RegType
<1>3. ip[p] = None /\ dp[p] = None /\ K(p) = pc[p]
  BY <1>0 DEF RegsOk, K, AtSteps, DpSteps, Iput, Idle
<1>4. Pending(p) = 0  BY <1>3, NothingPending DEF Idle
<1>5. K(p)' = l  BY <1>1 DEF K, Iput, Idle
<1>6. LiveFrom(p) /\ PtrsFrom(p)  BY <1>1 DEF LiveFrom, PtrsFrom, Live, Ptrs, Idle
<1>7. DirAt(cwd[p])'  BY CwdKept
<1> QED BY <1>1, <1>2, <1>3, <1>4, <1>5, <1>6, <1>7, EasyLinks DEF Idle

LEMMA EndLinks == ASSUME FsInv, LinkInv, NEW p \in Procs, end_op(p) PROVE LinkInv'
<1>0. RegType BY DEF FsInv
<1>1. Same(call, call', p) /\ Same(path, path', p)  BY <1>0 DEF end_op, RegType, Same
<1> QED BY <1>1, GotoLinks, KeepSame DEF end_op, InStep, Goto, disk, ptrs, Idle

LEMMA LookLinks ==
  ASSUME FsInv, LinkInv, NEW p \in Procs, NEW l \in {"write", "read", "stat"}, ilock(p, l, ofile[p]),
         NEW m \in {"user", "end_op"}, icache' = Seen(icache, ofile[p], 0), Goto(p, m),
         UNCHANGED <<disk, cwd, ofile, call, path, ptrs>>
  PROVE  LinkInv'
<1>1. pc[p] = l /\ ofile[p] \in Slots /\ icache[ofile[p]].ref > 0 /\ Loaded(ofile[p]).d.type # "free"
  BY LockedFile
<1>2. KeepsNums  BY <1>1, KeepSeen
<1> QED BY <1>1, <1>2, GotoLinks DEF Goto, disk, ptrs, Idle, Same

LEMMA FileReadLinks == ASSUME FsInv, LinkInv, NEW p \in Procs, fileread(p) PROVE LinkInv'
BY LookLinks DEF fileread, Look
LEMMA FileStatLinks == ASSUME FsInv, LinkInv, NEW p \in Procs, filestat(p) PROVE LinkInv'
BY LookLinks DEF filestat, Look

LEMMA UseFileLinks == ASSUME FsInv, LinkInv, NEW p \in Procs, InStep(p, "user"), UseFile(p) PROVE LinkInv'
<1>a. pc[p] = "user" /\ ofile[p] # None /\ UNCHANGED <<disk, icache, cwd, call, path, ptrs>>  BY DEF InStep, UseFile
<1>1. CASE (\E l \in {"write", "read", "stat"} : Goto(p, l)) /\ UNCHANGED ofile
  BY <1>a, <1>1, KeepSame, GotoLinks DEF Goto, disk, ptrs, Idle, Same
<1>2. CASE Put(p, ofile[p], "end_op") /\ ofile' = [ofile EXCEPT ![p] = None]
  <2> USE <1>2 DEF Put, ptrs, disk
  <2>0. RegType /\ RegsOk(p)  BY DEF FsInv
  <2>1. /\ pc'[p] = "iput" /\ ret'[p] = "end_op" /\ put'[p] = ofile[p] /\ at'[p] = at[p]
        /\ ofile'[p] = None /\ cwd'[p] = cwd[p] /\ ip'[p] = ip[p] /\ dp'[p] = dp[p]
    BY <1>a, <2>0 DEF RegType
  <2>2. Only(p)  BY <1>a, <2>0 DEF Only, Same, RegType
  <2>3. ip[p] = None /\ dp[p] = None /\ at[p] = None /\ K(p) = pc[p]
    BY <1>a, <2>0 DEF RegsOk, K, AtSteps, DpSteps, Iput
  <2>4. Pending(p) = 0  BY <1>a, <2>3, NothingPending
  <2>5. K(p)' = "end_op"  BY <2>1 DEF K, Iput
  <2>6. LiveFrom(p) /\ PtrsFrom(p)  BY <1>a, <2>1, <2>3 DEF LiveFrom, PtrsFrom, Live, Ptrs
  <2>7. DirAt(cwd[p])'  BY <1>a, <2>1, CwdKept, KeepSame
  <2> QED BY <1>a, <2>1, <2>2, <2>3, <2>4, <2>5, <2>6, <2>7, EasyLinks, KeepSame
<1> QED BY <1>1, <1>2 DEF UseFile

LEMMA Chdir1Links == ASSUME FsInv, LinkInv, NEW p \in Procs, chdir1(p) PROVE LinkInv'
<1>1. ilock(p, "chdir1", at[p]) /\ icache' = Seen(icache, at[p], 0) /\ UNCHANGED <<disk, ofile, call, path, ip, dp, inum>>
  BY DEF chdir1
<1>2. pc[p] = "chdir1" /\ at[p] \in Slots /\ icache[at[p]].ref > 0 /\ Loaded(at[p]).d.type # "free"
      /\ Loaded(at[p]).d = dinode[Num(at[p])]
  BY <1>1, LockedAt DEF AtSteps, Num
<1>3. KeepsNums /\ dinode' = dinode /\ data' = data  BY <1>1, <1>2, KeepSeen DEF disk
<1>4. CASE PutAt(p, "end_op") /\ UNCHANGED cwd  BY <1>1, <1>2, <1>3, <1>4, PutAtLinks DEF AtSteps
<1>5. CASE Loaded(at[p]).d.type = "dir" /\ cwd' = [cwd EXCEPT ![p] = at[p]] /\ at' = [at EXCEPT ![p] = None] /\ Put(p, cwd[p], "end_op")
  <2> USE <1>5 DEF Put
  <2>0. RegType /\ RegsOk(p)  BY DEF FsInv
  <2>1. /\ pc'[p] = "iput" /\ ret'[p] = "end_op" /\ put'[p] = cwd[p] /\ at'[p] = None
        /\ ofile'[p] = ofile[p] /\ cwd'[p] = at[p] /\ ip'[p] = ip[p] /\ dp'[p] = dp[p]
    BY <1>1, <2>0 DEF RegType
  <2>2. Only(p)  BY <1>1, <2>0 DEF Only, Same, RegType
  <2>3. ip[p] = None /\ dp[p] = None /\ K(p) = pc[p]
    BY <1>2, <2>0 DEF RegsOk, K, AtSteps, DpSteps, Iput
  <2>4. Pending(p) = 0  BY <1>2, <2>3, NothingPending
  <2>5. K(p)' = "end_op"  BY <2>1 DEF K, Iput
  <2>6. LiveFrom(p) /\ PtrsFrom(p)  BY <1>2, <2>1, <2>3 DEF LiveFrom, PtrsFrom, Live, Ptrs
  <2>7. DirAt(at[p])  BY <1>2 DEF DirAt
  <2>8. dinode'[icache'[at[p]].inum].type = "dir"  BY <1>2, <1>3, <2>7, KindKept
  <2>9. DirAt(cwd[p])'  BY <2>1, <2>8 DEF DirAt, Num
  <2> QED BY <1>2, <1>3, <2>1, <2>2, <2>3, <2>4, <2>5, <2>6, <2>9, EasyLinks
<1> QED BY <1>4, <1>5 DEF chdir1

LEMMA SoleHolder ==
  ASSUME FsInv, NEW p \in Procs, NEW s \in Slots, put[p] = s, icache[s].ref = 1
  PROVE  \A q \in Procs : s \notin Ptrs(q) /\ (q # p => put[q] # s)
<1>1. /\ Cardinality(PointersTo(s)) = 1 /\ Cardinality(Others(p, s)) \in Nat
      /\ Cardinality(PointersTo(s)) = Cardinality(Others(p, s)) + Own(p, s)
  BY Counts DEF PointersCounted, FsInv, RefExact
<1>2. \A x : One(x, s) \in Nat  BY DEF One
<1>3. One(put[p], s) = 1  BY DEF One
<1>4. /\ One(cwd[p], s) = 0 /\ One(ofile[p], s) = 0 /\ One(at[p], s) = 0 /\ One(ip[p], s) = 0 /\ One(dp[p], s) = 0
      /\ Cardinality(Others(p, s)) = 0
  BY <1>1, <1>2, <1>3 DEF Own
<1>5. s \notin Ptrs(p)  BY <1>4 DEF One, Ptrs
<1>6. IsFiniteSet(Others(p, s))
  <2>1. Others(p, s) \subseteq PointersTo(s)  BY DEF Others
  <2> QED BY <2>1, PointersFinite, FS_Subset
<1>7. Others(p, s) = {}  BY <1>4, <1>6, FS_EmptySet
<1>8. ASSUME NEW q \in Procs, q # p PROVE s \notin Ptrs(q) /\ put[q] # s
  <2>1. \A f \in {"cwd", "ofile", "put", "at", "ip", "dp"} : Pointer(q)[f] # s
    <3> TAKE f \in {"cwd", "ofile", "put", "at", "ip", "dp"}
    <3>1. <<q, f>> \notin Others(p, s)  BY <1>7
    <3> QED BY <1>8, <3>1 DEF Others, PointersTo
  <2>2. /\ Pointer(q)["cwd"] = cwd[q] /\ Pointer(q)["ofile"] = ofile[q] /\ Pointer(q)["put"] = put[q]
        /\ Pointer(q)["at"] = at[q] /\ Pointer(q)["ip"] = ip[q] /\ Pointer(q)["dp"] = dp[q]
    BY DEF Pointer
  <2> QED BY <2>1, <2>2 DEF Ptrs
<1> QED BY <1>5, <1>8

LEMMA KindsKept ==
  ASSUME FsInv, LinkInv, NEW p \in Procs, KeepsNums, dinode' = dinode,
         cwd'[p] = cwd[p], at'[p] = at[p], ip'[p] = ip[p], dp'[p] = dp[p], K(p)' = K(p),
         pc'[p] \notin {"unlink2", "ialloc", "create3"}
  PROVE  Kinds(p)'
<1>0. RegType /\ RegsOk(p) /\ Kinds(p)  BY DEF FsInv, LinkInv, RegLive
<1>1. \A s \in Ptrs(p) : s # None => (dinode'[icache'[s].inum].type = "dir" <=> DirAt(s))
  BY PointerSlot, KindKept
<1>2. DirAt(cwd[p])'  BY CwdKept
<1>3. K(p) \in {"link2", "unlink1", "create1"} => DirAt(at[p])'
  <2>1. K(p) \in {"link2", "unlink1", "create1"} => at[p] # None  BY <1>0 DEF RegsOk, AtSteps
  <2> QED BY <1>0, <1>1, <2>1 DEF Kinds, DirAt, Num, Ptrs
<1>4. (dp[p] # None => DirAt(dp[p])') /\ (ip[p] # None => ~DirAt(ip[p])')  BY <1>0, <1>1 DEF Kinds, DirAt, Num, Ptrs
<1> QED BY <1>2, <1>3, <1>4 DEF Kinds

LEMMA IputLinks == ASSUME FsInv, LinkInv, NEW p \in Procs, iput(p) PROVE LinkInv'
<1>0. RegType /\ RegsOk(p)  BY DEF FsInv
<1>a. pc[p] = "iput" /\ UNCHANGED <<disk, cwd, ofile, call, path, ptrs>>  BY DEF iput, InStep
<1>b. put[p] \in Slots /\ icache[put[p]].ref > 0 /\ Num(put[p]) \in Inums  BY <1>a, InIput DEF Iput, Num
<1>1. PICK l \in {"free", "drop"} : Goto(p, l) /\ (l = "drop" => icache' = icache)
                /\ (l = "free" => LastUse(put[p]) /\ icache' = [icache EXCEPT ![put[p]].lock = p])
  BY DEF iput
<1> USE DEF Goto
<1>2. /\ pc'[p] = l /\ ret'[p] = ret[p] /\ put'[p] = put[p] /\ at'[p] = at[p] /\ call'[p] = call[p]
      /\ ofile'[p] = ofile[p] /\ cwd'[p] = cwd[p] /\ ip'[p] = ip[p] /\ dp'[p] = dp[p]
  BY <1>0, <1>a, <1>1 DEF RegType, ptrs
<1>3. Only(p)  BY <1>0, <1>a, <1>1 DEF Only, Same, RegType, ptrs
<1>4. KeepsNums /\ dinode' = dinode /\ data' = data  BY <1>a, <1>b, <1>1, KeepSame, KeepLock DEF disk
<1>5. K(p)' = K(p)  BY <1>a, <1>2 DEF K, Iput
<1>6. PendSlot(p)' = PendSlot(p) /\ PendSlot(p) \in {ip[p], at[p], None}  BY <1>2, <1>5 DEF PendSlot
<1>7. Pending(p)' = Pending(p)
  <2>1. PendSlot(p) # None => icache'[PendSlot(p)].inum = Num(PendSlot(p))
    BY <1>4, <1>6, PointerSlot DEF Ptrs, KeepsNums, Num
  <2> QED BY <1>6, <2>1 DEF Pending, Num
<1>8. MakingBy(p)' = MakingBy(p) /\ MakingBy(p) = 0  BY <1>a, <1>2 DEF MakingBy
<1>9. LiveFrom(p) /\ PtrsFrom(p)  BY <1>a, <1>2 DEF LiveFrom, PtrsFrom, Live, Ptrs
<1>10. Kinds(p)'  BY <1>2, <1>4, <1>5, KindsKept
<1>11. Sole(p)'
  <2>1. CASE l = "drop"  BY <1>2, <2>1 DEF Sole
  <2>2. CASE l = "free"
    <3>1. icache[put[p]].ref = 1 /\ icache[put[p]].valid /\ icache[put[p]].d.nlink = 0  BY <1>1, <2>2 DEF LastUse
    <3>2. icache[put[p]].valid = TRUE  BY <1>b, <3>1, RefNat, SlotFields
    <3>3. dinode[Num(put[p])].nlink = 0  BY <1>b, <3>1, <3>2 DEF FsInv, Good, Num
    <3>4. dinode'[Num(put[p])'].nlink = 0  BY <1>2, <1>4, <1>b, <3>3 DEF KeepsNums, Num
    <3>5. \A q \in Procs : put[p] \notin Ptrs(q) /\ (q # p => put[q] # put[p])  BY <1>b, <3>1, SoleHolder
    <3>6. \A q \in Procs : Ptrs(q)' = Ptrs(q) /\ put'[q] = put[q]
      BY <1>a, <1>1 DEF Ptrs, ptrs
    <3> QED BY <3>4, <3>5, <3>6 DEF Sole
  <2> QED BY <2>1, <2>2
<1> QED BY <1>3, <1>4, <1>7, <1>8, <1>9, <1>10, <1>11, QuietLinks

LEMMA IputDropLinks == ASSUME FsInv, LinkInv, NEW p \in Procs, IputDrop(p) PROVE LinkInv'
<1>0. RegType /\ RegsOk(p)  BY DEF FsInv
<1>a. pc[p] = "drop" /\ UNCHANGED <<disk, cwd, ofile, call, path, ptrs>>  BY DEF IputDrop, InStep
<1>b. put[p] \in Slots /\ K(p) = ret[p] /\ ret[p] \in Back  BY <1>a, InIput DEF Iput
<1>2. /\ pc'[p] = ret[p] /\ put'[p] = None /\ at'[p] = at[p] /\ call'[p] = call[p]
      /\ ofile'[p] = ofile[p] /\ cwd'[p] = cwd[p] /\ ip'[p] = ip[p] /\ dp'[p] = dp[p]
  BY <1>0, <1>a DEF RegType, ptrs, IputDrop
<1>3. Only(p)  BY <1>0, <1>a DEF Only, Same, RegType, ptrs, IputDrop
<1>4. KeepsNums /\ dinode' = dinode /\ data' = data
  <2>1. icache \in CacheType  BY RefNat
  <2> QED BY <1>a, <2>1 DEF IputDrop, KeepsNums, CacheType, disk
<1>5. K(p)' = K(p) /\ pc'[p] \notin Iput \union {"unlink2", "ialloc", "create3", "free", "drop"}  BY <1>b, <1>2 DEF K, Iput, Back
<1>6. PendSlot(p)' = PendSlot(p) /\ PendSlot(p) \in {ip[p], at[p], None}  BY <1>2, <1>5 DEF PendSlot
<1>7. Pending(p)' = Pending(p)
  <2>1. PendSlot(p) # None => icache'[PendSlot(p)].inum = Num(PendSlot(p))
    BY <1>4, <1>6, PointerSlot DEF Ptrs, KeepsNums, Num
  <2> QED BY <1>6, <2>1 DEF Pending, Num
<1>8. MakingBy(p)' = MakingBy(p) /\ MakingBy(p) = 0  BY <1>a, <1>5 DEF MakingBy
<1>9. LiveFrom(p) /\ PtrsFrom(p)  BY <1>a, <1>2, <1>5 DEF LiveFrom, PtrsFrom, Live, Ptrs
<1>10. Kinds(p)'  BY <1>2, <1>4, <1>5, KindsKept
<1>11. Sole(p)'  BY <1>5 DEF Sole
<1> QED BY <1>3, <1>4, <1>7, <1>8, <1>9, <1>10, <1>11, QuietLinks

LEMMA StartLinks ==
  ASSUME FsInv, BlocksInv, LinkInv, NEW p \in Procs, NEW abs \in BOOLEAN, CanStart(abs), icache' = Start(p, abs),
         NEW s, s = StartSlot(p, abs), pc[p] \notin {"free", "drop"}
  PROVE  KeepsNums /\ s \in Slots /\ (s \in Live(p) \/ Found(icache'[s].inum))
         /\ (s \in Ptrs(p) \/ Safe(icache'[s].inum))
<1>1. CASE abs
  <2>1. HasSlot(icache, 1) /\ icache' = iget(icache, 1) /\ s = SlotOf(icache, 1)  BY <1>1 DEF CanStart, Start, StartSlot
  <2>2. KeepsNums /\ s \in Slots /\ icache'[s].inum = 1  BY <2>1, KeepGet, Consts
  <2> QED BY <2>2, RootFound DEF Found, Safe
<1>2. CASE ~abs
  <2>1. icache' = idup(icache, cwd[p]) /\ s = cwd[p] /\ cwd[p] \in Slots  BY <1>2 DEF Start, StartSlot, FsInv, RegType
  <2> QED BY <2>1, KeepDup DEF Live, Ptrs
<1> QED BY <1>1, <1>2

LEMMA SyscallLinks ==
  ASSUME FsInv, BlocksInv, LinkInv, NEW p \in Procs, InStep(p, "user"), NEW c \in Calls, Syscall(p, c)
  PROVE  LinkInv'
<1>0. RegType /\ RegsOk(p) /\ c.abs \in BOOLEAN  BY CallFields DEF FsInv
<1>a. pc[p] = "user" /\ UNCHANGED <<disk, cwd, ofile, ip, dp, inum>> /\ Goto(p, "namex")  BY DEF Syscall, InStep
<1>1. PICK s : s = StartSlot(p, c.abs)  OBVIOUS
<1>2. KeepsNums /\ s \in Slots /\ (s \in Live(p) \/ Found(icache'[s].inum)) /\ (s \in Ptrs(p) \/ Safe(icache'[s].inum))
  BY <1>0, <1>a, <1>1, StartLinks DEF Syscall
<1> USE DEF Goto
<1>3. /\ pc'[p] = "namex" /\ ret'[p] = ret[p] /\ put'[p] = put[p] /\ at'[p] = s
      /\ ofile'[p] = ofile[p] /\ cwd'[p] = cwd[p] /\ ip'[p] = ip[p] /\ dp'[p] = dp[p]
  BY <1>0, <1>1, <1>a DEF RegType, Syscall
<1>4. Only(p)  BY <1>0, <1>a DEF Only, Same, RegType, Syscall
<1>5. ip[p] = None /\ dp[p] = None /\ at[p] = None /\ K(p) = pc[p]
  BY <1>a, <1>0 DEF RegsOk, K, AtSteps, DpSteps, Iput
<1>6. Pending(p) = 0  BY <1>a, <1>5, NothingPending
<1>7. K(p)' = "namex"  BY <1>3 DEF K, Iput
<1>8. LiveFrom(p) /\ PtrsFrom(p)  BY <1>a, <1>2, <1>3, <1>5 DEF LiveFrom, PtrsFrom, Live, Ptrs
<1>9. DirAt(cwd[p])'  BY <1>a, <1>2, <1>3, CwdKept DEF disk
<1> QED BY <1>a, <1>2, <1>3, <1>4, <1>5, <1>6, <1>7, <1>8, <1>9, EasyLinks DEF disk

LEMMA Begin2Links == ASSUME FsInv, BlocksInv, LinkInv, NEW p \in Procs, begin2(p) PROVE LinkInv'
<1>0. RegType /\ RegsOk(p) /\ Kinds(p)  BY DEF FsInv, LinkInv, RegLive
<1>a. pc[p] = "begin2" /\ UNCHANGED <<disk, cwd, ofile, call, path, ip, dp, inum>> /\ Goto(p, "namex")  BY DEF begin2, InStep
<1>b. call[p].abs \in BOOLEAN  BY <1>0, <1>a, CallFields DEF RegsOk, K, Iput, Idle
<1>1. PICK s : s = StartSlot(p, call[p].abs)  OBVIOUS
<1>2. KeepsNums /\ s \in Slots /\ (s \in Live(p) \/ Found(icache'[s].inum)) /\ (s \in Ptrs(p) \/ Safe(icache'[s].inum))
  BY <1>0, <1>a, <1>b, <1>1, StartLinks DEF begin2
<1> USE DEF Goto
<1>3. /\ pc'[p] = "namex" /\ ret'[p] = ret[p] /\ put'[p] = put[p] /\ at'[p] = s /\ call'[p] = call[p]
      /\ ofile'[p] = ofile[p] /\ cwd'[p] = cwd[p] /\ ip'[p] = ip[p] /\ dp'[p] = dp[p]
  BY <1>0, <1>1, <1>a DEF RegType, begin2
<1>4. Only(p)  BY <1>0, <1>a DEF Only, Same, RegType, begin2
<1>5. ip[p] # None /\ dp[p] = None /\ K(p) = pc[p]
  BY <1>a, <1>0 DEF RegsOk, K, AtSteps, DpSteps, Iput
<1>6. ip[p] \in Slots /\ icache[ip[p]].ref > 0 /\ icache'[ip[p]].inum = Num(ip[p])
  BY <1>2, <1>5, PointerSlot DEF Ptrs, KeepsNums, Num
<1>7. Pending(p)' = Pending(p)  BY <1>3, <1>5, <1>6 DEF Pending, PendSlot, Num
<1>8. LiveFrom(p) /\ PtrsFrom(p)  BY <1>a, <1>2, <1>3, <1>5 DEF LiveFrom, PtrsFrom, Live, Ptrs
<1>9. DirAt(cwd[p])'  BY <1>a, <1>2, <1>3, CwdKept DEF disk
<1>10. K(p)' = "namex"  BY <1>3 DEF K, Iput
<1>11. ~DirAt(ip[p])'  BY <1>0, <1>a, <1>3, <1>5, <1>6 DEF Kinds, DirAt, Num, disk
<1>12. Kinds(p)'  BY <1>3, <1>5, <1>9, <1>10, <1>11 DEF Kinds
<1>13. MakingBy(p)' = MakingBy(p) /\ Sole(p)'  BY <1>a, <1>3 DEF MakingBy, Sole
<1> QED BY <1>a, <1>2, <1>3, <1>4, <1>7, <1>8, <1>12, <1>13, QuietLinks DEF disk

LEMMA NamexParentLinks ==
  ASSUME FsInv, LinkInv, NEW p \in Procs, pc[p] = "namex", AtParent(p), DirAt(at[p]), Goto(p, Result(p)), KeepsNums,
         UNCHANGED <<path, at, ip, disk, cwd, ofile, call, dp, inum>>
  PROVE  LinkInv'
<1>0. RegType /\ RegsOk(p) /\ Kinds(p)  BY DEF FsInv, LinkInv, RegLive
<1>1. Result(p) \in {"link2", "unlink1", "create1"} /\ (Result(p) = "link2" <=> ip[p] # None)
  BY ResultIs DEF AtParent, nameiparent
<1> USE DEF Goto
<1>2. /\ pc'[p] = Result(p) /\ ret'[p] = ret[p] /\ put'[p] = put[p] /\ at'[p] = at[p]
      /\ ofile'[p] = ofile[p] /\ cwd'[p] = cwd[p] /\ ip'[p] = ip[p] /\ dp'[p] = dp[p]
  BY <1>0 DEF RegType
<1>3. Only(p)  BY <1>0 DEF Only, Same, RegType
<1>4. K(p) = "namex" /\ dp[p] = None /\ at[p] # None  BY <1>0 DEF RegsOk, K, Iput, DpSteps, AtSteps
<1>5. K(p)' = Result(p)  BY <1>1, <1>2 DEF K, Iput
<1>6. PendSlot(p)' = PendSlot(p) /\ PendSlot(p) \in {ip[p], None}  BY <1>1, <1>2, <1>4, <1>5 DEF PendSlot
<1>7. Pending(p)' = Pending(p)
  <2>1. PendSlot(p) # None => icache'[PendSlot(p)].inum = Num(PendSlot(p))
    BY <1>6, PointerSlot DEF Ptrs, KeepsNums, Num
  <2> QED BY <1>6, <2>1 DEF Pending, Num
<1>8. MakingBy(p)' = MakingBy(p) /\ MakingBy(p) = 0 /\ Sole(p)'  BY <1>1, <1>2 DEF MakingBy, Sole
<1>9. LiveFrom(p) /\ PtrsFrom(p)  BY <1>1, <1>2 DEF LiveFrom, PtrsFrom, Live, Ptrs
<1>10. Kinds(p)'
  <2>1. \A s \in Ptrs(p) : s # None => (dinode'[icache'[s].inum].type = "dir" <=> DirAt(s))
    BY PointerSlot, KindKept DEF disk
  <2>2. DirAt(cwd[p])' /\ DirAt(at[p])' /\ (ip[p] # None => ~DirAt(ip[p])')
    BY <1>0, <1>2, <1>4, <2>1, CwdKept DEF disk, Kinds, DirAt, Num, Ptrs
  <2> QED BY <1>1, <1>2, <1>4, <2>2 DEF Kinds
<1> QED BY <1>3, <1>7, <1>8, <1>9, <1>10, QuietLinks DEF disk

LEMMA NotFoundLinks ==
  ASSUME FsInv, LinkInv, NEW p \in Procs, pc[p] = "namex", NotFound(p), KeepsNums,
         UNCHANGED <<path, disk, cwd, ofile, call, dp, inum>>
  PROVE  LinkInv'
<1>0. RegType /\ RegsOk(p) /\ Kinds(p)  BY DEF FsInv, LinkInv, RegLive
<1> USE DEF NotFound, Put
<1>2. /\ pc'[p] = "iput" /\ ret'[p] = (IF ip[p] # None THEN "linkbad" ELSE "end_op") /\ put'[p] = at[p] /\ at'[p] = ip[p]
      /\ ofile'[p] = ofile[p] /\ cwd'[p] = cwd[p] /\ ip'[p] = None /\ dp'[p] = dp[p]
  BY <1>0 DEF RegType
<1>3. Only(p)  BY <1>0 DEF Only, Same, RegType
<1>4. K(p) = "namex" /\ dp[p] = None  BY <1>0 DEF RegsOk, K, Iput, DpSteps
<1>5. K(p)' = (IF ip[p] # None THEN "linkbad" ELSE "end_op")  BY <1>2 DEF K, Iput
<1>6. PendSlot(p)' = ip[p] /\ PendSlot(p) = ip[p]  BY <1>2, <1>4, <1>5 DEF PendSlot
<1>7. Pending(p)' = Pending(p)
  <2>1. ip[p] # None => icache'[ip[p]].inum = Num(ip[p])
    BY PointerSlot DEF Ptrs, KeepsNums, Num
  <2> QED BY <1>6, <2>1 DEF Pending, Num
<1>8. MakingBy(p)' = MakingBy(p) /\ MakingBy(p) = 0 /\ Sole(p)'  BY <1>2 DEF MakingBy, Sole
<1>9. LiveFrom(p) /\ PtrsFrom(p)  BY <1>2 DEF LiveFrom, PtrsFrom, Live, Ptrs
<1>10. Kinds(p)'  BY <1>2, <1>4, <1>5, CwdKept DEF disk, Kinds
<1> QED BY <1>3, <1>7, <1>8, <1>9, <1>10, QuietLinks DEF disk

LEMMA NamexDownLinks ==
  ASSUME FsInv, LinkInv, NEW p \in Procs, pc[p] = "namex", ~AtParent(p), KeepsNums,
         NEW s \in Slots, Found(icache'[s].inum), path' = [path EXCEPT ![p] = Tail(@)], at' = [at EXCEPT ![p] = s],
         Put(p, at[p], IF Len(path[p]) = 1 THEN Result(p) ELSE "namex"),
         UNCHANGED <<ip, disk, cwd, ofile, call, dp, inum>>
  PROVE  LinkInv'
<1>0. RegType /\ RegsOk(p) /\ Kinds(p)  BY DEF FsInv, LinkInv, RegLive
<1>1. PICK l \in {"namex", "open1", "chdir1", "link1"} :
        l = (IF Len(path[p]) = 1 THEN Result(p) ELSE "namex") /\ (ip[p] # None => l = "namex")
  BY ResultIs DEF AtParent, nameiparent
<1> USE DEF Put
<1>2. /\ pc'[p] = "iput" /\ ret'[p] = l /\ put'[p] = at[p] /\ at'[p] = s
      /\ ofile'[p] = ofile[p] /\ cwd'[p] = cwd[p] /\ ip'[p] = ip[p] /\ dp'[p] = dp[p]
  BY <1>0, <1>1 DEF RegType
<1>3. Only(p)  BY <1>0 DEF Only, Same, RegType
<1>4. K(p) = "namex" /\ dp[p] = None  BY <1>0 DEF RegsOk, K, Iput, DpSteps
<1>5. K(p)' = l  BY <1>2 DEF K, Iput
<1>6. PendSlot(p)' = ip[p] /\ PendSlot(p) = ip[p]  BY <1>1, <1>2, <1>4, <1>5 DEF PendSlot
<1>7. ip[p] # None => icache'[ip[p]].inum = Num(ip[p])  BY PointerSlot DEF Ptrs, KeepsNums, Num
<1>8. Pending(p)' = Pending(p)  BY <1>6, <1>7 DEF Pending, Num
<1>9. MakingBy(p)' = MakingBy(p) /\ MakingBy(p) = 0 /\ Sole(p)'  BY <1>2 DEF MakingBy, Sole
<1>10. LiveFrom(p) /\ PtrsFrom(p)  BY <1>2 DEF LiveFrom, PtrsFrom, Live, Ptrs, Found, Safe
<1>11. ip[p] # None => ~DirAt(ip[p])'  BY <1>0, <1>2, <1>7 DEF disk, Kinds, DirAt, Num
<1>12. Kinds(p)'  BY <1>1, <1>2, <1>4, <1>5, <1>11, CwdKept DEF disk, Kinds
<1> QED BY <1>3, <1>8, <1>9, <1>10, <1>12, QuietLinks DEF disk

LEMMA NamexLinks == ASSUME FsInv, BlocksInv, LinkInv, UpLive, NEW p \in Procs, namex(p) PROVE LinkInv'
<1>1. path[p] # <<>> /\ ilock(p, "namex", at[p]) /\ UNCHANGED <<disk, cwd, ofile, call, dp, inum>>  BY DEF namex
<1>2. pc[p] = "namex" /\ at[p] \in Slots /\ icache[at[p]].ref > 0 /\ Loaded(at[p]).d.type # "free"
      /\ Loaded(at[p]).d = dinode[Num(at[p])]
  BY <1>1, LockedAt DEF AtSteps, Num
<1>3. icache' = Seen(icache, at[p], 0) => KeepsNums  BY <1>2, KeepSeen
<1>4. CASE Loaded(at[p]).d.type = "dir" /\ AtParent(p) /\ icache' = Seen(icache, at[p], 0) /\ Goto(p, Result(p)) /\ UNCHANGED <<path, at, ip>>
  BY <1>1, <1>2, <1>3, <1>4, NamexParentLinks DEF DirAt
<1>5. CASE icache' = Seen(icache, at[p], 0) /\ NotFound(p) /\ UNCHANGED path
  BY <1>1, <1>2, <1>3, <1>5, NotFoundLinks
<1>6. ASSUME NEW i, i = (IF Loaded(at[p]).d.type = "dir" THEN dirlookup(Loaded(at[p]).d, skipelem(p)) ELSE 0),
             ~AtParent(p), i # 0, HasSlot(Seen(icache, at[p], 0), i), icache' = iget(Seen(icache, at[p], 0), i),
             path' = [path EXCEPT ![p] = Tail(@)], at' = [at EXCEPT ![p] = SlotOf(Seen(icache, at[p], 0), i)],
             Put(p, at[p], IF Len(path[p]) = 1 THEN Result(p) ELSE "namex"), UNCHANGED ip
      PROVE  LinkInv'
  <2>1. DirAt(at[p]) /\ i = dirlookup(dinode[Num(at[p])], skipelem(p))  BY <1>2, <1>6 DEF DirAt
  <2>2. i \in Inums /\ Found(i)  BY <1>1, <1>2, <1>6, <2>1, LookupFound DEF LooksUp
  <2>3. PICK t : t = SlotOf(icache, i)  OBVIOUS
  <2>4. HasSlot(icache, i) /\ at' = [at EXCEPT ![p] = t]  BY <1>2, <1>6, <2>3, SeenSlot
  <2>5. KeepsNums /\ t \in Slots /\ icache'[t].inum = i  BY <1>2, <1>6, <2>2, <2>3, <2>4, KeepSeenGet
  <2>6. Found(icache'[t].inum)  BY <2>2, <2>5
  <2> QED BY <1>1, <1>2, <1>6, <2>4, <2>5, <2>6, NamexDownLinks
<1> QED BY <1>4, <1>5, <1>6 DEF namex

LEMMA NamexHereLinks ==
  ASSUME FsInv, LinkInv, NEW p \in Procs, pc[p] = "namex", ~nameiparent(p), Goto(p, Result(p)), KeepsNums,
         UNCHANGED <<path, at, ip, disk, cwd, ofile, call, dp, inum>>
  PROVE  LinkInv'
<1>0. RegType /\ RegsOk(p) /\ Kinds(p)  BY DEF FsInv, LinkInv, RegLive
<1>1. PICK l \in {"open1", "chdir1", "link1"} : l = Result(p)  BY ResultIs DEF nameiparent
<1>2. ip[p] = None  BY ResultIs DEF nameiparent
<1> USE DEF Goto
<1>3. /\ pc'[p] = l /\ ret'[p] = ret[p] /\ put'[p] = put[p] /\ at'[p] = at[p]
      /\ ofile'[p] = ofile[p] /\ cwd'[p] = cwd[p] /\ ip'[p] = ip[p] /\ dp'[p] = dp[p]
  BY <1>0, <1>1 DEF RegType
<1>4. Only(p)  BY <1>0 DEF Only, Same, RegType
<1>5. K(p) = "namex" /\ dp[p] = None  BY <1>0 DEF RegsOk, K, Iput, DpSteps
<1>6. K(p)' = l  BY <1>1, <1>3 DEF K, Iput
<1>7. PendSlot(p)' = None /\ PendSlot(p) = None  BY <1>2, <1>3, <1>5, <1>6 DEF PendSlot
<1>8. Pending(p)' = Pending(p)  BY <1>7 DEF Pending
<1>9. MakingBy(p)' = MakingBy(p) /\ MakingBy(p) = 0 /\ Sole(p)'  BY <1>1, <1>3 DEF MakingBy, Sole
<1>10. LiveFrom(p) /\ PtrsFrom(p)  BY <1>1, <1>3 DEF LiveFrom, PtrsFrom, Live, Ptrs
<1>11. Kinds(p)'  BY <1>1, <1>2, <1>3, <1>5, <1>6, CwdKept DEF disk, Kinds
<1> QED BY <1>4, <1>8, <1>9, <1>10, <1>11, QuietLinks DEF disk

LEMMA NamexNoneLinks == ASSUME FsInv, LinkInv, NEW p \in Procs, NamexNone(p) PROVE LinkInv'
<1>1. pc[p] = "namex" /\ UNCHANGED <<disk, cwd, ofile, call, path, dp, inum>>  BY DEF NamexNone, InStep
<1>2. KeepsNums  BY KeepSame DEF NamexNone
<1>3. CASE nameiparent(p)
  <2>1. NotFound(p)  BY <1>3 DEF NamexNone
  <2> QED BY <1>1, <1>2, <2>1, NotFoundLinks
<1>4. CASE ~nameiparent(p)
  <2>1. Goto(p, Result(p)) /\ UNCHANGED <<at, ip>>  BY <1>4 DEF NamexNone
  <2> QED BY <1>1, <1>2, <1>4, <2>1, NamexHereLinks
<1> QED BY <1>3, <1>4

LEMMA UnlockDpLinks == ASSUME FsInv, LinkInv, NEW p \in Procs, UnlockDp(p) PROVE LinkInv'
<1>0. RegType /\ RegsOk(p) /\ Kinds(p)  BY DEF FsInv, LinkInv, RegLive
<1>a. pc[p] = "unlockdp" /\ icache' = [icache EXCEPT ![dp[p]].lock = 0] /\ dp[p] \in Slots
      /\ UNCHANGED <<disk, cwd, ofile, call, path, at, ip, inum>>
  BY HeldDp DEF UnlockDp, InStep, DpSteps
<1>b. KeepsNums  BY <1>a, KeepLock
<1> USE DEF UnlockDp, Put
<1>2. /\ pc'[p] = "iput" /\ ret'[p] = (IF at[p] # None THEN "linkbad" ELSE "end_op") /\ put'[p] = dp[p] /\ at'[p] = at[p]
      /\ ofile'[p] = ofile[p] /\ cwd'[p] = cwd[p] /\ ip'[p] = ip[p] /\ dp'[p] = None
  BY <1>0 DEF RegType
<1>3. Only(p)  BY <1>0 DEF Only, Same, RegType
<1>4. K(p) = "unlockdp" /\ ip[p] = None  BY <1>0, <1>a DEF RegsOk, K, Iput
<1>5. K(p)' = (IF at[p] # None THEN "linkbad" ELSE "end_op")  BY <1>2 DEF K, Iput
<1>6. PendSlot(p)' = at[p] /\ PendSlot(p) = at[p]  BY <1>2, <1>4, <1>5 DEF PendSlot
<1>7. at[p] # None => icache'[at[p]].inum = Num(at[p])  BY <1>b, PointerSlot DEF Ptrs, KeepsNums, Num
<1>8. Pending(p)' = Pending(p)  BY <1>6, <1>7 DEF Pending, Num
<1>9. MakingBy(p)' = MakingBy(p) /\ MakingBy(p) = 0 /\ Sole(p)'  BY <1>a, <1>2 DEF MakingBy, Sole
<1>10. LiveFrom(p) /\ PtrsFrom(p)  BY <1>a, <1>2 DEF LiveFrom, PtrsFrom, Live, Ptrs
<1>11. Kinds(p)'  BY <1>a, <1>b, <1>2, <1>4, <1>5, CwdKept DEF disk, Kinds
<1> QED BY <1>a, <1>b, <1>3, <1>8, <1>9, <1>10, <1>11, QuietLinks DEF disk

LEMMA Unlink1Links == ASSUME FsInv, BlocksInv, LinkInv, UpLive, NEW p \in Procs, unlink1(p) PROVE LinkInv'
<1>0. RegType /\ RegsOk(p) /\ Kinds(p)  BY DEF FsInv, LinkInv, RegLive
<1>1. ilock(p, "unlink1", at[p]) /\ UNCHANGED <<disk, cwd, ofile, call, path, ip, inum>>  BY DEF unlink1
<1>2. pc[p] = "unlink1" /\ K(p) = "unlink1" /\ at[p] \in Slots /\ icache[at[p]].ref > 0 /\ Loaded(at[p]).d.type # "free"
      /\ Loaded(at[p]).d = dinode[Num(at[p])] /\ Num(at[p]) \in Inums
  BY <1>1, LockedAt DEF AtSteps, Num
<1>4. CASE icache' = Seen(icache, at[p], 0) /\ PutAt(p, "end_op") /\ UNCHANGED dp
  <2>1. KeepsNums  BY <1>2, <1>4, KeepSeen
  <2> QED BY <1>1, <1>2, <1>4, <2>1, PutAtLinks DEF AtSteps, disk
<1>5. ASSUME NEW i, i = dirlookup(Loaded(at[p]).d, skipelem(p)), skipelem(p) \notin {".", ".."}, i # 0,
             HasSlot(icache, i), icache' = iget(Seen(icache, at[p], p), i), dp' = [dp EXCEPT ![p] = at[p]],
             at' = [at EXCEPT ![p] = SlotOf(icache, i)], Goto(p, "unlink2")
      PROVE  LinkInv'
  <2>1. DirAt(at[p]) /\ i = dirlookup(dinode[Num(at[p])], skipelem(p))  BY <1>0, <1>2, <1>5 DEF Kinds
  <2>2. skipelem(p) \in Names  BY <1>2, <1>5, SkipElem DEF Elems
  <2>3. i \in Inums /\ Found(i)  BY <1>2, <1>5, <2>1, <2>2, LookupFound
  <2>4. PICK t : t = SlotOf(icache, i)  OBVIOUS
  <2>5. KeepsNums /\ t \in Slots /\ icache'[t].inum = i  BY <1>2, <1>5, <2>3, <2>4, KeepSeenGet
  <2> USE <1>5 DEF Goto
  <2>6. /\ pc'[p] = "unlink2" /\ ret'[p] = ret[p] /\ put'[p] = put[p] /\ at'[p] = t /\ path'[p] = path[p]
        /\ ofile'[p] = ofile[p] /\ cwd'[p] = cwd[p] /\ ip'[p] = ip[p] /\ dp'[p] = at[p]
    BY <1>0, <1>1, <2>4 DEF RegType
  <2>7. Only(p)  BY <1>0, <1>1 DEF Only, Same, RegType
  <2>8. ip[p] = None /\ dp[p] = None /\ at[p] # None  BY <1>0, <1>2 DEF RegsOk, DpSteps, AtSteps
  <2>9. K(p)' = "unlink2"  BY <2>6 DEF K, Iput
  <2>10. Pending(p)' = Pending(p)  BY <1>2, <2>6, <2>8, <2>9 DEF Pending, PendSlot
  <2>11. MakingBy(p)' = MakingBy(p) /\ MakingBy(p) = 0 /\ Sole(p)'  BY <1>2, <2>6 DEF MakingBy, Sole
  <2>12. LiveFrom(p) /\ PtrsFrom(p)
    BY <1>2, <2>3, <2>5, <2>6 DEF LiveFrom, PtrsFrom, Live, Ptrs, Found, Safe
  <2>13. icache'[at[p]].inum = Num(at[p]) /\ dinode'[icache'[at[p]].inum].type = "dir"
    BY <1>1, <1>2, <2>1, <2>5, KindKept DEF disk
  <2>14. Tree'[Num(at[p])][skipelem(p)] = i
    <3>1. Alive(Num(at[p]))
      BY <1>2, <2>8 DEF LinkInv, RegLive, LiveOk, Live
    <3>2. Num(at[p]) \in DirsInUse  BY <1>2, <2>1, <3>1, AliveDir DEF DirAt
    <3>3. DirsInUse' = DirsInUse /\ \A j, e : dirlookup(dinode[j], e)' = dirlookup(dinode[j], e)
      BY <1>1 DEF disk, DirsInUse, dirlookup
    <3>4. Tree' = Tree  BY <3>3 DEF Tree
    <3> QED BY <1>2, <2>1, <2>2, <3>2, <3>4 DEF Tree
  <2>15. Kinds(p)'
    <3>1. skipelem(p)' = skipelem(p)  BY <2>6 DEF skipelem
    <3>2. Num(dp[p])' = Num(at[p]) /\ Num(at[p])' = i /\ DirAt(dp[p])'  BY <2>5, <2>6, <2>13 DEF Num, DirAt
    <3> QED BY <1>1, <2>2, <2>5, <2>6, <2>8, <2>9, <2>14, <3>1, <3>2, CwdKept DEF disk, Kinds
  <2> QED BY <1>1, <2>5, <2>7, <2>10, <2>11, <2>12, <2>15, QuietLinks DEF disk
<1> QED BY <1>4, <1>5 DEF unlink1

LEMMA IallocLinks == ASSUME FsInv, LinkInv, NEW p \in Procs, ialloc(p) PROVE LinkInv'
<1>0. RegType /\ RegsOk(p) /\ Kinds(p)  BY DEF FsInv, LinkInv, RegLive
<1>a. pc[p] = "ialloc" /\ icache' = iget(icache, inum[p]) /\ HasSlot(icache, inum[p]) /\ UNCHANGED <<disk, cwd, ofile, call, path, ip, dp>>
  BY DEF ialloc, InStep
<1>b. MakingBy(p) = inum[p] /\ inum[p] # 0 /\ inum[p] \in Inums  BY <1>0, <1>a DEF MakingBy, RegsOk, RegType
<1>1. PICK t : t = SlotOf(icache, inum[p])  OBVIOUS
<1>c. KeepsNums /\ t \in Slots /\ icache'[t].inum = inum[p]  BY <1>1, <1>a, <1>b, KeepGet
<1> USE DEF ialloc, Goto
<1>2. /\ pc'[p] = "create3" /\ ret'[p] = ret[p] /\ put'[p] = put[p] /\ at'[p] = t /\ path'[p] = path[p] /\ call'[p] = call[p]
      /\ ofile'[p] = ofile[p] /\ cwd'[p] = cwd[p] /\ ip'[p] = ip[p] /\ dp'[p] = dp[p]
  BY <1>0, <1>1 DEF RegType
<1>3. Only(p)  BY <1>0 DEF Only, Same, RegType
<1>4. K(p) = "ialloc" /\ ip[p] = None /\ dp[p] # None /\ at[p] = None /\ put[p] = None
  BY <1>0, <1>a DEF RegsOk, K, Iput, DpSteps, AtSteps
<1>5. K(p)' = "create3"  BY <1>2 DEF K, Iput
<1>6. Pending(p)' = Pending(p)  BY <1>2, <1>4, <1>5 DEF Pending, PendSlot
<1>7. MakingBy(p)' = MakingBy(p) /\ Sole(p)'  BY <1>b, <1>c, <1>2 DEF MakingBy, Sole, Num
<1>8. LiveFrom(p)  BY <1>a, <1>2, <1>4 DEF LiveFrom, Live
<1>9. Safe(inum[p])
  <2> SUFFICES ASSUME NEW q \in Procs, pc[q] = "free" PROVE Num(put[q]) # inum[p]  BY DEF Safe
  <2>1. put[q] # None /\ put[q] \in Live(q)  BY InIput, Consts DEF Iput, Live
  <2>2. Alive(Num(put[q]))  BY <2>1 DEF LinkInv, RegLive, LiveOk
  <2> QED BY <1>b, <2>2 DEF Alive
<1>10. PtrsFrom(p)  BY <1>c, <1>2, <1>4, <1>9 DEF PtrsFrom, Ptrs
<1>11. Kinds(p)'
  <2>1. dp[p] \in Slots /\ icache[dp[p]].ref > 0  BY <1>a, HeldDp DEF DpSteps
  <2>2. DirAt(dp[p])'  BY <1>0, <1>a, <1>c, <1>2, <1>4, <2>1 DEF Kinds, DirAt, Num, KeepsNums, disk
  <2>3. skipelem(p)' \in Names  BY <1>0, <1>a, <1>2 DEF Kinds, skipelem
  <2> QED BY <1>a, <1>c, <1>2, <1>4, <1>5, <2>2, <2>3, CwdKept DEF disk, Kinds
<1> QED BY <1>a, <1>c, <1>2, <1>3, <1>6, <1>7, <1>8, <1>10, <1>11, QuietLinks DEF disk

LEMMA Link2FoundLinks ==
  ASSUME FsInv, LinkInv, NEW p \in Procs, pc[p] = "link2", KeepsNums, NEW t \in Slots, Found(icache'[t].inum),
         dp' = [dp EXCEPT ![p] = at[p]], Put(p, t, "unlockdp"), at' = [at EXCEPT ![p] = ip[p]], ip' = [ip EXCEPT ![p] = None],
         UNCHANGED <<disk, cwd, ofile, call, path, inum>>
  PROVE  LinkInv'
<1>0. RegType /\ RegsOk(p) /\ Kinds(p)  BY DEF FsInv, LinkInv, RegLive
<1> USE DEF Put
<1>2. /\ pc'[p] = "iput" /\ ret'[p] = "unlockdp" /\ put'[p] = t /\ at'[p] = ip[p]
      /\ ofile'[p] = ofile[p] /\ cwd'[p] = cwd[p] /\ ip'[p] = None /\ dp'[p] = at[p]
  BY <1>0 DEF RegType
<1>3. Only(p)  BY <1>0 DEF Only, Same, RegType
<1>4. K(p) = "link2" /\ ip[p] # None /\ at[p] # None  BY <1>0 DEF RegsOk, K, Iput, AtSteps
<1>5. K(p)' = "unlockdp"  BY <1>2 DEF K, Iput
<1>6. PendSlot(p)' = ip[p] /\ PendSlot(p) = ip[p]  BY <1>2, <1>4, <1>5 DEF PendSlot
<1>7. icache'[ip[p]].inum = Num(ip[p])  BY <1>4, PointerSlot DEF Ptrs, KeepsNums, Num
<1>8. Pending(p)' = Pending(p)  BY <1>6, <1>7 DEF Pending, Num
<1>9. MakingBy(p)' = MakingBy(p) /\ MakingBy(p) = 0 /\ Sole(p)'  BY <1>2 DEF MakingBy, Sole
<1>10. LiveFrom(p) /\ PtrsFrom(p)  BY <1>2 DEF LiveFrom, PtrsFrom, Live, Ptrs, Found, Safe
<1>11. at[p] \in Slots /\ icache[at[p]].ref > 0  BY <1>4, PointerSlot DEF Ptrs
<1>12. DirAt(dp[p])'  BY <1>0, <1>2, <1>4, <1>11 DEF Kinds, DirAt, Num, KeepsNums, disk
<1>13. Kinds(p)'  BY <1>2, <1>5, <1>12, CwdKept DEF disk, Kinds
<1> QED BY <1>3, <1>8, <1>9, <1>10, <1>13, QuietLinks DEF disk

LEMMA Unlink2FailLinks ==
  ASSUME FsInv, LinkInv, NEW p \in Procs, pc[p] = "unlink2", KeepsNums, PutAt(p, "unlockdp"),
         UNCHANGED <<disk, dp, cwd, ofile, call, path, ip, inum>>
  PROVE  LinkInv'
<1>0. RegType /\ RegsOk(p) /\ Kinds(p)  BY DEF FsInv, LinkInv, RegLive
<1> USE DEF PutAt, Put
<1>2. /\ pc'[p] = "iput" /\ ret'[p] = "unlockdp" /\ put'[p] = at[p] /\ at'[p] = None
      /\ ofile'[p] = ofile[p] /\ cwd'[p] = cwd[p] /\ ip'[p] = ip[p] /\ dp'[p] = dp[p]
  BY <1>0 DEF RegType
<1>3. Only(p)  BY <1>0 DEF Only, Same, RegType
<1>4. K(p) = "unlink2" /\ ip[p] = None /\ dp[p] # None  BY <1>0 DEF RegsOk, K, Iput, DpSteps
<1>5. K(p)' = "unlockdp"  BY <1>2 DEF K, Iput
<1>6. Pending(p)' = Pending(p)  BY <1>2, <1>4, <1>5 DEF Pending, PendSlot
<1>7. MakingBy(p)' = MakingBy(p) /\ MakingBy(p) = 0 /\ Sole(p)'  BY <1>2 DEF MakingBy, Sole
<1>8. LiveFrom(p) /\ PtrsFrom(p)  BY <1>2 DEF LiveFrom, PtrsFrom, Live, Ptrs
<1>9. dp[p] \in Slots /\ icache[dp[p]].ref > 0  BY HeldDp DEF DpSteps
<1>10. DirAt(dp[p])'  BY <1>0, <1>2, <1>4, <1>9 DEF Kinds, DirAt, Num, KeepsNums, disk
<1>11. Kinds(p)'  BY <1>2, <1>4, <1>5, <1>10, CwdKept DEF disk, Kinds
<1> QED BY <1>3, <1>6, <1>7, <1>8, <1>11, QuietLinks DEF disk

LEMMA Create1FoundLinks ==
  ASSUME FsInv, LinkInv, NEW p \in Procs, pc[p] = "create1", KeepsNums, NEW t \in Slots, Found(icache'[t].inum),
         at' = [at EXCEPT ![p] = t], Put(p, at[p], "create2"),
         UNCHANGED <<disk, cwd, ofile, call, path, ip, dp, inum>>
  PROVE  LinkInv'
<1>0. RegType /\ RegsOk(p)  BY DEF FsInv
<1> USE DEF Put
<1>2. /\ pc'[p] = "iput" /\ ret'[p] = "create2" /\ put'[p] = at[p] /\ at'[p] = t
      /\ ofile'[p] = ofile[p] /\ cwd'[p] = cwd[p] /\ ip'[p] = ip[p] /\ dp'[p] = dp[p]
  BY <1>0 DEF RegType
<1>3. Only(p)  BY <1>0 DEF Only, Same, RegType
<1>4. K(p) = "create1" /\ ip[p] = None /\ dp[p] = None  BY <1>0 DEF RegsOk, K, Iput, DpSteps
<1>5. K(p)' = "create2"  BY <1>2 DEF K, Iput
<1>6. Pending(p) = 0  BY <1>4, NothingPending
<1>7. LiveFrom(p) /\ PtrsFrom(p)  BY <1>2 DEF LiveFrom, PtrsFrom, Live, Ptrs, Found, Safe
<1> QED BY <1>2, <1>3, <1>4, <1>5, <1>6, <1>7, CwdKept, EasyLinks DEF disk

\* A step of p that changes the disk.
LEMMA DiskLinks ==
  ASSUME FsInv, LinkInv, NEW p \in Procs, Only(p), KeepsNums,
         LinksOk(Tree', DirsInUse', NLinks', Pend'), DirsOk', MakingOk', LiveOk(p)', PtrsFrom(p), Sole(p)', Kinds(p)',
         \A i \in Inums : (\E q \in Procs : q # p /\ \E s \in Live(q) : s # None /\ Num(s) = i) => Survives(i),
         \A q \in Procs, i \in Inums : q # p /\ pc[q] = "free" /\ i = Num(put[q]) => dinode'[i].nlink = dinode[i].nlink,
         \A q \in Procs, i \in Inums, e \in Names :
           q # p /\ pc[q] = "unlink2" /\ i = Num(dp[q]) /\ e = skipelem(q) => Tree'[i][e] = Tree[i][e]
  PROVE  LinkInv'
<1>1. ASSUME NEW q \in Procs PROVE RegLive(q)'
  <2>1. CASE q = p  BY <2>1 DEF RegLive
  <2>2. CASE q # p
    <3>1. \A i \in Inums : (\E s \in Live(q) : s # None /\ Num(s) = i) => Survives(i)  BY <2>2
    <3>2. pc[q] = "free" => put[q] \notin Ptrs(p)' /\ put[q] # put'[p]  BY <2>2, FreedApart
    <3>3. \A i \in Inums : pc[q] = "free" /\ i = Num(put[q]) => dinode'[i].nlink = dinode[i].nlink  BY <2>2
    <3>4. \A i \in Inums : pc[q] = "unlink2" /\ i = Num(dp[q]) => \A e \in Names : e = skipelem(q) => Tree'[i][e] = Tree[i][e]
      BY <2>2
    <3> QED BY <2>2, <3>1, <3>2, <3>3, <3>4, OthersLive
  <2> QED BY <2>1, <2>2
<1> QED BY <1>1 DEF LinkInv, LinksOk, LinksType, Forest, Claimed, NamedBy, SubsOf, PendOn, One

\* What others free is nothing that p points to.
LEMMA NotFreed ==
  ASSUME FsInv, LinkInv, NEW p \in Procs, NEW s \in Ptrs(p) \union {put[p]}, s # None,
         NEW q \in Procs, q # p, pc[q] = "free"
  PROVE  Num(put[q]) # Num(s)
<1>1. put[q] \in Slots /\ icache[put[q]].ref > 0  BY InIput DEF Iput
<1>2. s \in Slots /\ icache[s].ref > 0  BY PointerSlot
<1>3. put[q] # s  BY DEF LinkInv, RegLive, Sole
<1> QED BY <1>1, <1>2, <1>3 DEF FsInv, Good, Unique, Num

\* A directory with the same place on the disk and the same entries.
SameDir(i) ==
  /\ dinode'[i].type = dinode[i].type /\ dinode'[i].size = dinode[i].size /\ dinode'[i].addrs = dinode[i].addrs
  /\ i \in DirsInUse => data'[dinode[i].addrs[0]].ents = data[dinode[i].addrs[0]].ents
LEMMA SameDirIs ==
  ASSUME NEW i \in Inums, SameDir(i)
  PROVE  /\ i \in DirsInUse' <=> i \in DirsInUse
         /\ i \in DirsInUse => \A e : dirlookup(dinode[i], e)' = dirlookup(dinode[i], e)
         /\ Tree'[i] = Tree[i]
<1>1. i \in DirsInUse' <=> i \in DirsInUse  BY DEF SameDir, DirsInUse
<1>2. i \in DirsInUse => \A e : dirlookup(dinode[i], e)' = dirlookup(dinode[i], e)
  BY DEF SameDir, dirlookup
<1>3. Tree'[i] = [e \in Names |-> IF i \in DirsInUse' THEN dirlookup(dinode[i], e)' ELSE 0]  BY DEF Tree
<1>4. Tree[i] = [e \in Names |-> IF i \in DirsInUse THEN dirlookup(dinode[i], e) ELSE 0]  BY DEF Tree
<1> QED BY <1>1, <1>2, <1>3, <1>4

LEMMA PendStep ==
  ASSUME FsInv, NEW p \in Procs, Only(p), KeepsNums
  PROVE  /\ \A q \in Procs : q # p => Pend'[q] = Pend[q]
         /\ Pend'[p] = Pending(p)' /\ Pend[p] = Pending(p)
         /\ \A q \in Procs : q # p => MakingBy(q)' = MakingBy(q)
BY OthersKept DEF Pend

Typed == LinksType(Tree, DirsInUse, NLinks, Pend)
LEMMA LinksTypedNext == FsInv' => LinksType(Tree', DirsInUse', NLinks', Pend')
<1>1. FsInv => Typed  BY LinksTyped DEF Typed
<1>2. FsInv' => Typed'  BY <1>1, PTL
<1> QED BY <1>2 DEF Typed, LinksType

RelinkedTo(s, x) ==
  /\ KeepsNums /\ \A i \in Inums : SameDir(i)
  /\ dinode'[Num(s)].nlink = dinode[Num(s)].nlink + x
  /\ \A i \in Inums : i # Num(s) => dinode'[i] = dinode[i]
LEMMA RelinkedIs ==
  ASSUME FsInv, NEW s \in Slots, icache[s].ref > 0, Loaded(s).d.type # "free", NEW x \in Int, Relinked(s, x), data' = data
  PROVE  RelinkedTo(s, x)
<1>1. Good(icache, dinode) /\ Num(s) \in Inums /\ dinode \in [Inums -> Inode]  BY RefNat, SlotFields DEF FsInv, Good, Num
<1>2. Loaded(s).d = dinode[Num(s)] /\ Loaded(s).d \in Inode  BY <1>1, LoadedIs DEF Num
<1>3. PICK d : d = [Loaded(s).d EXCEPT !.nlink = @ + x]  OBVIOUS
<1>4. icache' = With(icache, s, d, 0) /\ dinode' = [dinode EXCEPT ![Num(s)] = d]  BY <1>3 DEF Relinked, iupdate, Num
<1>5. Loaded(s).d.nlink \in Int  BY <1>2, InodeFields
<1>5a. Loaded(s).d.nlink + x \in Int  BY <1>5
<1>5b. d = [Loaded(s).d EXCEPT !.nlink = Loaded(s).d.nlink + x]  BY <1>3
<1>6. d \in Inode /\ d.type = Loaded(s).d.type /\ d.size = Loaded(s).d.size /\ d.addrs = Loaded(s).d.addrs /\ d.nlink = Loaded(s).d.nlink + x
  BY <1>2, <1>5a, <1>5b, NlinkOnly
<1>7. Changed(icache, icache', s, d, 0)  BY <1>1, <1>4, <1>6, WithChanged
<1>8. KeepsNums  BY <1>7 DEF Changed, KeepsNums
<1>9. dinode'[Num(s)] = d /\ \A i \in Inums : i # Num(s) => dinode'[i] = dinode[i]  BY <1>1, <1>4
<1>10. \A i \in Inums : SameDir(i)  BY <1>2, <1>6, <1>9 DEF SameDir
<1> QED BY <1>2, <1>6, <1>8, <1>9, <1>10 DEF RelinkedTo

LEMMA AliveKept ==
  ASSUME NEW p \in Procs, \A q \in Procs : MakingBy(q)' = MakingBy(q), NEW i \in Inums, dinode'[i].type = dinode[i].type
  PROVE  Alive(i)' <=> Alive(i)
BY DEF Alive

LEMMA RelinkLinks ==
  ASSUME FsInv, LinkInv, NEW p \in Procs, NEW s \in Ptrs(p), s \in Live(p), s # None, Loaded(s).d.type # "free",
         NEW x \in {-1, 1}, Relinked(s, x), data' = data, Only(p), MakingBy(p) = 0, MakingBy(p)' = 0,
         IF x = 1 THEN Pending(p) = 0 /\ Pending(p)' = Num(s) ELSE Pending(p) = Num(s) /\ Pending(p)' = 0,
         FsInv', LiveFrom(p), PtrsFrom(p), Sole(p)', Kinds(p)'
  PROVE  LinkInv'
<1>1. s \in Slots /\ icache[s].ref > 0 /\ Num(s) \in Inums  BY PointerSlot
<1>2. x \in Int /\ RelinkedTo(s, x)  BY <1>1, RelinkedIs
<1>3. KeepsNums  BY <1>2 DEF RelinkedTo
<1>4. \A q \in Procs : MakingBy(q)' = MakingBy(q)  BY <1>3, PendStep
<1>5. \A i \in Inums : SameDir(i)  BY <1>2 DEF RelinkedTo
<1>6. \A i \in Inums : Alive(i)' <=> Alive(i)  BY <1>4, <1>5, AliveKept DEF SameDir
<1>7. DirsInUse' = DirsInUse
  <2>1. DirsInUse \subseteq Inums /\ DirsInUse' \subseteq Inums  BY DEF DirsInUse
  <2> QED BY <1>5, <2>1, SameDirIs
<1>8. Tree' = Tree
  <2>1. Tree' = [i \in Inums |-> Tree'[i]] /\ Tree = [i \in Inums |-> Tree[i]]  BY DEF Tree
  <2>2. \A i \in Inums : Tree'[i] = Tree[i]  BY <1>5, SameDirIs
  <2> QED BY <2>1, <2>2
<1>9. NLinks'[Num(s)] = NLinks[Num(s)] + x /\ \A k \in Inums : k # Num(s) => NLinks'[k] = NLinks[k]
  BY <1>1, <1>2 DEF RelinkedTo, NLinks
<1>10. LinksType(Tree', DirsInUse', NLinks', Pend')
  BY LinksTypedNext
<1>11. LinksType(Tree, DirsInUse, NLinks', Pend')  BY <1>7, <1>8, <1>10
<1>12. /\ \A q \in Procs : q # p => Pend'[q] = Pend[q]
       /\ IF x = 1 THEN Pend[p] = 0 /\ Pend'[p] = Num(s) ELSE Pend[p] = Num(s) /\ Pend'[p] = 0
  BY <1>3, PendStep
<1>13. LinksOk(Tree, DirsInUse, NLinks', Pend')
  BY <1>1, <1>9, <1>11, <1>12, LinksPending DEF LinkInv
<1>14. LinksOk(Tree', DirsInUse', NLinks', Pend')  BY <1>7, <1>8, <1>13
<1>15. DirsOk'
  <2>1. \A i \in DirsInUse : i \in Inums  BY DEF DirsInUse
  <2>2. \A i \in DirsInUse : dirlookup(dinode[i], ".")' = i /\ UpOk(dirlookup(dinode[i], "..")')
    BY <1>5, <2>1, SameDirIs DEF LinkInv, DirsOk
  <2>3. \A i \in Inums : Alive(i)' /\ dinode'[i].type = "dir" => dinode'[i].size > 0
    BY <1>5, <1>6 DEF LinkInv, DirsOk, SameDir
  <2> QED BY <1>7, <2>2, <2>3 DEF DirsOk
<1>16. Alive(Num(s))  BY DEF LinkInv, RegLive, LiveOk
<1>17. MakingOk'
  <2>1. \A q \in Procs : MakingBy(q) # 0 => dinode'[MakingBy(q)] = dinode[MakingBy(q)] /\ NewType(q)' = NewType(q)
    <3> TAKE q \in Procs
    <3>1. q # p => call'[q] = call[q]  BY DEF Only, Same
    <3>2. MakingBy(q) # Num(s)  BY <1>16 DEF Alive
    <3>3. MakingBy(q) # 0 => q # p /\ MakingBy(q) \in Inums  BY DEF LinkInv, MakingOk
    <3> QED BY <1>2, <3>1, <3>2, <3>3 DEF NewType, RelinkedTo
  <2> QED BY <1>4, <2>1 DEF LinkInv, MakingOk, Free
<1>18. LiveOk(p)'  BY <1>3, <1>6, LiveKept
<1>19. \A i \in Inums : (\E q \in Procs : q # p /\ \E t \in Live(q) : t # None /\ Num(t) = i) => Survives(i)
  <2>1. \A q \in Procs : \A t \in Live(q) : t # None => Alive(Num(t))  BY DEF LinkInv, RegLive, LiveOk
  <2> QED BY <1>5, <1>6, <2>1 DEF Survives, SameDir
<1>20. \A q \in Procs, i \in Inums : q # p /\ pc[q] = "free" /\ i = Num(put[q]) => dinode'[i].nlink = dinode[i].nlink
  BY <1>2, NotFreed DEF RelinkedTo
<1> QED BY <1>3, <1>8, <1>14, <1>15, <1>17, <1>18, <1>19, <1>20, DiskLinks

LEMMA CwdSame ==
  ASSUME FsInv, LinkInv, NEW p \in Procs, KeepsNums, cwd'[p] = cwd[p],
         \A i \in Inums : Alive(i) => dinode'[i].type = dinode[i].type
  PROVE  DirAt(cwd[p])'
<1>1. cwd[p] \in Slots /\ cwd[p] # None  BY Consts DEF FsInv, RegType
<1>2. icache[cwd[p]].ref > 0 /\ Num(cwd[p]) \in Inums  BY <1>1, PointerSlot DEF Ptrs
<1>3. DirAt(cwd[p]) /\ Alive(Num(cwd[p]))  BY <1>1 DEF LinkInv, RegLive, Kinds, LiveOk, Live
<1> QED BY <1>1, <1>2, <1>3 DEF DirAt, Num, KeepsNums

LEMMA Link1Links == ASSUME FsInv, FsInv', LinkInv, NEW p \in Procs, link1(p) PROVE LinkInv'
<1>0. RegType /\ RegsOk(p)  BY DEF FsInv
<1>1. ilock(p, "link1", at[p]) /\ UNCHANGED <<bitmap, data, cwd, ofile, call, dp, inum>>  BY DEF link1
<1>2. pc[p] = "link1" /\ K(p) = "link1" /\ at[p] \in Slots /\ icache[at[p]].ref > 0 /\ Loaded(at[p]).d.type # "free"
      /\ Loaded(at[p]).d = dinode[Num(at[p])] /\ Num(at[p]) \in Inums
  BY <1>1, LockedAt DEF AtSteps, Num
<1>3. CASE icache' = Seen(icache, at[p], 0) /\ PutAt(p, "end_op") /\ UNCHANGED <<dinode, path, ip>>
  <2>1. KeepsNums  BY <1>2, <1>3, KeepSeen
  <2> QED BY <1>1, <1>2, <1>3, <2>1, PutAtLinks DEF AtSteps
<1>4. CASE /\ Loaded(at[p]).d.type # "dir" /\ Relinked(at[p], 1) /\ ip' = [ip EXCEPT ![p] = at[p]]
           /\ at' = [at EXCEPT ![p] = None] /\ path' = [path EXCEPT ![p] = call[p].new] /\ Goto(p, "begin2")
  <2> USE <1>4 DEF Goto
  <2>1. /\ pc'[p] = "begin2" /\ ret'[p] = ret[p] /\ put'[p] = put[p] /\ at'[p] = None
        /\ ofile'[p] = ofile[p] /\ cwd'[p] = cwd[p] /\ ip'[p] = at[p] /\ dp'[p] = dp[p]
    BY <1>0, <1>1 DEF RegType
  <2>2. Only(p)  BY <1>0, <1>1 DEF Only, Same, RegType
  <2>3. ip[p] = None /\ dp[p] = None /\ at[p] # None  BY <1>0, <1>2 DEF RegsOk, DpSteps, AtSteps
  <2>4. K(p)' = "begin2"  BY <2>1 DEF K, Iput
  <2>5. 1 \in Int /\ RelinkedTo(at[p], 1)  BY <1>1, <1>2, RelinkedIs
  <2>6. KeepsNums /\ SameDir(Num(at[p]))  BY <1>2, <2>5 DEF RelinkedTo
  <2>7. icache'[at[p]].inum = Num(at[p])  BY <1>2, <2>6 DEF KeepsNums, Num
  <2>8. Pending(p) = 0 /\ Pending(p)' = Num(at[p])
    BY <1>2, <2>1, <2>3, <2>7, NothingPending DEF Pending, PendSlot, Num
  <2>9. MakingBy(p) = 0 /\ MakingBy(p)' = 0 /\ Sole(p)'  BY <1>2, <2>1 DEF MakingBy, Sole
  <2>10. LiveFrom(p) /\ PtrsFrom(p) /\ at[p] \in Ptrs(p) /\ at[p] \in Live(p)
    BY <1>2, <2>1 DEF LiveFrom, PtrsFrom, Live, Ptrs
  <2>11. ~DirAt(ip[p])'  BY <1>2, <2>1, <2>6, <2>7 DEF DirAt, Num, SameDir
  <2>12. DirAt(cwd[p])'
    <3>1. \A i \in Inums : dinode'[i].type = dinode[i].type  BY <2>5 DEF RelinkedTo, SameDir
    <3> QED BY <2>1, <2>6, <3>1, CwdSame
  <2>13. Kinds(p)'  BY <2>1, <2>3, <2>4, <2>11, <2>12 DEF Kinds
  <2> QED BY <1>1, <1>2, <2>2, <2>3, <2>8, <2>9, <2>10, <2>13, RelinkLinks
<1> QED BY <1>3, <1>4 DEF link1

\* The end of linkbad and of unlink3.
LEMMA UnlinkedLinks ==
  ASSUME FsInv, FsInv', LinkInv, NEW p \in Procs, pc[p] \in {"linkbad", "unlink3"}, at[p] \in Slots, icache[at[p]].ref > 0,
         Loaded(at[p]).d.type # "free", Relinked(at[p], -1), PutAt(p, "end_op"),
         UNCHANGED <<bitmap, data, cwd, ofile, call, path, ip, dp, inum>>
  PROVE  LinkInv'
<1>0. RegType /\ RegsOk(p)  BY DEF FsInv
<1> USE DEF PutAt, Put
<1>1. /\ pc'[p] = "iput" /\ ret'[p] = "end_op" /\ put'[p] = at[p] /\ at'[p] = None
      /\ ofile'[p] = ofile[p] /\ cwd'[p] = cwd[p] /\ ip'[p] = ip[p] /\ dp'[p] = dp[p]
  BY <1>0 DEF RegType
<1>2. Only(p)  BY <1>0 DEF Only, Same, RegType
<1>3. ip[p] = None /\ dp[p] = None /\ at[p] # None /\ K(p) = pc[p]  BY <1>0 DEF RegsOk, DpSteps, AtSteps, K, Iput
<1>4. K(p)' = "end_op"  BY <1>1 DEF K, Iput
<1>5. -1 \in Int /\ RelinkedTo(at[p], -1)  BY RelinkedIs
<1>6. Pending(p) = Num(at[p]) /\ Pending(p)' = 0
  BY <1>1, <1>3, <1>4 DEF Pending, PendSlot
<1>7. MakingBy(p) = 0 /\ MakingBy(p)' = 0 /\ Sole(p)'  BY <1>1 DEF MakingBy, Sole
<1>8. LiveFrom(p) /\ PtrsFrom(p) /\ at[p] \in Ptrs(p) /\ at[p] \in Live(p)
  BY <1>1 DEF LiveFrom, PtrsFrom, Live, Ptrs
<1>9. DirAt(cwd[p])'
  <2>1. KeepsNums /\ \A i \in Inums : dinode'[i].type = dinode[i].type  BY <1>5 DEF RelinkedTo, SameDir
  <2> QED BY <1>1, <2>1, CwdSame
<1>10. Kinds(p)'  BY <1>1, <1>3, <1>4, <1>9 DEF Kinds
<1>11. -1 \in {-1, 1} /\ -1 # 1  OBVIOUS
<1> QED BY <1>2, <1>3, <1>6, <1>7, <1>8, <1>10, <1>11, RelinkLinks

LEMMA LinkBadLinks == ASSUME FsInv, FsInv', LinkInv, NEW p \in Procs, linkbad(p) PROVE LinkInv'
<1>1. ilock(p, "linkbad", at[p])  BY DEF linkbad
<1>2. pc[p] = "linkbad" /\ at[p] \in Slots /\ icache[at[p]].ref > 0 /\ Loaded(at[p]).d.type # "free"
  BY <1>1, LockedAt DEF AtSteps
<1> QED BY <1>2, UnlinkedLinks DEF linkbad
LEMMA Unlink3Links == ASSUME FsInv, FsInv', LinkInv, NEW p \in Procs, unlink3(p) PROVE LinkInv'
<1>1. pc[p] = "unlink3" /\ at[p] \in Slots /\ icache[at[p]].ref > 0 /\ Loaded(at[p]).d.type # "free"
  BY HeldAt DEF unlink3, InStep
<1> QED BY <1>1, UnlinkedLinks DEF unlink3

LEMMA FirstBlock ==
  ASSUME FsInv, BlocksInv, NEW j \in DirsInUse
  PROVE  /\ j \in Inums /\ dinode[j].addrs[0] \in Blocks /\ dinode[j].addrs[0] \in OwnedIn(dinode[j], data)
         /\ \A k \in DirsInUse : k # j => dinode[k].addrs[0] # dinode[j].addrs[0]
<1>1. ASSUME NEW k \in DirsInUse
      PROVE  k \in Inums /\ dinode[k].addrs[0] \in Blocks /\ dinode[k].addrs[0] \in OwnedIn(dinode[k], data)
  <2>1. k \in Inums /\ dinode[k].size > 0  BY DEF DirsInUse
  <2>2. dinode[k] \in Inode  BY <2>1 DEF BlocksInv, BlocksIn
  <2>3. dinode[k].addrs \in [0 .. NDIRECT -> {0} \union Blocks] /\ 0 \in 0 .. NDIRECT - 1 /\ 0 \in 0 .. NDIRECT
    BY <2>2, InodeFields, Consts
  <2>4. dinode[k].addrs[0] # 0  BY <2>1 DEF FsInv, DiskType, Headed
  <2>5. dinode[k].addrs[0] \in Direct(dinode[k])  BY <2>3, <2>4 DEF Direct
  <2> QED BY <2>1, <2>3, <2>4, <2>5 DEF OwnedIn
<1>2. \A k \in DirsInUse : k # j => dinode[k].addrs[0] # dinode[j].addrs[0]
  BY <1>1 DEF BlocksInv, BlocksIn
<1> QED BY <1>1, <1>2

\* The inodes are where they were.
InPlace == \A i \in Inums : dinode'[i].type = dinode[i].type /\ dinode'[i].size = dinode[i].size /\ dinode'[i].addrs = dinode[i].addrs
EnteredAs(j, e, c) ==
  /\ DirsInUse' = DirsInUse
  /\ \A i \in DirsInUse, f \in {".", ".."} : dirlookup(dinode[i], f)' = dirlookup(dinode[i], f)
  /\ Tree'[j][e] = c
  /\ \A k \in Inums, f \in Names : k # j \/ f # e => Tree'[k][f] = Tree[k][f]
LEMMA EnteredTree ==
  ASSUME FsInv, BlocksInv, NEW j \in DirsInUse, NEW e \in Names, NEW c \in {0} \union Inums, InPlace,
         NEW d, d.addrs[0] = dinode[j].addrs[0], data' = SetEntry(data, d, e, c)
  PROVE  EnteredAs(j, e, c)
<1>0. data \in [Blocks -> Block] /\ e \in Elems /\ e \notin {".", ".."} /\ {".", ".."} \subseteq Elems /\ Names \subseteq Elems
  BY FsAssumption DEF FsInv, DiskType, Elems
<1>1. EntrySet(data, d, e, c, data')  BY <1>0, SetEntryIs
<1>2. j \in Inums /\ d.addrs[0] \in Blocks /\ \A k \in DirsInUse : k # j => dinode[k].addrs[0] # dinode[j].addrs[0]
  BY FirstBlock
<1>3. ASSUME NEW k \in Inums, k # j PROVE SameDir(k)
  <2>1. k \in DirsInUse => dinode[k].addrs[0] \in Blocks /\ dinode[k].addrs[0] # d.addrs[0]  BY <1>2, <1>3, FirstBlock
  <2>2. k \in DirsInUse => data'[dinode[k].addrs[0]] = data[dinode[k].addrs[0]]  BY <1>1, <2>1 DEF EntrySet
  <2> QED BY <2>2 DEF SameDir, InPlace
<1>4. \A i \in Inums : i \in DirsInUse' <=> i \in DirsInUse  BY DEF InPlace, DirsInUse
<1>5. DirsInUse' = DirsInUse  BY <1>4 DEF DirsInUse
<1>6. data'[d.addrs[0]].ents = [data[d.addrs[0]].ents EXCEPT ![e] = c] /\ data[d.addrs[0]].ents \in [Elems -> {0} \union Inums]
  BY <1>0, <1>1, <1>2, BlockFields DEF EntrySet
<1>7. \A f : dirlookup(dinode[j], f)' = data'[d.addrs[0]].ents[f]
  <2>1. dinode'[j].size # 0 /\ dinode'[j].addrs[0] = d.addrs[0]  BY <1>2 DEF InPlace, DirsInUse
  <2> QED BY <2>1 DEF dirlookup
<1>8. \A f : dirlookup(dinode[j], f) = data[d.addrs[0]].ents[f]
  <2>1. dinode[j].size # 0  BY DEF DirsInUse
  <2> QED BY <2>1 DEF dirlookup
<1>9. dirlookup(dinode[j], e)' = c /\ \A f \in Elems : f # e => dirlookup(dinode[j], f)' = dirlookup(dinode[j], f)
  BY <1>0, <1>6, <1>7, <1>8
<1>10. \A f \in Names : Tree'[j][f] = dirlookup(dinode[j], f)'  BY <1>2, <1>5 DEF Tree
<1>11. \A f \in Names : Tree[j][f] = dirlookup(dinode[j], f)  BY <1>2 DEF Tree
<1>12. \A k \in Inums, f \in Names : k # j \/ f # e => Tree'[k][f] = Tree[k][f]
  BY <1>0, <1>3, <1>9, <1>10, <1>11, SameDirIs
<1>13. \A i \in DirsInUse, f \in {".", ".."} : dirlookup(dinode[i], f)' = dirlookup(dinode[i], f)
  <2>1. \A i \in DirsInUse : i \in Inums  BY DEF DirsInUse
  <2> QED BY <1>0, <1>3, <1>9, <2>1, SameDirIs
<1> QED BY <1>5, <1>9, <1>10, <1>12, <1>13 DEF EnteredAs

\* What p works on is no directory that another process unlinks from.
LEMMA OtherDp ==
  ASSUME FsInv, NEW q \in Procs, pc[q] = "unlink2", NEW s \in Slots, icache[s].ref > 0, icache[s].lock # q
  PROVE  Num(dp[q]) # Num(s)
<1>1. dp[q] \in Slots /\ icache[dp[q]].ref > 0 /\ icache[dp[q]].lock = q  BY HeldDp DEF DpSteps
<1> QED BY <1>1 DEF FsInv, Good, Unique, Num

\* The name that nothing was found under is a name of a file.
LEMMA NewName ==
  ASSUME FsInv, LinkInv, UpLive, NEW p \in Procs, pc[p] \in {"link2", "create1"}, at[p] \in Slots, DirAt(at[p]), Num(at[p]) \in Inums,
         Alive(Num(at[p])), dirlookup(dinode[Num(at[p])], skipelem(p)) = 0
  PROVE  skipelem(p) \in Names
<1>1. K(p) = pc[p]  BY DEF K, Iput
<1>2. skipelem(p) \in Elems  BY <1>1, SkipElem
<1>3. skipelem(p) # "."
  <2>1. dirlookup(dinode[Num(at[p])], ".") = Num(at[p])  BY AliveDir DEF DirAt
  <2> QED BY <2>1, Consts
<1>4. skipelem(p) # ".."  BY DEF UpLive, LooksUp
<1> QED BY <1>2, <1>3, <1>4 DEF Elems

\* An entry of the directory of s is set.
LEMMA EnterLinks ==
  ASSUME FsInv, LinkInv, NEW p \in Procs, Only(p), KeepsNums, NEW s \in Slots, icache[s].ref > 0, s \in Ptrs(p),
         icache[s].lock \in {0, p}, Alive(Num(s)), NEW e \in Names, NEW c, EnteredAs(Num(s), e, c), InPlace,
         \A i \in Inums : i # Num(s) => dinode'[i] = dinode[i], MakingBy(p) = 0, MakingBy(p)' = 0,
         LinksOk(Tree', DirsInUse', NLinks', Pend'), LiveFrom(p), PtrsFrom(p), Sole(p)', Kinds(p)'
  PROVE  LinkInv'
<1>1. \A q \in Procs : MakingBy(q)' = MakingBy(q)  BY PendStep
<1>2. \A i \in Inums : Alive(i)' <=> Alive(i)  BY <1>1, AliveKept DEF InPlace
<1>3. DirsOk'
  <2>1. \A i \in DirsInUse : dirlookup(dinode[i], ".")' = i /\ UpOk(dirlookup(dinode[i], "..")')
    BY DEF LinkInv, DirsOk, EnteredAs
  <2>2. \A i \in Inums : Alive(i)' /\ dinode'[i].type = "dir" => dinode'[i].size > 0
    BY <1>2 DEF LinkInv, DirsOk, InPlace
  <2>3. DirsInUse' = DirsInUse  BY DEF EnteredAs
  <2> QED BY <2>1, <2>2, <2>3 DEF DirsOk
<1>4. MakingOk'
  <2>1. \A q \in Procs : MakingBy(q) # 0 => dinode'[MakingBy(q)] = dinode[MakingBy(q)] /\ NewType(q)' = NewType(q)
    <3> TAKE q \in Procs
    <3>1. q # p => call'[q] = call[q]  BY DEF Only, Same
    <3>2. MakingBy(q) # Num(s)  BY DEF Alive
    <3>3. MakingBy(q) # 0 => q # p /\ MakingBy(q) \in Inums  BY DEF LinkInv, MakingOk
    <3> QED BY <3>1, <3>2, <3>3 DEF NewType
  <2> QED BY <1>1, <2>1 DEF LinkInv, MakingOk, Free
<1>5. LiveOk(p)'  BY <1>2, LiveKept
<1>6. \A i \in Inums : (\E q \in Procs : q # p /\ \E t \in Live(q) : t # None /\ Num(t) = i) => Survives(i)
  <2>1. \A q \in Procs : \A t \in Live(q) : t # None => Alive(Num(t))  BY DEF LinkInv, RegLive, LiveOk
  <2> QED BY <1>2, <2>1 DEF Survives, InPlace
<1>7. \A q \in Procs, i \in Inums : q # p /\ pc[q] = "free" /\ i = Num(put[q]) => dinode'[i].nlink = dinode[i].nlink
  BY NotFreed, Consts
<1>8. \A q \in Procs, i \in Inums, f \in Names :
        q # p /\ pc[q] = "unlink2" /\ i = Num(dp[q]) /\ f = skipelem(q) => Tree'[i][f] = Tree[i][f]
  <2>1. \A q \in Procs : q # p => icache[s].lock # q  BY Consts
  <2> QED BY <2>1, OtherDp DEF EnteredAs
<1> QED BY <1>3, <1>4, <1>5, <1>6, <1>7, <1>8, DiskLinks

LEMMA Link2EnterLinks ==
  ASSUME FsInv, FsInv', BlocksInv, LinkInv, UpLive, NEW p \in Procs, ilock(p, "link2", at[p]), 
         dirlookup(Loaded(at[p]).d, skipelem(p)) = 0, icache' = Seen(icache, at[p], 0),
         data' = SetEntry(data, Loaded(at[p]).d, skipelem(p), icache[ip[p]].inum),
         Put(p, at[p], "link3"), at' = [at EXCEPT ![p] = ip[p]], ip' = [ip EXCEPT ![p] = None],
         UNCHANGED <<dp, dinode, bitmap, cwd, ofile, call, path, inum>>
  PROVE  LinkInv'
<1>0. RegType /\ RegsOk(p) /\ Kinds(p)  BY DEF FsInv, LinkInv, RegLive
<1>1. pc[p] = "link2" /\ K(p) = "link2" /\ at[p] \in Slots /\ icache[at[p]].ref > 0 /\ Loaded(at[p]).d.type # "free"
      /\ Loaded(at[p]).d = dinode[Num(at[p])] /\ Num(at[p]) \in Inums /\ icache[at[p]].lock = 0
  BY LockedAt DEF AtSteps, Num
<1> USE DEF Put
<1>2. /\ pc'[p] = "iput" /\ ret'[p] = "link3" /\ put'[p] = at[p] /\ at'[p] = ip[p]
      /\ ofile'[p] = ofile[p] /\ cwd'[p] = cwd[p] /\ ip'[p] = None /\ dp'[p] = dp[p]
  BY <1>0 DEF RegType
<1>3. Only(p)  BY <1>0 DEF Only, Same, RegType
<1>4. ip[p] # None /\ at[p] # None /\ dp[p] = None  BY <1>0, <1>1 DEF RegsOk, AtSteps, DpSteps
<1>5. K(p)' = "link3"  BY <1>2 DEF K, Iput
<1>6. DirAt(at[p]) /\ ~DirAt(ip[p])  BY <1>0, <1>1, <1>4 DEF Kinds
<1>7. Alive(Num(at[p])) /\ Alive(Num(ip[p]))  BY <1>1, <1>4 DEF LinkInv, RegLive, LiveOk, Live
<1>8. skipelem(p) \in Names  BY <1>1, <1>6, <1>7, NewName
<1>9. Num(at[p]) \in DirsInUse  BY <1>1, <1>6, <1>7, AliveDir DEF DirAt
<1>10. Num(ip[p]) \in Inums /\ Num(ip[p]) \notin DirsInUse  BY <1>6, <1>7 DEF Alive, DirsInUse, DirAt
<1>11. InPlace  BY DEF InPlace
<1>12. data' = SetEntry(data, dinode[Num(at[p])], skipelem(p), Num(ip[p]))  BY <1>1 DEF Num
<1>13. EnteredAs(Num(at[p]), skipelem(p), Num(ip[p]))  BY <1>8, <1>9, <1>10, <1>11, <1>12, EnteredTree
<1>14. KeepsNums  BY <1>1, KeepSeen
<1>15. Pending(p) = Num(ip[p]) /\ Pending(p)' = 0  BY <1>2, <1>4, <1>5 DEF Pending, PendSlot
<1>16. NLinks' = NLinks  BY DEF NLinks
<1>17. LinksOk(Tree', DirsInUse', NLinks', Pend')
  <2>1. DirsInUse' = DirsInUse /\ Tree'[Num(at[p])][skipelem(p)] = Num(ip[p])
        /\ \A k \in Inums, f \in Names : k # Num(at[p]) \/ f # skipelem(p) => Tree'[k][f] = Tree[k][f]
    BY <1>13 DEF EnteredAs
  <2>2. LinksType(Tree', DirsInUse, NLinks, Pend')  BY <1>16, <2>1, LinksTypedNext
  <2>3. Pend[p] = Num(ip[p]) /\ Pend'[p] = 0 /\ \A q \in Procs : q # p => Pend'[q] = Pend[q]  BY <1>3, <1>14, <1>15, PendStep
  <2>4. LinksOk(Tree, DirsInUse, NLinks, Pend)  BY DEF LinkInv
  <2>5. LinksOk(Tree', DirsInUse, NLinks, Pend')
    BY <1>1, <1>8, <1>10, <2>1, <2>2, <2>3, <2>4, LinksEntered
  <2> QED BY <1>16, <2>1, <2>5
<1>18. MakingBy(p) = 0 /\ MakingBy(p)' = 0 /\ Sole(p)'  BY <1>1, <1>2 DEF MakingBy, Sole
<1>19. LiveFrom(p) /\ PtrsFrom(p) /\ at[p] \in Ptrs(p)  BY <1>1, <1>2 DEF LiveFrom, PtrsFrom, Live, Ptrs
<1>20. Kinds(p)'  BY <1>2, <1>4, <1>5, <1>14, CwdKept DEF Kinds
<1> QED BY <1>1, <1>3, <1>7, <1>8, <1>11, <1>13, <1>14, <1>17, <1>18, <1>19, <1>20, EnterLinks

LEMMA Link2Links == ASSUME FsInv, FsInv', BlocksInv, LinkInv, UpLive, NEW p \in Procs, link2(p) PROVE LinkInv'
<1>1. ilock(p, "link2", at[p]) /\ at' = [at EXCEPT ![p] = ip[p]] /\ ip' = [ip EXCEPT ![p] = None]
      /\ UNCHANGED <<dinode, bitmap, cwd, ofile, call, path, inum>>
  BY DEF link2
<1>2. pc[p] = "link2" /\ K(p) = "link2" /\ at[p] \in Slots /\ icache[at[p]].ref > 0 /\ Loaded(at[p]).d.type # "free"
      /\ Loaded(at[p]).d = dinode[Num(at[p])]
  BY <1>1, LockedAt DEF AtSteps, Num
<1>3. ASSUME NEW i, i = dirlookup(Loaded(at[p]).d, skipelem(p)), i # 0, HasSlot(icache, i),
             icache' = iget(Seen(icache, at[p], p), i), dp' = [dp EXCEPT ![p] = at[p]], Put(p, SlotOf(icache, i), "unlockdp"),
             UNCHANGED data
      PROVE  LinkInv'
  <2>1. DirAt(at[p])  BY <1>2 DEF LinkInv, RegLive, Kinds
  <2>2. i \in Inums /\ Found(i)  BY <1>2, <1>3, <2>1, LookupFound DEF LooksUp
  <2>3. PICK t : t = SlotOf(icache, i)  OBVIOUS
  <2>4. KeepsNums /\ t \in Slots /\ icache'[t].inum = i  BY <1>2, <1>3, <2>2, <2>3, KeepSeenGet
  <2>5. Found(icache'[t].inum)  BY <2>2, <2>4
  <2> QED BY <1>1, <1>2, <1>3, <2>3, <2>4, <2>5, Link2FoundLinks DEF disk
<1>4. CASE /\ dirlookup(Loaded(at[p]).d, skipelem(p)) = 0 /\ icache' = Seen(icache, at[p], 0)
           /\ data' = SetEntry(data, Loaded(at[p]).d, skipelem(p), icache[ip[p]].inum)
           /\ Put(p, at[p], "link3") /\ UNCHANGED dp
  BY <1>1, <1>4, Link2EnterLinks
<1> QED BY <1>3, <1>4 DEF link2

LEMMA Unlink2ClearLinks ==
  ASSUME FsInv, FsInv', BlocksInv, LinkInv, NEW p \in Procs, pc[p] = "unlink2", KeepsNums,
         NEW u, u.type = dinode[Num(dp[p])].type, u.size = dinode[Num(dp[p])].size, u.addrs = dinode[Num(dp[p])].addrs,
         u.nlink = dinode[Num(dp[p])].nlink - (IF dinode[Num(at[p])].type = "dir" THEN 1 ELSE 0),
         dinode' = [dinode EXCEPT ![Num(dp[p])] = u], data' = SetEntry(data, dinode[Num(dp[p])], skipelem(p), 0),
         dp' = [dp EXCEPT ![p] = None], Put(p, dp[p], "unlink3"), UNCHANGED <<at, cwd, ofile, call, path, ip, inum>>
  PROVE  LinkInv'
<1>0. RegType /\ RegsOk(p) /\ Kinds(p)  BY DEF FsInv, LinkInv, RegLive
<1>1. /\ K(p) = "unlink2" /\ dp[p] \in Slots /\ icache[dp[p]].ref > 0 /\ icache[dp[p]].lock = p /\ Num(dp[p]) \in Inums
  BY HeldDp DEF DpSteps, Num
<1>2. ip[p] = None /\ at[p] # None /\ dp[p] # None  BY <1>0, <1>1 DEF RegsOk, AtSteps, DpSteps
<1>3. at[p] \in Slots /\ icache[at[p]].ref > 0 /\ Num(at[p]) \in Inums  BY <1>2, PointerSlot DEF Ptrs
<1> USE DEF Put
<1>4. /\ pc'[p] = "iput" /\ ret'[p] = "unlink3" /\ put'[p] = dp[p] /\ at'[p] = at[p]
      /\ ofile'[p] = ofile[p] /\ cwd'[p] = cwd[p] /\ ip'[p] = ip[p] /\ dp'[p] = None
  BY <1>0 DEF RegType
<1>5. Only(p)  BY <1>0 DEF Only, Same, RegType
<1>6. K(p)' = "unlink3"  BY <1>4 DEF K, Iput
<1>7. DirAt(dp[p]) /\ skipelem(p) \in Names /\ Tree[Num(dp[p])][skipelem(p)] = Num(at[p])
  BY <1>0, <1>2 DEF Kinds
<1>8. Alive(Num(at[p])) /\ Alive(Num(dp[p]))  BY <1>2 DEF LinkInv, RegLive, LiveOk, Live
<1>9. Num(dp[p]) \in DirsInUse  BY <1>1, <1>7, <1>8, AliveDir DEF DirAt
<1>10. Num(at[p]) \in DirsInUse <=> dinode[Num(at[p])].type = "dir"
  <2>1. dinode[Num(at[p])].type = "dir" => Num(at[p]) \in DirsInUse  BY <1>3, <1>8, AliveDir
  <2> QED BY <2>1 DEF DirsInUse
<1>11. dinode \in [Inums -> Inode]  BY DEF FsInv, Good
<1>12. dinode'[Num(dp[p])] = u /\ \A i \in Inums : i # Num(dp[p]) => dinode'[i] = dinode[i]  BY <1>1, <1>11
<1>13. InPlace  BY <1>12 DEF InPlace
<1>14. EnteredAs(Num(dp[p]), skipelem(p), 0)  BY <1>7, <1>9, <1>13, EnteredTree
<1>15. Pending(p) = 0 /\ Pending(p)' = Num(at[p])
  <2>1. icache'[at[p]].inum = Num(at[p])  BY <1>3 DEF KeepsNums, Num
  <2>2. PendSlot(p)' = at[p] /\ PendSlot(p) = None  BY <1>1, <1>2, <1>4, <1>6 DEF PendSlot
  <2> QED BY <1>2, <2>1, <2>2 DEF Pending, Num
<1>16. /\ NLinks'[Num(dp[p])] = NLinks[Num(dp[p])] - (IF Num(at[p]) \in DirsInUse THEN 1 ELSE 0)
       /\ \A k \in Inums : k # Num(dp[p]) => NLinks'[k] = NLinks[k]
  BY <1>1, <1>10, <1>12 DEF NLinks
<1>17. LinksOk(Tree', DirsInUse', NLinks', Pend')
  <2>1. DirsInUse' = DirsInUse /\ Tree'[Num(dp[p])][skipelem(p)] = 0
        /\ \A k \in Inums, f \in Names : k # Num(dp[p]) \/ f # skipelem(p) => Tree'[k][f] = Tree[k][f]
    BY <1>14 DEF EnteredAs
  <2>2. LinksType(Tree', DirsInUse, NLinks', Pend')  BY <2>1, LinksTypedNext
  <2>3. Pend[p] = 0 /\ Pend'[p] = Num(at[p]) /\ \A q \in Procs : q # p => Pend'[q] = Pend[q]  BY <1>5, <1>15, PendStep
  <2>4. LinksOk(Tree, DirsInUse, NLinks, Pend)  BY DEF LinkInv
  <2>5. LinksOk(Tree', DirsInUse, NLinks', Pend')
    BY <1>1, <1>3, <1>7, <1>16, <2>1, <2>2, <2>3, <2>4, LinksRemoved
  <2> QED BY <2>1, <2>5
<1>18. MakingBy(p) = 0 /\ MakingBy(p)' = 0 /\ Sole(p)'  BY <1>4 DEF MakingBy, Sole
<1>19. LiveFrom(p) /\ PtrsFrom(p) /\ dp[p] \in Ptrs(p)  BY <1>4 DEF LiveFrom, PtrsFrom, Live, Ptrs
<1>20. DirAt(cwd[p])'  BY <1>4, <1>13, CwdSame DEF InPlace
<1>21. Kinds(p)'  BY <1>2, <1>4, <1>6, <1>20 DEF Kinds
<1> QED BY <1>1, <1>5, <1>7, <1>8, <1>12, <1>13, <1>14, <1>17, <1>18, <1>19, <1>21, EnterLinks

LEMMA Unlink2Links == ASSUME FsInv, FsInv', BlocksInv, LinkInv, NEW p \in Procs, unlink2(p) PROVE LinkInv'
<1> DEFINE s  == at[p]
           d  == Loaded(s).d
           up == icache[dp[p]].d
           n  == IF d.type = "dir" THEN up.nlink - 1 ELSE up.nlink
           u  == [up EXCEPT !.nlink = n]
<1>1. ilock(p, "unlink2", s) /\ UNCHANGED <<cwd, ofile, call, path, ip, inum>>  BY DEF unlink2
<1>2. /\ pc[p] = "unlink2" /\ s \in Slots /\ icache[s].ref > 0 /\ icache[s].lock = 0
      /\ d.type # "free" /\ d = dinode[icache[s].inum] /\ d \in Inode
  BY <1>1, LockedAt DEF AtSteps
<1>3. /\ dp[p] \in Slots /\ icache[dp[p]].ref > 0 /\ icache[dp[p]].lock = p /\ icache[dp[p]].valid = TRUE
      /\ up = dinode[icache[dp[p]].inum] /\ up.type # "free" /\ up \in Inode
  BY <1>2, HeldDp DEF DpSteps
<1>4. s # dp[p]  BY <1>2, <1>3, Consts
<1>5. CASE icache' = Seen(icache, s, 0) /\ PutAt(p, "unlockdp") /\ UNCHANGED <<disk, dp>>
  <2>1. KeepsNums  BY <1>2, <1>5, KeepSeen
  <2> QED BY <1>1, <1>2, <1>5, <2>1, Unlink2FailLinks
<1>6. CASE /\ data' = SetEntry(data, up, skipelem(p), 0)
           /\ dinode' = iupdate(dinode, dp[p], u)
           /\ icache' = [Seen(icache, s, p) EXCEPT ![dp[p]].d = u, ![dp[p]].lock = 0]
           /\ dp' = [dp EXCEPT ![p] = None]
           /\ Put(p, dp[p], "unlink3")
           /\ UNCHANGED <<bitmap, at>>
  <2>1. up.nlink \in Int  BY <1>3, InodeFields
  <2>2. n \in Int /\ n = up.nlink - (IF d.type = "dir" THEN 1 ELSE 0)  BY <2>1
  <2> HIDE DEF n
  <2>3. u \in Inode /\ u.type = up.type /\ u.size = up.size /\ u.addrs = up.addrs /\ u.nlink = n  BY <1>3, <2>2, NlinkOnly
  <2> HIDE DEF u, up
  <2>4. icache' = [With(icache, s, d, p) EXCEPT ![dp[p]].d = u, ![dp[p]].lock = 0]  BY <1>6 DEF Seen
  <2> HIDE DEF d
  <2>5. KeepsNums
    <3>1. d.type # "free" /\ u.type # "free" /\ p \in {0} \union Procs  BY <1>2, <1>3, <2>3
    <3> HIDE DEF s
    <3>2. PICK r \in Slots : r = dp[p]  BY <1>3
    <3>a. icache' = [With(icache, s, d, p) EXCEPT ![r].d = u, ![r].lock = 0]  BY <2>4, <3>2
    <3>b. r # s /\ icache[r].ref > 0 /\ icache[r].valid = TRUE  BY <1>3, <1>4, <3>2
    <3>c. Two(icache, [With(icache, s, d, p) EXCEPT ![r].d = u, ![r].lock = 0], s, d, p, r, u)
      BY <1>2, <2>3, <3>1, <3>b, TwoSlots
    <3>3. Two(icache, icache', s, d, p, r, u)  BY <3>a, <3>c
    <3> QED BY <1>2, <3>3 DEF Two, KeepsNums
  <2>6. dinode' = [dinode EXCEPT ![Num(dp[p])] = u] /\ data' = SetEntry(data, dinode[Num(dp[p])], skipelem(p), 0)
    BY <1>3, <1>6 DEF iupdate, Num
  <2>7. /\ u.type = dinode[Num(dp[p])].type /\ u.size = dinode[Num(dp[p])].size /\ u.addrs = dinode[Num(dp[p])].addrs
        /\ u.nlink = dinode[Num(dp[p])].nlink - (IF dinode[Num(at[p])].type = "dir" THEN 1 ELSE 0)
    BY <1>2, <1>3, <2>2, <2>3 DEF Num
  <2> QED BY <1>1, <1>2, <1>6, <2>5, <2>6, <2>7, Unlink2ClearLinks
<1> QED BY <1>5, <1>6 DEF unlink2

\* Nobody points to the inode that p frees.
LEMMA FreedAlone ==
  ASSUME FsInv, LinkInv, NEW p \in Procs, pc[p] = "free", NEW q \in Procs, NEW s, s # None,
         s \in Ptrs(q) \/ (q # p /\ s = put[q])
  PROVE  Num(s) # Num(put[p])
<1>1. put[p] \in Slots /\ icache[put[p]].ref > 0  BY InIput DEF Iput
<1>2. s \in Ptrs(q) \union {put[q]}  OBVIOUS
<1>3. s \in Slots /\ icache[s].ref > 0  BY <1>2, PointerSlot
<1>4. put[p] # s  BY DEF LinkInv, RegLive, Sole
<1> QED BY <1>1, <1>3, <1>4 DEF FsInv, Good, Unique, Num

LEMMA IputFreeLinks == ASSUME FsInv, FsInv', BlocksInv, LinkInv, NEW p \in Procs, IputFree(p) PROVE LinkInv'
<1>0. RegType /\ RegsOk(p) /\ Kinds(p) /\ Sole(p)  BY DEF FsInv, LinkInv, RegLive
<1>1. /\ pc[p] = "free" /\ UNCHANGED <<cwd, ofile, call, path, ptrs>> /\ Goto(p, "drop")
      /\ data' = [b \in Blocks |-> IF b \in itrunc(icache[put[p]].d) THEN Zero ELSE data[b]]
      /\ dinode' = iupdate(dinode, put[p], Free("free"))
      /\ icache' = [icache EXCEPT ![put[p]] = [@ EXCEPT !.valid = FALSE, !.lock = 0, !.d = Free("free")]]
  BY DEF IputFree, InStep
<1>2. put[p] \in Slots /\ icache[put[p]].ref > 0 /\ Num(put[p]) \in Inums  BY <1>1, InIput DEF Iput, Num
<1>3. icache[put[p]].d = dinode[Num(put[p])]
  <2>1. icache[put[p]].lock = p  BY <1>1, <1>2 DEF FsInv, LockOk, Holds
  <2>2. icache[put[p]].lock # 0  BY <2>1, Consts
  <2> QED BY <1>2, <2>2 DEF FsInv, Good, Num
<1>4. PICK i0 \in Inums : i0 = Num(put[p])  BY <1>2
<1>5. itrunc(icache[put[p]].d) = OwnedIn(dinode[i0], data)
  BY <1>3, <1>4 DEF itrunc, OwnedIn, Indirect, IndirectIn
<1>6. KeepsNums
  <2>1. Cleared(icache, icache', put[p])  BY <1>1, <1>2, RefNat, FreeCleared
  <2> QED BY <1>2, <2>1 DEF Cleared, KeepsNums
<1> USE DEF Goto
<1>7. /\ pc'[p] = "drop" /\ ret'[p] = ret[p] /\ put'[p] = put[p] /\ at'[p] = at[p] /\ call'[p] = call[p]
      /\ ofile'[p] = ofile[p] /\ cwd'[p] = cwd[p] /\ ip'[p] = ip[p] /\ dp'[p] = dp[p]
  BY <1>0, <1>1 DEF RegType, ptrs
<1>8. Only(p)  BY <1>0, <1>1 DEF Only, Same, RegType, ptrs
<1>9. dinode'[i0] = Free("free") /\ \A i \in Inums : i # i0 => dinode'[i] = dinode[i]
  <2>1. dinode \in [Inums -> Inode]  BY DEF FsInv, Good
  <2> QED BY <1>1, <1>4, <2>1 DEF iupdate, Num
<1>10. dinode'[i0].type = "free" /\ dinode'[i0].nlink = 0 /\ i0 \notin DirsInUse'
  BY <1>9 DEF Free, DirsInUse
<1>11. \A i \in Inums : i # i0 => SameDir(i)
  <2> TAKE i \in Inums
  <2> HAVE i # i0
  <2>1. i \in DirsInUse => dinode[i].addrs[0] \in Blocks /\ dinode[i].addrs[0] \in OwnedIn(dinode[i], data)  BY FirstBlock
  <2>2. i \in DirsInUse => dinode[i].addrs[0] \notin OwnedIn(dinode[i0], data)  BY <2>1 DEF BlocksInv, BlocksIn
  <2>3. i \in DirsInUse => data'[dinode[i].addrs[0]] = data[dinode[i].addrs[0]]  BY <1>1, <1>5, <2>1, <2>2
  <2> QED BY <1>9, <2>3 DEF SameDir
<1>12. \A i \in Inums : i # i0 => Tree'[i] = Tree[i] /\ (i \in DirsInUse' <=> i \in DirsInUse)
  BY <1>11, SameDirIs
<1>13. \A e \in Names : Tree'[i0][e] = 0  BY <1>10 DEF Tree
<1>14. DirsInUse' \subseteq DirsInUse
  <2>1. DirsInUse' \subseteq Inums  BY DEF DirsInUse
  <2> QED BY <1>10, <1>12, <2>1
<1>15. NLinks[i0] = 0 /\ NLinks'[i0] = 0 /\ \A k \in Inums : k # i0 => NLinks'[k] = NLinks[k]
  BY <1>0, <1>1, <1>4, <1>9, <1>10 DEF Sole, NLinks
<1>16. K(p)' = K(p)  BY <1>1, <1>7 DEF K, Iput
<1>17. MakingBy(p) = 0 /\ MakingBy(p)' = 0  BY <1>1, <1>7 DEF MakingBy
<1>18. Pend' = Pend /\ \A q \in Procs : MakingBy(q)' = MakingBy(q)
  <2>1. PendSlot(p)' = PendSlot(p) /\ PendSlot(p) \in {ip[p], at[p], None}  BY <1>7, <1>16 DEF PendSlot
  <2>2. PendSlot(p) # None => icache'[PendSlot(p)].inum = Num(PendSlot(p))
    BY <1>6, <2>1, PointerSlot DEF Ptrs, KeepsNums, Num
  <2>3. Pending(p)' = Pending(p)  BY <2>1, <2>2 DEF Pending, Num
  <2>4. \A q \in Procs : Pend'[q] = Pend[q]  BY <1>6, <1>8, <2>3, PendStep
  <2>5. Pend = [q \in Procs |-> Pend[q]] /\ Pend' = [q \in Procs |-> Pend'[q]]  BY DEF Pend
  <2> QED BY <1>6, <1>8, <1>17, <2>4, <2>5, PendStep
<1>19. LinksOk(Tree', DirsInUse', NLinks', Pend')
  <2>1. LinksType(Tree', DirsInUse', NLinks', Pend)  BY <1>18, LinksTypedNext
  <2>2. LinksOk(Tree, DirsInUse, NLinks, Pend)  BY DEF LinkInv
  <2>3. LinksOk(Tree', DirsInUse', NLinks', Pend)
    BY <1>12, <1>13, <1>14, <1>15, <2>1, <2>2, LinksFreed
  <2> QED BY <1>18, <2>3
<1>20. \A i \in Inums : i # i0 => (Alive(i)' <=> Alive(i))  BY <1>9, <1>18, AliveKept
<1>21. ~Alive(i0)'  BY <1>10 DEF Alive
<1>22. DirsOk'
  <2>1. \A i \in DirsInUse' : i \in Inums /\ i # i0  BY <1>10 DEF DirsInUse
  <2>2. \A i \in DirsInUse' : dirlookup(dinode[i], ".")' = i /\ UpOk(dirlookup(dinode[i], "..")')
    BY <1>11, <1>14, <2>1, SameDirIs DEF LinkInv, DirsOk
  <2>3. \A i \in Inums : Alive(i)' /\ dinode'[i].type = "dir" => dinode'[i].size > 0
    BY <1>9, <1>20, <1>21 DEF LinkInv, DirsOk
  <2> QED BY <2>2, <2>3 DEF DirsOk
<1>23. Alive(i0)
  <2>1. put[p] \in Live(p) /\ put[p] # None  BY <1>1, <1>2, Consts DEF Live
  <2> QED BY <1>4, <2>1 DEF LinkInv, RegLive, LiveOk
<1>24. MakingOk'
  <2>1. \A q \in Procs : MakingBy(q) # 0 => dinode'[MakingBy(q)] = dinode[MakingBy(q)] /\ NewType(q)' = NewType(q)
    <3> TAKE q \in Procs
    <3>1. q # p => call'[q] = call[q]  BY <1>8 DEF Only, Same
    <3>2. MakingBy(q) # i0  BY <1>23 DEF Alive
    <3>3. MakingBy(q) # 0 => q # p /\ MakingBy(q) \in Inums  BY <1>17 DEF LinkInv, MakingOk
    <3> QED BY <1>9, <3>1, <3>2, <3>3 DEF NewType
  <2> QED BY <1>18, <2>1 DEF LinkInv, MakingOk, Free
<1>25. \A s \in Live(p)' : s # None => s \in Ptrs(p) /\ s \in Live(p)  BY <1>1, <1>7 DEF Live, Ptrs
<1>26. LiveOk(p)'
  <2> SUFFICES ASSUME NEW s \in Live(p)', s # None PROVE Alive(Num(s))'  BY DEF LiveOk
  <2>1. s \in Ptrs(p) /\ s \in Live(p)  BY <1>25
  <2>2. s \in Slots /\ icache[s].ref > 0 /\ Num(s) \in Inums  BY <2>1, PointerSlot
  <2>3. PICK i \in Inums : i = Num(s)  BY <2>2
  <2>4. Alive(i) /\ i # i0  BY <1>1, <1>4, <2>1, <2>3, FreedAlone DEF LinkInv, RegLive, LiveOk
  <2>5. Alive(i)' /\ i = Num(s)'  BY <1>6, <1>20, <2>2, <2>3, <2>4 DEF KeepsNums, Num
  <2> QED BY <2>5 DEF Alive
<1>27. \A i \in Inums : (\E q \in Procs : q # p /\ \E s \in Live(q) : s # None /\ Num(s) = i) => Survives(i)
  <2>1. \A q \in Procs : q # p => \A s \in Live(q) : s # None => Alive(Num(s)) /\ Num(s) # i0
    BY <1>1, <1>4, FreedAlone DEF LinkInv, RegLive, LiveOk, Live, Ptrs
  <2> QED BY <1>9, <1>20, <2>1 DEF Survives
<1>28. \A q \in Procs, i \in Inums : q # p /\ pc[q] = "free" /\ i = Num(put[q]) => dinode'[i].nlink = dinode[i].nlink
  <2>1. \A q \in Procs : q # p /\ pc[q] = "free" => Num(put[q]) # i0
    BY <1>1, <1>4, FreedAlone, InIput, Consts DEF Iput
  <2> QED BY <1>9, <2>1
<1>29. \A q \in Procs, i \in Inums, e \in Names :
         q # p /\ pc[q] = "unlink2" /\ i = Num(dp[q]) /\ e = skipelem(q) => Tree'[i][e] = Tree[i][e]
  <2>1. \A q \in Procs : pc[q] = "unlink2" => dp[q] # None
    BY Consts, HeldDp DEF FsInv, RegsOk, K, Iput, DpSteps
  <2>2. \A q \in Procs : pc[q] = "unlink2" => Num(dp[q]) # i0
    BY <1>1, <1>4, <2>1, FreedAlone DEF Ptrs
  <2> QED BY <1>12, <2>2
<1>30. PtrsFrom(p) /\ Sole(p)'  BY <1>7 DEF PtrsFrom, Ptrs, Sole
<1>31. \A s \in Ptrs(p) : s # None => (dinode'[icache'[s].inum].type = "dir" <=> DirAt(s))
  <2> TAKE s \in Ptrs(p)
  <2> HAVE s # None
  <2>1. s \in Slots /\ icache[s].ref > 0 /\ Num(s) \in Inums  BY PointerSlot
  <2>2. Num(s) # i0  BY <1>1, <1>4, FreedAlone
  <2> QED BY <1>6, <1>9, <2>1, <2>2 DEF KeepsNums, DirAt, Num
<1>32. Kinds(p)'
  <2>1. cwd[p] # None /\ (K(p) \in {"link2", "unlink1", "create1"} => at[p] # None)  BY <1>0, Consts DEF RegType, RegsOk, AtSteps
  <2> QED BY <1>0, <1>7, <1>16, <1>31, <2>1 DEF Kinds, DirAt, Num, Ptrs
<1> QED BY <1>6, <1>8, <1>19, <1>22, <1>24, <1>26, <1>27, <1>28, <1>29, <1>30, <1>32, DiskLinks

\* A file that grows changes no directory.
LEMMA WriteKeepsDirs ==
  ASSUME FsInv, BlocksInv, NEW i \in Inums, NEW d \in Inode, d.size < MAXFILE, Room(d, Space),
         d.addrs = dinode[i].addrs, d.size = dinode[i].size, NEW w, w = writei(d, Space), NEW k \in DirsInUse, k # i
  PROVE  w.sp.data[dinode[k].addrs[0]] = data[dinode[k].addrs[0]]
<1>0. DiskType /\ dinode[i] \in Inode  BY DEF FsInv, BlocksInv, BlocksIn
<1>1. PICK b : b = dinode[k].addrs[0]  OBVIOUS
<1>2. k \in Inums /\ b \in Blocks /\ b \in OwnedIn(dinode[k], data)  BY <1>1, FirstBlock
<1>3. b \in bitmap /\ b \notin OwnedIn(dinode[i], data)  BY <1>2 DEF BlocksInv, BlocksIn
<1>4. d.addrs \in [0 .. NDIRECT -> {0} \union Blocks] /\ NDIRECT \in 0 .. NDIRECT  BY InodeFields, Consts
<1>5. d.addrs[NDIRECT] # 0 => d.addrs[NDIRECT] \in OwnedIn(dinode[i], data)
  BY DEF OwnedIn
<1>6. CASE d.size < NDIRECT
  <2>1. WroteDirect(d, w, balloc(Space))  BY <1>0, <1>6, WriteDirect
  <2> QED BY <1>1, <1>2, <1>3, <2>1 DEF WroteDirect
<1>7. CASE d.size >= NDIRECT
  <2>1. d.addrs[NDIRECT] \in {0} \union bitmap
    <3>1. d.addrs[NDIRECT] # 0 => d.addrs[NDIRECT] \in Blocks  BY <1>4
    <3> QED BY <1>5, <3>1 DEF BlocksInv, BlocksIn
  <2>2. PICK x, y : WroteIndirect(d, w, x, y)  BY <1>0, <1>7, <2>1, WriteIndirect
  <2>3. b # x /\ b # y  BY <1>3, <1>5, <2>2 DEF WroteIndirect
  <2> QED BY <1>1, <1>2, <2>2, <2>3 DEF WroteIndirect
<1>8. d.size \in Nat /\ NDIRECT \in Nat  BY InodeFields, Consts DEF MAXFILE
<1> QED BY <1>6, <1>7, <1>8

LEMMA WriteLinks ==
  ASSUME FsInv, FsInv', BlocksInv, LinkInv, NEW p \in Procs, pc[p] = "write", NEW s \in Slots, s \in Ptrs(p), s \in Live(p),
         icache[s].ref > 0, NEW d \in Inode, d = dinode[Num(s)], d.type = "file", d.size < MAXFILE, Room(d, Space),
         NEW w, w = writei(d, Space), icache' = With(icache, s, w.d, 0), dinode' = iupdate(dinode, s, w.d),
         data' = w.sp.data, NEW l \in {"write", "end_op"}, pc' = [pc EXCEPT ![p] = l],
         UNCHANGED <<ret, put, cwd, ofile, call, path, ptrs>>
  PROVE  LinkInv'
<1>0. RegType /\ RegsOk(p) /\ RegLive(p) /\ Headed(d) /\ DiskType /\ Good(icache, dinode) /\ s # None
  <2>1. Num(s) \in Inums  BY RefNat, SlotFields DEF Num
  <2> QED BY <2>1, Consts DEF FsInv, LinkInv, DiskType
<1>1. PICK i0 \in Inums : i0 = Num(s)  BY RefNat, SlotFields DEF Num
<1>2. w.d \in Inode /\ w.d.type = d.type /\ w.d.nlink = d.nlink  BY <1>0, WriteType
<1>3. KeepsNums
  <2>1. Changed(icache, icache', s, w.d, 0)  BY <1>0, <1>2, WithChanged
  <2> QED BY <2>1 DEF Changed, KeepsNums
<1>4. dinode'[i0] = w.d /\ \A i \in Inums : i # i0 => dinode'[i] = dinode[i]
  <2>1. dinode \in [Inums -> Inode]  BY DEF FsInv, Good
  <2> QED BY <1>1, <2>1 DEF iupdate, Num
<1>5. \A i \in Inums : dinode'[i].type = dinode[i].type /\ dinode'[i].nlink = dinode[i].nlink  BY <1>1, <1>2, <1>4
<1>6. i0 \notin DirsInUse /\ i0 \notin DirsInUse'  BY <1>1, <1>5 DEF DirsInUse
<1>7. \A i \in Inums : i # i0 => SameDir(i)
  <2> TAKE i \in Inums
  <2> HAVE i # i0
  <2>1. i \in DirsInUse => data'[dinode[i].addrs[0]] = data[dinode[i].addrs[0]]  BY <1>1, WriteKeepsDirs
  <2> QED BY <1>4, <2>1 DEF SameDir
<1>8. DirsInUse' = DirsInUse
  <2>1. DirsInUse \subseteq Inums /\ DirsInUse' \subseteq Inums  BY DEF DirsInUse
  <2>2. ASSUME NEW i \in Inums PROVE i \in DirsInUse' <=> i \in DirsInUse
    <3>1. CASE i = i0  BY <1>6, <3>1
    <3>2. CASE i # i0
      <4>1. SameDir(i)  BY <1>7, <3>2
      <4> QED BY <4>1, SameDirIs
    <3> QED BY <3>1, <3>2
  <2> QED BY <2>1, <2>2
<1>9. Tree' = Tree
  <2>1. Tree' = [i \in Inums |-> Tree'[i]] /\ Tree = [i \in Inums |-> Tree[i]]  BY DEF Tree
  <2>2. Tree'[i0] = [e \in Names |-> 0] /\ Tree[i0] = [e \in Names |-> 0]  BY <1>6 DEF Tree
  <2>3. \A i \in Inums : Tree'[i] = Tree[i]  BY <1>7, <2>2, SameDirIs
  <2> QED BY <2>1, <2>3
<1>10. NLinks' = NLinks  BY <1>5 DEF NLinks
<1>11. /\ pc' = [pc EXCEPT ![p] = l] /\ ret' = ret /\ put' = put /\ at' = at /\ ip' = ip /\ dp' = dp /\ inum' = inum
       /\ cwd' = cwd /\ ofile' = ofile /\ call' = call /\ path' = path
  BY DEF ptrs
<1>p. pc'[p] = l /\ \A q \in Procs : q # p => pc'[q] = pc[q]  BY <1>0, <1>11 DEF RegType
<1>12. Only(p) /\ Ptrs(p)' = Ptrs(p) /\ Live(p)' = Live(p) /\ K(p) = "write" /\ K(p)' = l
  BY <1>11, <1>p DEF Only, Same, Ptrs, Live, K, Iput
<1>13. \A t \in Ptrs(p) \union {put[p]} : t # None => icache'[t].inum = Num(t) /\ Num(t) \in Inums
  BY <1>3, PointerSlot DEF KeepsNums, Num
<1>14. Pending(p)' = Pending(p) /\ MakingBy(p)' = MakingBy(p)
  <2>1. PendSlot(p)' = PendSlot(p) /\ PendSlot(p) \in {ip[p], at[p], None}  BY <1>11, <1>12 DEF PendSlot
  <2>2. Pending(p)' = Pending(p)  BY <1>13, <2>1 DEF Pending, Num, Ptrs
  <2> QED BY <1>p, <2>2 DEF MakingBy
<1>15. Pend' = Pend /\ \A q \in Procs : MakingBy(q)' = MakingBy(q)
  <2>1. \A q \in Procs : Pend'[q] = Pend[q]  BY <1>3, <1>12, <1>14, PendStep
  <2>2. Pend = [q \in Procs |-> Pend[q]] /\ Pend' = [q \in Procs |-> Pend'[q]]  BY DEF Pend
  <2> QED BY <1>3, <1>12, <1>14, <2>1, <2>2, PendStep
<1>16. LinksOk(Tree', DirsInUse', NLinks', Pend')  BY <1>8, <1>9, <1>10, <1>15 DEF LinkInv
<1>17. \A i \in Inums : Alive(i)' <=> Alive(i)  BY <1>5, <1>15, AliveKept
<1>18. DirsOk'
  <2>1. \A i \in DirsInUse : i \in Inums /\ i # i0  BY <1>6 DEF DirsInUse
  <2>2. \A i \in DirsInUse : dirlookup(dinode[i], ".")' = i /\ UpOk(dirlookup(dinode[i], "..")')
    BY <1>7, <2>1, SameDirIs DEF LinkInv, DirsOk
  <2>3. \A i \in Inums : Alive(i)' /\ dinode'[i].type = "dir" => dinode'[i].size > 0
    BY <1>1, <1>4, <1>5, <1>17 DEF LinkInv, DirsOk
  <2> QED BY <1>8, <2>2, <2>3 DEF DirsOk
<1>19. Alive(i0)  BY <1>0, <1>1 DEF RegLive, LiveOk
<1>20. MakingOk'
  <2>1. \A q \in Procs : MakingBy(q) # 0 => dinode'[MakingBy(q)] = dinode[MakingBy(q)] /\ NewType(q)' = NewType(q)
    <3> TAKE q \in Procs
    <3>2. MakingBy(q) # i0  BY <1>19 DEF Alive
    <3>3. MakingBy(q) # 0 => MakingBy(q) \in Inums  BY DEF LinkInv, MakingOk
    <3> QED BY <1>4, <1>11, <3>2, <3>3 DEF NewType
  <2> QED BY <1>15, <2>1 DEF LinkInv, MakingOk, Free
<1>21. LiveFrom(p) /\ PtrsFrom(p)  BY <1>11, <1>12 DEF LiveFrom, PtrsFrom
<1>22. LiveOk(p)'  BY <1>3, <1>17, <1>21, LiveKept
<1>23. \A i \in Inums : (\E q \in Procs : q # p /\ \E t \in Live(q) : t # None /\ Num(t) = i) => Survives(i)
  <2>1. \A q \in Procs : \A t \in Live(q) : t # None => Alive(Num(t))  BY DEF LinkInv, RegLive, LiveOk
  <2> QED BY <1>5, <1>17, <2>1 DEF Survives
<1>24. Sole(p)'  BY <1>p DEF Sole
<1>25. Kinds(p)'
  <2>2. dp[p] = None /\ ip[p] = None  BY <1>0, <1>12 DEF RegsOk, DpSteps
  <2>3. DirAt(cwd[p])'  BY <1>3, <1>5, <1>11, CwdSame
  <2> QED BY <1>p, <1>11, <1>12, <2>2, <2>3 DEF Kinds
<1> QED BY <1>3, <1>5, <1>9, <1>12, <1>16, <1>18, <1>20, <1>21, <1>22, <1>23, <1>24, <1>25, DiskLinks

LEMMA FileWriteLinks == ASSUME FsInv, FsInv', BlocksInv, LinkInv, NEW p \in Procs, filewrite(p) PROVE LinkInv'
<1>1. ilock(p, "write", ofile[p]) /\ UNCHANGED <<cwd, ofile, call, path, ptrs>>  BY DEF filewrite
<1>2. /\ pc[p] = "write" /\ ofile[p] \in Slots /\ icache[ofile[p]].ref > 0
      /\ Loaded(ofile[p]).d = dinode[Num(ofile[p])] /\ Loaded(ofile[p]).d \in Inode
      /\ ofile[p] \in Ptrs(p) /\ ofile[p] \in Live(p)
  BY <1>1, LockedFile DEF Num, Ptrs, Live
<1>3. CASE icache' = Seen(icache, ofile[p], 0) /\ Goto(p, "end_op") /\ UNCHANGED disk
  BY <1>1, <1>3, LookLinks
<1>4. PICK d \in Inode : d = Loaded(ofile[p]).d  BY <1>2
<1>5. PICK w : w = writei(d, Space)  OBVIOUS
<1>6. CASE /\ d.type = "file" /\ d.size < MAXFILE /\ Room(d, Space)
           /\ icache' = With(icache, ofile[p], w.d, 0) /\ dinode' = iupdate(dinode, ofile[p], w.d)
           /\ data' = w.sp.data /\ (Goto(p, "write") \/ Goto(p, "end_op"))
  BY <1>1, <1>2, <1>4, <1>5, <1>6, WriteLinks DEF Goto
<1> QED BY <1>3, <1>4, <1>5, <1>6 DEF filewrite

LEMMA NewTypeIs == \A p : NewType(p) \in {"dir", "dev", "file"}
BY DEF NewType

LEMMA FreeFields == \A t : Free(t).type = t /\ Free(t).nlink = 0 /\ Free(t).size = 0
BY DEF Free

LEMMA Create1AllocLinks ==
  ASSUME FsInv, FsInv', BlocksInv, LinkInv, UpLive, NEW p \in Procs, ilock(p, "create1", at[p]),
         dirlookup(Loaded(at[p]).d, skipelem(p)) = 0, icache' = Seen(icache, at[p], p),
         NEW n \in Inums, dinode[n].type = "free", dinode' = [dinode EXCEPT ![n] = Free(NewType(p))],
         dp' = [dp EXCEPT ![p] = at[p]], at' = [at EXCEPT ![p] = None], inum' = [inum EXCEPT ![p] = n], Goto(p, "ialloc"),
         UNCHANGED <<data, cwd, ofile, call, path, ip>>
  PROVE  LinkInv'
<1>0. RegType /\ RegsOk(p) /\ Kinds(p)  BY DEF FsInv, LinkInv, RegLive
<1>1. pc[p] = "create1" /\ K(p) = "create1" /\ at[p] \in Slots /\ icache[at[p]].ref > 0 /\ Loaded(at[p]).d.type # "free"
      /\ Loaded(at[p]).d = dinode[Num(at[p])] /\ Num(at[p]) \in Inums
  BY LockedAt DEF AtSteps, Num
<1> USE DEF Goto
<1>2. /\ pc'[p] = "ialloc" /\ ret'[p] = ret[p] /\ put'[p] = put[p] /\ at'[p] = None /\ path'[p] = path[p] /\ call'[p] = call[p]
      /\ ofile'[p] = ofile[p] /\ cwd'[p] = cwd[p] /\ ip'[p] = ip[p] /\ dp'[p] = at[p] /\ inum'[p] = n
  BY <1>0 DEF RegType
<1>3. Only(p)  BY <1>0 DEF Only, Same, RegType
<1>4. ip[p] = None /\ at[p] # None /\ dp[p] = None  BY <1>0, <1>1 DEF RegsOk, AtSteps, DpSteps
<1>5. K(p)' = "ialloc"  BY <1>2 DEF K, Iput
<1>6. DirAt(at[p]) /\ Alive(Num(at[p]))  BY <1>0, <1>1, <1>4 DEF Kinds, LinkInv, RegLive, LiveOk, Live
<1>7. skipelem(p) \in Names  BY <1>1, <1>6, NewName
<1>8. KeepsNums  BY <1>1, KeepSeen
<1>9. dinode'[n] = Free(NewType(p)) /\ \A i \in Inums : i # n => dinode'[i] = dinode[i]
  <2>1. dinode \in [Inums -> Inode]  BY DEF FsInv, Good
  <2> QED BY <2>1
<1>10. dinode[n] = Free("free")
  <2>1. Shape(dinode[n], data)  BY DEF BlocksInv, BlocksIn
  <2> QED BY <2>1 DEF Shape
<1>11. n \notin DirsInUse /\ n \notin DirsInUse' /\ dinode[n].nlink = 0 /\ dinode'[n].nlink = 0
  BY <1>9, <1>10, FreeFields DEF DirsInUse
<1>12. \A i \in Inums : i # n => SameDir(i)  BY <1>9 DEF SameDir
<1>13. DirsInUse' = DirsInUse
  <2>1. DirsInUse \subseteq Inums /\ DirsInUse' \subseteq Inums  BY DEF DirsInUse
  <2>2. \A i \in Inums : i # n => (i \in DirsInUse' <=> i \in DirsInUse)  BY <1>12, SameDirIs
  <2> QED BY <1>11, <2>1, <2>2
<1>14. Tree' = Tree
  <2>1. Tree' = [i \in Inums |-> Tree'[i]] /\ Tree = [i \in Inums |-> Tree[i]]  BY DEF Tree
  <2>2. Tree'[n] = [e \in Names |-> 0] /\ Tree[n] = [e \in Names |-> 0]  BY <1>11 DEF Tree
  <2>3. \A i \in Inums : Tree'[i] = Tree[i]  BY <1>12, <2>2, SameDirIs
  <2> QED BY <2>1, <2>3
<1>15. NLinks' = NLinks
  <2>1. \A i \in Inums : dinode'[i].nlink = dinode[i].nlink  BY <1>9, <1>11
  <2> QED BY <2>1 DEF NLinks
<1>16. MakingBy(p) = 0 /\ MakingBy(p)' = n /\ Sole(p)'  BY <1>1, <1>2 DEF MakingBy, Sole
<1>17. \A q \in Procs : q # p => MakingBy(q)' = MakingBy(q)  BY <1>3, <1>8, PendStep
<1>18. Pending(p)' = Pending(p)  BY <1>1, <1>2, <1>4, <1>5 DEF Pending, PendSlot
<1>19. Pend' = Pend
  <2>1. \A q \in Procs : Pend'[q] = Pend[q]  BY <1>3, <1>8, <1>18, PendStep
  <2>2. Pend = [q \in Procs |-> Pend[q]] /\ Pend' = [q \in Procs |-> Pend'[q]]  BY DEF Pend
  <2> QED BY <2>1, <2>2
<1>20. LinksOk(Tree', DirsInUse', NLinks', Pend')  BY <1>13, <1>14, <1>15, <1>19 DEF LinkInv
<1>21. \A i \in Inums : Alive(i)' <=> Alive(i)
  <2>1. ~Alive(n)' /\ ~Alive(n)  BY <1>16 DEF Alive
  <2>2. \A i \in Inums : i # n => (Alive(i)' <=> Alive(i))
    <3> TAKE i \in Inums
    <3> HAVE i # n
    <3>1. MakingBy(p) # i /\ MakingBy(p)' # i  BY <1>16, Consts
    <3> QED BY <1>9, <1>17, <3>1 DEF Alive
  <2> QED BY <2>1, <2>2
<1>22. DirsOk'
  <2>1. \A i \in DirsInUse : i \in Inums /\ i # n  BY <1>11 DEF DirsInUse
  <2>2. \A i \in DirsInUse : dirlookup(dinode[i], ".")' = i /\ UpOk(dirlookup(dinode[i], "..")')
    BY <1>12, <2>1, SameDirIs DEF LinkInv, DirsOk
  <2>3. \A i \in Inums : Alive(i)' /\ dinode'[i].type = "dir" => dinode'[i].size > 0
    <3>1. ~Alive(n)  BY DEF Alive
    <3> QED BY <1>9, <1>21, <3>1 DEF LinkInv, DirsOk
  <2> QED BY <1>13, <2>2, <2>3 DEF DirsOk
<1>23. \A q \in Procs : MakingBy(q) # 0 => MakingBy(q) # n /\ MakingBy(q) \in Inums
  BY NewTypeIs, FreeFields DEF LinkInv, MakingOk
<1>24. MakingOk'
  <2>1. ASSUME NEW q \in Procs, MakingBy(q)' # 0
        PROVE  MakingBy(q)' \in Inums /\ dinode'[MakingBy(q)'] = Free(NewType(q)') /\ \A r \in Procs : r # q => MakingBy(r)' # MakingBy(q)'
    <3>1. CASE q = p
      <4>1. NewType(p)' = NewType(p)  BY <1>2 DEF NewType
      <4>2. \A r \in Procs : r # p => MakingBy(r)' # n  BY <1>17, <1>23, Consts
      <4> QED BY <1>9, <1>16, <3>1, <4>1, <4>2
    <3>2. CASE q # p
      <4>1. call'[q] = call[q]  BY <1>3, <3>2 DEF Only, Same
      <4>2. NewType(q)' = NewType(q)  BY <4>1 DEF NewType
      <4>3. MakingBy(q)' = MakingBy(q) /\ MakingBy(q) # n /\ MakingBy(q) \in Inums  BY <1>17, <1>23, <2>1, <3>2
      <4>4. dinode[MakingBy(q)] = Free(NewType(q)) /\ \A r \in Procs : r # q => MakingBy(r) # MakingBy(q)
        BY <2>1, <4>3, Consts DEF LinkInv, MakingOk
      <4>5. \A r \in Procs : r # q => MakingBy(r)' # MakingBy(q)  BY <1>16, <1>17, <4>3, <4>4
      <4> QED BY <1>9, <4>2, <4>3, <4>4, <4>5
    <3> QED BY <3>1, <3>2
  <2> QED BY <2>1 DEF MakingOk, Free
<1>25. LiveFrom(p) /\ PtrsFrom(p)  BY <1>1, <1>2 DEF LiveFrom, PtrsFrom, Live, Ptrs
<1>26. LiveOk(p)'  BY <1>8, <1>21, <1>25, LiveKept
<1>27. \A i \in Inums : Alive(i) => dinode'[i].type = dinode[i].type  BY <1>9 DEF Alive
<1>28. \A i \in Inums : (\E q \in Procs : q # p /\ \E t \in Live(q) : t # None /\ Num(t) = i) => Survives(i)
  <2>1. \A q \in Procs : \A t \in Live(q) : t # None => Alive(Num(t))  BY DEF LinkInv, RegLive, LiveOk
  <2> QED BY <1>21, <1>27, <2>1 DEF Survives
<1>29. \A i \in Inums : dinode'[i].nlink = dinode[i].nlink  BY <1>9, <1>11
<1>30. Kinds(p)'
  <2>1. DirAt(cwd[p])'  BY <1>2, <1>8, <1>27, CwdSame
  <2>2. Num(at[p]) # n  BY <1>6 DEF DirAt
  <2>3. DirAt(dp[p])'  BY <1>1, <1>2, <1>6, <1>8, <1>9, <2>2 DEF DirAt, Num, KeepsNums
  <2>4. skipelem(p)' \in Names  BY <1>2, <1>7 DEF skipelem
  <2> QED BY <1>2, <1>4, <1>5, <2>1, <2>3, <2>4 DEF Kinds
<1> QED BY <1>3, <1>8, <1>14, <1>16, <1>20, <1>22, <1>24, <1>25, <1>26, <1>28, <1>29, <1>30, DiskLinks

LEMMA Create1Links == ASSUME FsInv, FsInv', BlocksInv, LinkInv, UpLive, NEW p \in Procs, create1(p) PROVE LinkInv'
<1>1. ilock(p, "create1", at[p]) /\ UNCHANGED <<bitmap, data, cwd, ofile, call, path, ip>>  BY DEF create1
<1>2. pc[p] = "create1" /\ K(p) = "create1" /\ at[p] \in Slots /\ icache[at[p]].ref > 0 /\ Loaded(at[p]).d.type # "free"
      /\ Loaded(at[p]).d = dinode[Num(at[p])]
  BY <1>1, LockedAt DEF AtSteps, Num
<1>3. ASSUME NEW i, i = dirlookup(Loaded(at[p]).d, skipelem(p)), i # 0, HasSlot(icache, i),
             icache' = iget(Seen(icache, at[p], 0), i), at' = [at EXCEPT ![p] = SlotOf(icache, i)],
             Put(p, at[p], "create2"), UNCHANGED <<dinode, dp, inum>>
      PROVE  LinkInv'
  <2>1. DirAt(at[p])  BY <1>2 DEF LinkInv, RegLive, Kinds
  <2>2. i \in Inums /\ Found(i)  BY <1>2, <1>3, <2>1, LookupFound DEF LooksUp
  <2>3. PICK t : t = SlotOf(icache, i)  OBVIOUS
  <2>4. KeepsNums /\ t \in Slots /\ icache'[t].inum = i  BY <1>2, <1>3, <2>2, <2>3, KeepSeenGet
  <2>5. Found(icache'[t].inum)  BY <2>2, <2>4
  <2> QED BY <1>1, <1>2, <1>3, <2>3, <2>4, <2>5, Create1FoundLinks DEF disk
<1>4. PICK n : n = Least(FreeInodes)  OBVIOUS
<1>5. CASE /\ dirlookup(Loaded(at[p]).d, skipelem(p)) = 0 /\ FreeInodes # {} /\ icache' = Seen(icache, at[p], p)
           /\ dinode' = [dinode EXCEPT ![n] = Free(NewType(p))] /\ dp' = [dp EXCEPT ![p] = at[p]]
           /\ at' = [at EXCEPT ![p] = None] /\ inum' = [inum EXCEPT ![p] = n] /\ Goto(p, "ialloc")
  <2>1. n \in Inums /\ dinode[n].type = "free"
    <3>1. FreeInodes \in SUBSET Nat  BY Consts DEF FreeInodes
    <3>2. n \in FreeInodes  BY <1>4, <1>5, <3>1, LeastIn
    <3> QED BY <3>2 DEF FreeInodes
  <2> QED BY <1>1, <1>5, <2>1, Create1AllocLinks
<1> QED BY <1>3, <1>4, <1>5 DEF create1

MadeAs(j, e, n, dir) ==
  /\ DirsInUse' = DirsInUse \union (IF dir THEN {n} ELSE {})
  /\ \A i \in DirsInUse, f \in {".", ".."} : dirlookup(dinode[i], f)' = dirlookup(dinode[i], f)
  /\ dir => dirlookup(dinode[n], ".")' = n /\ dirlookup(dinode[n], "..")' = j
  /\ Tree'[j][e] = n
  /\ \A k \in Inums, f \in Names : k # j \/ f # e => Tree'[k][f] = Tree[k][f]
LEMMA MadeTree ==
  ASSUME FsInv, BlocksInv, NEW j \in DirsInUse, NEW n \in Inums, n \notin DirsInUse, NEW e \in Names, NEW dir \in BOOLEAN,
         dinode'[j].type = dinode[j].type, dinode'[j].size = dinode[j].size, dinode'[j].addrs = dinode[j].addrs,
         \A i \in Inums : i # j /\ i # n => dinode'[i] = dinode[i], NEW b,
         dir => dinode'[n].type = "dir" /\ dinode'[n].size > 0 /\ dinode'[n].addrs[0] = b /\ b \in Blocks /\ b \notin bitmap,
         ~dir => dinode'[n].type # "dir",
         NEW dt \in [Blocks -> Block], dir => dt[b] = Dots(n, j),
         \A k \in DirsInUse : dt[dinode[k].addrs[0]] = data[dinode[k].addrs[0]],
         NEW d, d.addrs[0] = dinode[j].addrs[0], data' = SetEntry(dt, d, e, n)
  PROVE  MadeAs(j, e, n, dir)
<1>0. data \in [Blocks -> Block] /\ e \in Elems /\ e \notin {".", ".."} /\ "." \in Elems /\ ".." \in Elems /\ Names \subseteq Elems
      /\ "." \notin Names /\ ".." \notin Names /\ j # n
  BY FsAssumption DEF FsInv, DiskType, Elems
<1>1. EntrySet(dt, d, e, n, data')  BY <1>0, SetEntryIs
<1>2. /\ j \in Inums /\ d.addrs[0] \in Blocks /\ \A k \in DirsInUse : k # j => dinode[k].addrs[0] # d.addrs[0]
      /\ d.addrs[0] \in bitmap
  <2>1. j \in Inums /\ d.addrs[0] \in Blocks /\ d.addrs[0] \in OwnedIn(dinode[j], data)
        /\ \A k \in DirsInUse : k # j => dinode[k].addrs[0] # d.addrs[0]
    BY FirstBlock
  <2> QED BY <2>1 DEF BlocksInv, BlocksIn
<1>3. ASSUME NEW k \in Inums, k # j, k # n PROVE SameDir(k)
  <2>1. k \in DirsInUse => dinode[k].addrs[0] \in Blocks /\ dinode[k].addrs[0] # d.addrs[0]  BY <1>2, <1>3, FirstBlock
  <2>2. k \in DirsInUse => data'[dinode[k].addrs[0]] = data[dinode[k].addrs[0]]  BY <1>1, <2>1 DEF EntrySet
  <2> QED BY <1>3, <2>2 DEF SameDir
<1>4. j \in DirsInUse' /\ (n \in DirsInUse' <=> dir)  BY <1>2 DEF DirsInUse
<1>5. \A k \in Inums : k # j /\ k # n => (k \in DirsInUse' <=> k \in DirsInUse)  BY <1>3, SameDirIs
<1>6. DirsInUse' = DirsInUse \union (IF dir THEN {n} ELSE {})
  <2>1. DirsInUse \subseteq Inums /\ DirsInUse' \subseteq Inums  BY DEF DirsInUse
  <2> QED BY <1>4, <1>5, <2>1
<1>7. data'[d.addrs[0]].ents = [data[d.addrs[0]].ents EXCEPT ![e] = n] /\ data[d.addrs[0]].ents \in [Elems -> {0} \union Inums]
  <2>1. dt[d.addrs[0]] = data[d.addrs[0]]  OBVIOUS
  <2> QED BY <1>0, <1>1, <1>2, <2>1, BlockFields DEF EntrySet
<1>8. \A f : dirlookup(dinode[j], f)' = data'[d.addrs[0]].ents[f]
  <2>1. dinode'[j].size # 0 /\ dinode'[j].addrs[0] = d.addrs[0]  BY DEF DirsInUse
  <2> QED BY <2>1 DEF dirlookup
<1>9. \A f : dirlookup(dinode[j], f) = data[d.addrs[0]].ents[f]
  <2>1. dinode[j].size # 0  BY DEF DirsInUse
  <2> QED BY <2>1 DEF dirlookup
<1>10. dirlookup(dinode[j], e)' = n /\ \A f \in Elems : f # e => dirlookup(dinode[j], f)' = dirlookup(dinode[j], f)
  BY <1>0, <1>7, <1>8, <1>9
<1>11. \A f \in Names : Tree'[j][f] = dirlookup(dinode[j], f)'  BY <1>2, <1>4 DEF Tree
<1>12. \A f \in Names : Tree[j][f] = dirlookup(dinode[j], f)  BY <1>2 DEF Tree
<1>13. dir => /\ dirlookup(dinode[n], ".")' = n /\ dirlookup(dinode[n], "..")' = j
              /\ \A f \in Names : dirlookup(dinode[n], f)' = 0
  <2>1. Dots(n, j).ents["."] = n /\ Dots(n, j).ents[".."] = j /\ \A f \in Names : Dots(n, j).ents[f] = 0
    BY <1>0 DEF Dots, Zero
  <2>2. dir => data'[b] = Dots(n, j)  BY <1>1, <1>2 DEF EntrySet
  <2>3. dir => \A f : dirlookup(dinode[n], f)' = data'[b].ents[f]  BY DEF dirlookup
  <2> QED BY <2>1, <2>2, <2>3
<1>14. \A f \in Names : Tree'[n][f] = 0 /\ Tree[n][f] = 0
  BY <1>4, <1>13 DEF Tree
<1>15. \A k \in Inums, f \in Names : k # j \/ f # e => Tree'[k][f] = Tree[k][f]
  BY <1>0, <1>3, <1>10, <1>11, <1>12, <1>14, SameDirIs
<1>16. \A i \in DirsInUse, f \in {".", ".."} : dirlookup(dinode[i], f)' = dirlookup(dinode[i], f)
  <2>1. \A i \in DirsInUse : i \in Inums /\ i # n  BY DEF DirsInUse
  <2> QED BY <1>0, <1>3, <1>10, <2>1, SameDirIs
<1> QED BY <1>6, <1>10, <1>11, <1>13, <1>15, <1>16 DEF MadeAs

LEMMA MadeLinks ==
  ASSUME FsInv, FsInv', BlocksInv, LinkInv, NEW p \in Procs, pc[p] = "create3", KeepsNums, NEW dir \in BOOLEAN,
         MadeAs(Num(dp[p]), skipelem(p), Num(at[p]), dir), dir <=> NewType(p) = "dir", dir => UpOk(Num(dp[p])),
         dinode'[Num(at[p])].type = NewType(p), dinode'[Num(at[p])].nlink = 1, dir => dinode'[Num(at[p])].size > 0,
         dinode'[Num(dp[p])].type = dinode[Num(dp[p])].type, dinode'[Num(dp[p])].size = dinode[Num(dp[p])].size,
         dinode'[Num(dp[p])].nlink = dinode[Num(dp[p])].nlink + (IF dir THEN 1 ELSE 0),
         \A i \in Inums : i # Num(dp[p]) /\ i # Num(at[p]) => dinode'[i] = dinode[i],
         dp' = [dp EXCEPT ![p] = None], Put(p, dp[p], "create4"), UNCHANGED <<cwd, ofile, call, path, at, ip, inum>>
  PROVE  LinkInv'
<1>0. RegType /\ RegsOk(p) /\ Kinds(p)  BY DEF FsInv, LinkInv, RegLive
<1>1. /\ K(p) = "create3" /\ dp[p] \in Slots /\ icache[dp[p]].ref > 0 /\ icache[dp[p]].lock = p /\ Num(dp[p]) \in Inums
  BY HeldDp DEF DpSteps, Num
<1>2. ip[p] = None /\ at[p] # None /\ dp[p] # None  BY <1>0, <1>1 DEF RegsOk, AtSteps, DpSteps
<1>3. at[p] \in Slots /\ icache[at[p]].ref > 0 /\ Num(at[p]) \in Inums  BY <1>2, PointerSlot DEF Ptrs
<1>a. PICK n \in Inums, j \in Inums : n = Num(at[p]) /\ j = Num(dp[p])  BY <1>1, <1>3
<1> USE DEF Put
<1>4. /\ pc'[p] = "iput" /\ ret'[p] = "create4" /\ put'[p] = dp[p] /\ at'[p] = at[p]
      /\ ofile'[p] = ofile[p] /\ cwd'[p] = cwd[p] /\ ip'[p] = ip[p] /\ dp'[p] = None
  BY <1>0 DEF RegType
<1>5. Only(p)  BY <1>0 DEF Only, Same, RegType
<1>6. K(p)' = "create4"  BY <1>4 DEF K, Iput
<1>7. DirAt(dp[p]) /\ skipelem(p) \in Names  BY <1>0, <1>2 DEF Kinds
<1>8. Alive(j)  BY <1>a, <1>2 DEF LinkInv, RegLive, LiveOk, Live
<1>9. j \in DirsInUse  BY <1>a, <1>7, <1>8, AliveDir DEF DirAt
<1>10. MakingBy(p) = n /\ MakingBy(p)' = 0 /\ Sole(p)' /\ n # 0  BY <1>a, <1>4, Consts DEF MakingBy, Sole
<1>11. dinode[n] = Free(NewType(p)) /\ \A q \in Procs : q # p => MakingBy(q) # n
  BY <1>10 DEF LinkInv, MakingOk
<1>12. n \notin DirsInUse /\ dinode[n].nlink = 0 /\ dinode[n].type = NewType(p) /\ n # j
  <2>1. dinode[n].size = 0 /\ dinode[n].nlink = 0 /\ dinode[n].type = NewType(p)  BY <1>11, FreeFields
  <2> QED BY <1>9, <2>1 DEF DirsInUse
<1>13. \A q \in Procs : q # p => MakingBy(q)' = MakingBy(q)  BY <1>5, PendStep
<1>14. Pending(p) = 0 /\ Pending(p)' = 0  BY <1>1, <1>2, <1>4, <1>6 DEF Pending, PendSlot
<1>15. Pend' = Pend
  <2>1. \A q \in Procs : Pend'[q] = Pend[q]  BY <1>5, <1>14, PendStep
  <2>2. Pend = [q \in Procs |-> Pend[q]] /\ Pend' = [q \in Procs |-> Pend'[q]]  BY DEF Pend
  <2> QED BY <2>1, <2>2
<1>16. /\ NLinks[n] = 0 /\ NLinks'[n] = 1 /\ NLinks'[j] = NLinks[j] + (IF dir THEN 1 ELSE 0)
       /\ \A k \in Inums : k # j /\ k # n => NLinks'[k] = NLinks[k]
  BY <1>a, <1>12 DEF NLinks
<1>17. MadeAs(j, skipelem(p), n, dir)  BY <1>a
<1>18. LinksOk(Tree', DirsInUse', NLinks', Pend')
  <2>1. DirsInUse' = DirsInUse \union (IF dir THEN {n} ELSE {}) /\ Tree'[j][skipelem(p)] = n
        /\ \A k \in Inums, f \in Names : k # j \/ f # skipelem(p) => Tree'[k][f] = Tree[k][f]
    BY <1>17 DEF MadeAs
  <2>2. LinksType(Tree', DirsInUse', NLinks', Pend)  BY <1>15, LinksTypedNext
  <2>3. LinksOk(Tree, DirsInUse, NLinks, Pend)  BY DEF LinkInv
  <2>4. n \in Inums \ DirsInUse  BY <1>12
  <2>5. LinksOk(Tree', DirsInUse', NLinks', Pend)
    BY <1>7, <1>9, <1>16, <2>1, <2>2, <2>3, <2>4, LinksMade
  <2> QED BY <1>15, <2>5
<1>19. \A i \in Inums : Alive(i) => dinode'[i].type = dinode[i].type /\ dinode'[i].size = dinode[i].size
  <2>1. ~Alive(n)  BY <1>10 DEF Alive
  <2> QED BY <1>a, <2>1
<1>20. \A i \in Inums : i # n => (Alive(i)' <=> Alive(i))
  <2> TAKE i \in Inums
  <2> HAVE i # n
  <2>1. dinode'[i].type = dinode[i].type  BY <1>a
  <2>2. MakingBy(p) # i /\ MakingBy(p)' # i  BY <1>10, Consts
  <2> QED BY <1>13, <2>1, <2>2 DEF Alive
<1>21. Alive(n)'
  <2>1. dinode'[n].type # "free"  BY <1>a, NewTypeIs
  <2>2. \A q \in Procs : MakingBy(q)' # n  BY <1>10, <1>11, <1>13
  <2> QED BY <2>1, <2>2 DEF Alive
<1>22. DirsOk'
  <2>1. \A i \in DirsInUse' : dirlookup(dinode[i], ".")' = i /\ UpOk(dirlookup(dinode[i], "..")')
    BY <1>a, <1>17 DEF MadeAs, LinkInv, DirsOk
  <2>2. \A i \in Inums : Alive(i)' /\ dinode'[i].type = "dir" => dinode'[i].size > 0
    <3> TAKE i \in Inums
    <3>1. CASE i = n  BY <1>a, <3>1
    <3>2. CASE i # n  BY <1>19, <1>20, <3>2 DEF LinkInv, DirsOk
    <3> QED BY <3>1, <3>2
  <2> QED BY <2>1, <2>2 DEF DirsOk
<1>23. MakingOk'
  <2>1. ASSUME NEW q \in Procs, MakingBy(q)' # 0
        PROVE  MakingBy(q)' \in Inums /\ dinode'[MakingBy(q)'] = Free(NewType(q)') /\ \A r \in Procs : r # q => MakingBy(r)' # MakingBy(q)'
    <3>1. q # p  BY <1>10, <2>1
    <3>2. call'[q] = call[q] /\ MakingBy(q)' = MakingBy(q)  BY <1>5, <1>13, <3>1 DEF Only, Same
    <3>3. NewType(q)' = NewType(q)  BY <3>2 DEF NewType
    <3>4. MakingBy(q) \in Inums /\ dinode[MakingBy(q)] = Free(NewType(q)) /\ \A r \in Procs : r # q => MakingBy(r) # MakingBy(q)
      BY <2>1, <3>2 DEF LinkInv, MakingOk
    <3>5. MakingBy(q) # n /\ MakingBy(q) # j  BY <1>8, <1>11, <3>1 DEF Alive
    <3>6. \A r \in Procs : r # q => MakingBy(r)' # MakingBy(q)  BY <1>10, <1>13, <2>1, <3>2, <3>4
    <3> QED BY <1>a, <3>2, <3>3, <3>4, <3>5, <3>6
  <2> QED BY <2>1 DEF MakingOk, Free
<1>24. PtrsFrom(p)  BY <1>4 DEF PtrsFrom, Ptrs
<1>25. LiveOk(p)'
  <2> SUFFICES ASSUME NEW s \in Live(p)', s # None PROVE Alive(Num(s))'  BY DEF LiveOk
  <2>1. s = at[p] \/ s \in Live(p)  BY <1>4 DEF Live
  <2>2. s \in Slots /\ icache[s].ref > 0 /\ Num(s) \in Inums  BY <1>3, <2>1, PointerSlot
  <2>3. PICK i \in Inums : i = Num(s)  BY <2>2
  <2>4. i = n \/ Alive(i)  BY <1>a, <2>1, <2>3 DEF LinkInv, RegLive, LiveOk
  <2>5. Alive(i)' /\ i = Num(s)'  BY <1>20, <1>21, <2>2, <2>3, <2>4 DEF KeepsNums, Num
  <2> QED BY <2>5 DEF Alive
<1>26. \A i \in Inums : (\E q \in Procs : q # p /\ \E t \in Live(q) : t # None /\ Num(t) = i) => Survives(i)
  <2>1. \A q \in Procs : \A t \in Live(q) : t # None => Alive(Num(t))  BY DEF LinkInv, RegLive, LiveOk
  <2> QED BY <1>19, <1>20, <1>21, <2>1 DEF Survives
<1>27. \A q \in Procs, i \in Inums : q # p /\ pc[q] = "free" /\ i = Num(put[q]) => dinode'[i].nlink = dinode[i].nlink
  <2>1. at[p] \in Ptrs(p) /\ dp[p] \in Ptrs(p)  BY DEF Ptrs
  <2>2. \A q \in Procs : q # p /\ pc[q] = "free" => Num(put[q]) # n /\ Num(put[q]) # j  BY <1>a, <1>2, <2>1, NotFreed
  <2> QED BY <1>a, <2>2
<1>28. \A q \in Procs, i \in Inums, e \in Names :
         q # p /\ pc[q] = "unlink2" /\ i = Num(dp[q]) /\ e = skipelem(q) => Tree'[i][e] = Tree[i][e]
  <2>1. \A q \in Procs : q # p /\ pc[q] = "unlink2" => Num(dp[q]) # j  BY <1>a, <1>1, OtherDp
  <2> QED BY <1>17, <2>1 DEF MadeAs
<1>29. DirAt(cwd[p])'  BY <1>4, <1>19, CwdSame
<1>30. Kinds(p)'  BY <1>2, <1>4, <1>6, <1>29 DEF Kinds
<1> QED BY <1>5, <1>10, <1>18, <1>22, <1>23, <1>24, <1>25, <1>26, <1>27, <1>28, <1>30, DiskLinks

LEMMA Create3Links ==
  ASSUME FsInv, FsInv', BlocksInv, LinkInv, NEW p \in Procs, create3(p), NewType(p) = "dir" => UpOk(Num(dp[p]))
  PROVE  LinkInv'
<1> DEFINE s   == at[p]
           n   == icache[s].inum
           m   == icache[dp[p]].inum
           up  == icache[dp[p]].d
           dir == NewType(p) = "dir"
           new == [Loaded(s).d EXCEPT !.nlink = 1]
           w   == writei(new, Space)
           d   == IF dir THEN w.d ELSE new
           l   == IF dir THEN up.nlink + 1 ELSE up.nlink
           u   == [up EXCEPT !.nlink = l]
           dt  == IF dir THEN [w.sp.data EXCEPT ![d.addrs[0]] = Dots(n, m)] ELSE data
<1>1. ilock(p, "create3", s) /\ UNCHANGED <<cwd, ofile, call, path, at, ip, inum>>  BY DEF create3
<1>2. /\ pc[p] = "create3" /\ K(p) = "create3" /\ s \in Slots /\ icache[s].ref > 0 /\ icache[s].lock = 0
      /\ Loaded(s).d.type # "free" /\ n \in Inums /\ Loaded(s).d \in Inode /\ Loaded(s).d = dinode[n]
  BY <1>1, LockedAt DEF AtSteps
<1>3. /\ dp[p] \in Slots /\ icache[dp[p]].ref > 0 /\ icache[dp[p]].lock = p /\ icache[dp[p]].valid = TRUE /\ m \in Inums
      /\ up = dinode[m] /\ up.type # "free" /\ up \in Inode
  BY <1>2, HeldDp DEF DpSteps
<1>4. s # dp[p]  BY <1>2, <1>3, Consts
<1>5. m # n  BY <1>2, <1>3, <1>4 DEF FsInv, Good, Unique
<1>6. /\ dir => new.size = 0 /\ Room(new, Space)
      /\ data' = SetEntry(dt, up, skipelem(p), n)
      /\ dinode' = iupdate(iupdate(dinode, s, d), dp[p], u)
      /\ icache' = [With(icache, s, d, p) EXCEPT ![dp[p]].d = u, ![dp[p]].lock = 0]
      /\ dp' = [dp EXCEPT ![p] = None]
      /\ Put(p, dp[p], "create4")
  BY DEF create3
<1>7. Kinds(p) /\ skipelem(p) \in Names /\ m \in DirsInUse
  <2>1. Kinds(p) /\ LiveOk(p) /\ RegsOk(p)  BY DEF LinkInv, RegLive, FsInv
  <2>2. dp[p] # None  BY <1>2, <2>1 DEF RegsOk, DpSteps
  <2>3. Alive(m) /\ dinode[m].type = "dir"  BY <2>1, <2>2 DEF Kinds, LiveOk, Live, DirAt, Num
  <2> QED BY <1>2, <1>3, <2>1, <2>3, AliveDir DEF Kinds
<1>8. dinode[n] = Free(NewType(p)) /\ dinode[n].size = 0 /\ dinode[n].type = NewType(p) /\ n \notin DirsInUse
  <2>1. MakingBy(p) = n /\ n # 0  BY <1>2, Consts DEF MakingBy, Num
  <2>2. dinode[n] = Free(NewType(p))  BY <2>1 DEF LinkInv, MakingOk
  <2>3. dinode[n].size = 0 /\ dinode[n].type = NewType(p)  BY <2>2, FreeFields
  <2> QED BY <2>2, <2>3 DEF DirsInUse
<1>9. /\ new \in Inode /\ new.type = NewType(p) /\ new.addrs = dinode[n].addrs /\ new.size = 0 /\ new.nlink = 1
      /\ new.size = dinode[n].size
  <2>1. /\ new \in Inode /\ new.type = Loaded(s).d.type /\ new.size = Loaded(s).d.size /\ new.addrs = Loaded(s).d.addrs
        /\ new.nlink = 1
    BY <1>2, NlinkOnly
  <2> HIDE DEF new
  <2> QED BY <1>2, <1>8, <2>1
<1>10. l \in Int /\ l = up.nlink + (IF dir THEN 1 ELSE 0)
  <2>1. up.nlink \in Int  BY <1>3, InodeFields
  <2> QED BY <2>1
<1> HIDE DEF new, dir, l
<1>11. u \in Inode /\ u.type = up.type /\ u.size = up.size /\ u.addrs = up.addrs /\ u.nlink = l
  BY <1>3, <1>10, NlinkOnly
<1> HIDE DEF u, up
<1>12. \E b : /\ d \in Inode /\ d.type = NewType(p) /\ d.nlink = 1 /\ dt \in [Blocks -> Block]
              /\ dir => d.size > 0 /\ d.addrs[0] = b /\ b \in Blocks /\ b \notin bitmap /\ dt[b] = Dots(n, m)
              /\ \A k \in DirsInUse : dt[dinode[k].addrs[0]] = data[dinode[k].addrs[0]]
  <2>0. data \in [Blocks -> Block] /\ DiskType /\ BlocksIn(dinode, data, bitmap)  BY DEF FsInv, DiskType, BlocksInv
  <2>1. CASE ~dir
    <3>1. d = new /\ dt = data  BY <2>1
    <3> QED BY <1>9, <2>0, <2>1, <3>1
  <2>2. CASE dir
    <3>0. d = w.d /\ dt = [w.sp.data EXCEPT ![w.d.addrs[0]] = Dots(n, m)]  BY <2>2
    <3> HIDE DEF w, d, dt
    <3>1. new.size = 0 /\ Room(new, Space) /\ 0 < NDIRECT /\ 0 < MAXFILE  BY <1>6, <2>2, Consts DEF MAXFILE
    <3>3. new.size < NDIRECT /\ new.size < MAXFILE  BY <3>1
    <3>4. PICK b : WroteDirect(new, w, b)  BY <1>9, <2>0, <3>1, <3>3, WriteDirect DEF w
    <3>5. /\ b \in Blocks /\ w.d.addrs = [new.addrs EXCEPT ![0] = b] /\ w.d.size = 1 /\ b \notin bitmap /\ w.d.nlink = 1
          /\ w.sp.data \in [Blocks -> Block] /\ w.d.type = new.type /\ w.d \in Inode
      BY <1>9, <3>1, <3>4 DEF WroteDirect
    <3>6. w.d.addrs[0] = b
      <4>1. new.addrs \in [0 .. NDIRECT -> {0} \union Blocks] /\ 0 \in 0 .. NDIRECT  BY <1>9, InodeFields, Consts
      <4> QED BY <3>5, <4>1
    <3>7. Dots(n, m) \in Block  BY <1>2, <1>3, ZeroType
    <3>8. PICK z : z = Dots(n, m)  OBVIOUS
    <3>9. dt = [w.sp.data EXCEPT ![b] = z]  BY <3>0, <3>6, <3>8
    <3>10. dt \in [Blocks -> Block] /\ dt[b] = z /\ \A c \in Blocks : c # b => dt[c] = w.sp.data[c]
      BY <3>5, <3>7, <3>8, <3>9
    <3>11. ASSUME NEW k \in DirsInUse PROVE dt[dinode[k].addrs[0]] = data[dinode[k].addrs[0]]
      <4>1. dinode[k].addrs[0] \in Blocks /\ dinode[k].addrs[0] \in OwnedIn(dinode[k], data) /\ k \in Inums  BY FirstBlock
      <4>2. dinode[k].addrs[0] \in bitmap  BY <2>0, <4>1 DEF BlocksIn
      <4>3. k # n  BY <1>8
      <4>4. w.sp.data[dinode[k].addrs[0]] = data[dinode[k].addrs[0]]  BY <1>2, <1>9, <3>1, <3>3, <4>3, WriteKeepsDirs DEF w
      <4> QED BY <3>5, <3>10, <4>1, <4>2, <4>4
    <3>12. d \in Inode /\ d.type = NewType(p) /\ d.nlink = 1 /\ d.size > 0 /\ d.addrs[0] = b  BY <1>9, <3>0, <3>5, <3>6
    <3> QED BY <3>5, <3>8, <3>10, <3>11, <3>12
  <2> QED BY <2>1, <2>2
<1> HIDE DEF w, d, dt
<1>13. PICK b : /\ d \in Inode /\ d.type = NewType(p) /\ d.nlink = 1 /\ dt \in [Blocks -> Block]
                /\ dir => d.size > 0 /\ d.addrs[0] = b /\ b \in Blocks /\ b \notin bitmap /\ dt[b] = Dots(n, m)
                /\ \A k \in DirsInUse : dt[dinode[k].addrs[0]] = data[dinode[k].addrs[0]]
  BY <1>12
<1>14. dinode'[n] = d /\ dinode'[m] = u /\ \A i \in Inums : i # m /\ i # n => dinode'[i] = dinode[i]
  <2>1. dinode \in [Inums -> Inode]  BY DEF FsInv, Good
  <2> QED BY <1>2, <1>3, <1>5, <1>6, <2>1 DEF iupdate
<1>15. KeepsNums
  <2>1. d.type # "free" /\ u.type # "free" /\ p \in {0} \union Procs  BY <1>2, <1>3, <1>8, <1>11, <1>13
  <2> HIDE DEF s
  <2>2. PICK r \in Slots : r = dp[p]  BY <1>3
  <2>3. icache' = [With(icache, s, d, p) EXCEPT ![r].d = u, ![r].lock = 0]  BY <1>6, <2>2
  <2>4. r # s /\ icache[r].ref > 0 /\ icache[r].valid = TRUE  BY <1>3, <1>4, <2>2
  <2>5. Two(icache, [With(icache, s, d, p) EXCEPT ![r].d = u, ![r].lock = 0], s, d, p, r, u)
    BY <1>2, <1>11, <1>13, <2>1, <2>4, TwoSlots
  <2>6. Two(icache, icache', s, d, p, r, u)  BY <2>3, <2>5
  <2> QED BY <1>2, <2>6 DEF Two, KeepsNums
<1>16. dir \in BOOLEAN /\ (dir <=> NewType(p) = "dir") BY DEF dir
<1>17. MadeAs(m, skipelem(p), n, dir)
  <2>1. PICK nn \in Inums, mm \in DirsInUse : nn = n /\ mm = m  BY <1>2, <1>7
  <2>2. PICK dr \in BOOLEAN : dr = dir  BY <1>16
  <2>3. PICK tt \in [Blocks -> Block] : tt = dt  BY <1>13
  <2>4. PICK uu : uu = up  OBVIOUS
  <2>5. /\ nn \notin DirsInUse /\ dinode'[mm].type = dinode[mm].type /\ dinode'[mm].size = dinode[mm].size
        /\ dinode'[mm].addrs = dinode[mm].addrs /\ uu.addrs[0] = dinode[mm].addrs[0]
        /\ \A i \in Inums : i # mm /\ i # nn => dinode'[i] = dinode[i]
    BY <1>3, <1>8, <1>11, <1>14, <2>1, <2>4
  <2>6. /\ dr => dinode'[nn].type = "dir" /\ dinode'[nn].size > 0 /\ dinode'[nn].addrs[0] = b /\ b \in Blocks /\ b \notin bitmap
        /\ ~dr => dinode'[nn].type # "dir"
        /\ dr => tt[b] = Dots(nn, mm)
    BY <1>13, <1>14, <1>16, <2>1, <2>2, <2>3
  <2>7. \A k \in DirsInUse : tt[dinode[k].addrs[0]] = data[dinode[k].addrs[0]]  BY <1>13, <2>3
  <2>8. data' = SetEntry(tt, uu, skipelem(p), nn)  BY <1>6, <2>1, <2>3, <2>4
  <2>9. MadeAs(mm, skipelem(p), nn, dr)  BY <1>7, <2>5, <2>6, <2>7, <2>8, MadeTree
  <2> QED BY <2>1, <2>2, <2>9
<1>18. /\ dinode'[Num(at[p])].type = NewType(p) /\ dinode'[Num(at[p])].nlink = 1 /\ (dir => dinode'[Num(at[p])].size > 0)
       /\ dinode'[Num(dp[p])].type = dinode[Num(dp[p])].type /\ dinode'[Num(dp[p])].size = dinode[Num(dp[p])].size
       /\ dinode'[Num(dp[p])].nlink = dinode[Num(dp[p])].nlink + (IF dir THEN 1 ELSE 0)
       /\ \A i \in Inums : i # Num(dp[p]) /\ i # Num(at[p]) => dinode'[i] = dinode[i]
       /\ MadeAs(Num(dp[p]), skipelem(p), Num(at[p]), dir)
  BY <1>3, <1>10, <1>11, <1>13, <1>14, <1>17 DEF Num
<1> QED BY <1>1, <1>2, <1>6, <1>15, <1>16, <1>18, MadeLinks

LEMMA SameLinks == ASSUME LinkInv, UNCHANGED vars PROVE LinkInv'
<1> USE DEF vars
<1>1. DirsInUse' = DirsInUse /\ NLinks' = NLinks  BY DEF DirsInUse, NLinks
<1>2. Tree' = Tree  BY <1>1 DEF Tree, dirlookup
<1>3. \A p : K(p)' = K(p) /\ MakingBy(p)' = MakingBy(p)  BY DEF K, MakingBy, Num
<1>4. \A p : PendSlot(p)' = PendSlot(p)  BY <1>3 DEF PendSlot
<1>5. Pend' = Pend  BY <1>4 DEF Pend, Pending, Num
<1>6. \A i : Alive(i)' <=> Alive(i)  BY <1>3 DEF Alive
<1>7. DirsOk'  BY <1>1, <1>6 DEF LinkInv, DirsOk, dirlookup
<1>8. MakingOk'  BY <1>3 DEF LinkInv, MakingOk, NewType
<1>9. ASSUME NEW p \in Procs PROVE RegLive(p)'
  <2>1. LiveOk(p) /\ Sole(p) /\ Kinds(p)  BY DEF LinkInv, RegLive
  <2>2. LiveOk(p)'  BY <1>6, <2>1 DEF LiveOk, Live, Num
  <2>3. Sole(p)'  BY <2>1 DEF Sole, Ptrs, Num
  <2>4. Kinds(p)'  BY <1>2, <1>3, <2>1 DEF Kinds, DirAt, Num, skipelem
  <2> QED BY <2>2, <2>3, <2>4 DEF RegLive
<1> QED BY <1>1, <1>2, <1>5, <1>7, <1>8, <1>9 DEF LinkInv

-----------------------------------------------------------------------------
(***************************************************************************)
(* The directory that mkdir works in is the root, where TopDirs holds.     *)
(***************************************************************************)
\* A slot in use keeps its inode in every step.
LEMMA LookNums ==
  ASSUME FsInv, NEW p \in Procs,
         open1(p) \/ chdir1(p) \/ create2(p) \/ fileread(p) \/ filestat(p) \/ end_op(p) \/ link3(p) \/ UnlockDp(p) \/ create4(p)
  PROVE  KeepsNums
<1>1. CASE open1(p) \/ chdir1(p) \/ create2(p)
  <2>1. PICK l \in {"open1", "chdir1", "create2"} : ilock(p, l, at[p])  BY <1>1 DEF open1, chdir1, create2
  <2>2. icache' = Seen(icache, at[p], 0)  BY <1>1 DEF open1, chdir1, create2
  <2>3. at[p] \in Slots /\ icache[at[p]].ref > 0 /\ Loaded(at[p]).d.type # "free"  BY <2>1, LockedAt DEF AtSteps
  <2> QED BY <2>2, <2>3, KeepSeen
<1>2. CASE fileread(p) \/ filestat(p)
  <2>1. PICK l \in {"read", "stat"} : ilock(p, l, ofile[p])  BY <1>2 DEF fileread, filestat
  <2>2. icache' = Seen(icache, ofile[p], 0)  BY <1>2 DEF fileread, filestat, Look
  <2>3. ofile[p] \in Slots /\ icache[ofile[p]].ref > 0 /\ Loaded(ofile[p]).d.type # "free"  BY <2>1, LockedFile
  <2> QED BY <2>2, <2>3, KeepSeen
<1>3. CASE end_op(p) \/ link3(p)  BY <1>3, KeepSame DEF end_op, link3
<1>4. CASE UnlockDp(p)
  <2>1. dp[p] \in Slots  BY <1>4, HeldDp DEF UnlockDp, InStep, DpSteps
  <2> QED BY <1>4, <2>1, KeepLock DEF UnlockDp
<1>5. CASE create4(p)
  <2>1. at[p] \in Slots  BY <1>5, HeldAt DEF create4, InStep
  <2> QED BY <1>5, <2>1, KeepLock DEF create4
<1> QED BY <1>1, <1>2, <1>3, <1>4, <1>5

LEMMA IputNums == ASSUME FsInv, NEW p \in Procs, iput(p) \/ IputFree(p) \/ IputDrop(p) PROVE KeepsNums
<1>0. put[p] \in Slots /\ icache \in CacheType  BY InIput, RefNat DEF Iput, iput, IputFree, IputDrop, InStep
<1>1. CASE iput(p)
  <2>1. CASE LastUse(put[p])  BY <1>0, <1>1, <2>1, KeepLock DEF iput
  <2>2. CASE ~LastUse(put[p])  BY <1>1, <2>2, KeepSame DEF iput
  <2> QED BY <2>1, <2>2
<1>2. CASE IputFree(p)
  <2>1. icache' = [icache EXCEPT ![put[p]] = [@ EXCEPT !.valid = FALSE, !.lock = 0, !.d = Free("free")]]
    BY <1>2 DEF IputFree
  <2>2. Cleared(icache, icache', put[p])  BY <1>0, <2>1, RefNat, FreeCleared
  <2> QED BY <1>0, <2>2 DEF Cleared, KeepsNums
<1>3. CASE IputDrop(p)
  BY <1>0, <1>3 DEF IputDrop, KeepsNums, CacheType
<1> QED BY <1>1, <1>2, <1>3

\* A step that begins with ilock, and what it looks up.
LEMMA FoundNums ==
  ASSUME FsInv, NEW p \in Procs, NEW l \in {"namex", "link2", "unlink1", "create1"}, ilock(p, l, at[p]), NEW h \in {0, p},
         l = "namex" => path[p] # <<>>,
         NEW i, i # 0, i = dirlookup(Loaded(at[p]).d, skipelem(p)), HasSlot(icache, i),
         icache' = iget(Seen(icache, at[p], h), i)
  PROVE  KeepsNums
<1>1. /\ at[p] \in Slots /\ icache[at[p]].ref > 0 /\ Loaded(at[p]).d.type # "free" /\ K(p) = l
      /\ Loaded(at[p]).d = dinode[icache[at[p]].inum] /\ icache[at[p]].inum \in Inums
  BY LockedAt DEF AtSteps
<1>2. skipelem(p) \in Elems  BY <1>1, SkipElem
<1>3. i \in Inums  BY <1>1, <1>2, LookupType
<1>4. PICK t : t = SlotOf(icache, i)  OBVIOUS
<1> QED BY <1>1, <1>3, <1>4, KeepSeenGet

LEMMA LookupNums == ASSUME FsInv, NEW p \in Procs, namex(p) \/ link2(p) \/ unlink1(p) \/ create1(p) PROVE KeepsNums
<1>1. PICK l \in {"namex", "link2", "unlink1", "create1"} : ilock(p, l, at[p]) /\ (l = "namex" => path[p] # <<>>)
  BY DEF namex, link2, unlink1, create1
<1>2. at[p] \in Slots /\ icache[at[p]].ref > 0 /\ Loaded(at[p]).d.type # "free"  BY <1>1, LockedAt DEF AtSteps
<1>3. CASE icache' = Seen(icache, at[p], 0) \/ icache' = Seen(icache, at[p], p)  BY <1>2, <1>3, KeepSeen
<1>4. ASSUME NEW h \in {0, p}, NEW i, i # 0, i = dirlookup(Loaded(at[p]).d, skipelem(p)), HasSlot(icache, i),
             icache' = iget(Seen(icache, at[p], h), i)
      PROVE  KeepsNums
  BY <1>1, <1>4, FoundNums
<1>5. CASE namex(p)
  <2>1. ASSUME NEW i, i = (IF Loaded(at[p]).d.type = "dir" THEN dirlookup(Loaded(at[p]).d, skipelem(p)) ELSE 0),
               i # 0, HasSlot(Seen(icache, at[p], 0), i), icache' = iget(Seen(icache, at[p], 0), i)
        PROVE  KeepsNums
    <3>1. i = dirlookup(Loaded(at[p]).d, skipelem(p))  BY <2>1
    <3>2. HasSlot(icache, i)  BY <1>2, <2>1, SeenSlot
    <3> QED BY <1>4, <2>1, <3>1, <3>2
  <2> QED BY <1>3, <1>5, <2>1 DEF namex
<1>6. CASE link2(p)  BY <1>3, <1>4, <1>6 DEF link2
<1>7. CASE unlink1(p)  BY <1>3, <1>4, <1>7 DEF unlink1
<1>8. CASE create1(p)  BY <1>3, <1>4, <1>8 DEF create1
<1> QED BY <1>5, <1>6, <1>7, <1>8

IsSlot(x) == x = [inum |-> x.inum, ref |-> x.ref, valid |-> x.valid, lock |-> x.lock, d |-> x.d]
LEMMA WithNums ==
  ASSUME FsInv, NEW s \in Slots, NEW d, NEW h
  PROVE  /\ DOMAIN With(icache, s, d, h) = Slots
         /\ \A x \in Slots : With(icache, s, d, h)[x].inum = icache[x].inum /\ IsSlot(With(icache, s, d, h)[x])
<1>0. icache \in CacheType  BY RefNat
<1>1. \A x \in Slots : IsSlot(icache[x])  BY <1>0, SlotFields DEF IsSlot
<1>2. DOMAIN icache = Slots /\ icache = [x \in Slots |-> icache[x]]  BY <1>0 DEF CacheType
<1>3. IsSlot(Loaded(s)) /\ Loaded(s).inum = icache[s].inum
  <2>1. PICK w, e : w = icache[s] /\ e = dinode[icache[s].inum]  OBVIOUS
  <2>2. IsSlot(w)  BY <1>1, <2>1
  <2>3. PICK y : y = [w EXCEPT !.valid = TRUE, !.d = e]  OBVIOUS
  <2>4. IsSlot(y) /\ y.inum = w.inum  BY <2>2, <2>3 DEF IsSlot
  <2>5. Loaded(s) = IF w.valid THEN w ELSE y  BY <2>1, <2>3 DEF Loaded
  <2> QED BY <2>1, <2>2, <2>4, <2>5
<1>4. PICK y, z : y = Loaded(s) /\ z = [y EXCEPT !.d = d, !.lock = h]  OBVIOUS
<1>5. IsSlot(z) /\ z.inum = y.inum  BY <1>3, <1>4 DEF IsSlot
<1>6. With(icache, s, d, h) = [icache EXCEPT ![s] = z]  BY <1>4 DEF With
<1>7. PICK jc : jc = With(icache, s, d, h)  OBVIOUS
<1>8. DOMAIN jc = Slots /\ jc[s] = z /\ \A x \in Slots : x # s => jc[x] = icache[x]  BY <1>2, <1>6, <1>7
<1>9. \A x \in Slots : jc[x].inum = icache[x].inum /\ IsSlot(jc[x])  BY <1>1, <1>3, <1>4, <1>5, <1>8
<1> QED BY <1>7, <1>8, <1>9

LEMMA TwoNums ==
  ASSUME FsInv, NEW s \in Slots, NEW d, NEW h, NEW r \in Slots, NEW u,
         icache' = [With(icache, s, d, h) EXCEPT ![r].d = u, ![r].lock = 0]
  PROVE  KeepsNums
<1>1. PICK jc : jc = With(icache, s, d, h)  OBVIOUS
<1>2. DOMAIN jc = Slots /\ \A x \in Slots : jc[x].inum = icache[x].inum /\ IsSlot(jc[x])  BY <1>1, WithNums
<1>4. icache' = [jc EXCEPT ![r].d = u, ![r].lock = 0]  BY <1>1
<1>5. \A x \in Slots : icache'[x].inum = jc[x].inum
  <2>1. IsSlot(jc[r])  BY <1>2
  <2>2. icache'[r].inum = jc[r].inum  BY <1>2, <1>4, <2>1 DEF IsSlot
  <2>3. \A x \in Slots : x # r => icache'[x] = jc[x]  BY <1>2, <1>4
  <2> QED BY <2>2, <2>3
<1> QED BY <1>2, <1>5 DEF KeepsNums

LEMMA ChangeNums ==
  ASSUME FsInv, NEW p \in Procs, link1(p) \/ linkbad(p) \/ unlink3(p) \/ filewrite(p) \/ unlink2(p) \/ create3(p)
  PROVE  KeepsNums
<1>1. ASSUME NEW s \in Slots, NEW d, NEW h, icache' = With(icache, s, d, h) PROVE KeepsNums
  BY <1>1, WithNums DEF KeepsNums
<1>2. CASE link1(p) \/ linkbad(p) \/ unlink3(p)
  <2>1. at[p] \in Slots  BY <1>2, HeldAt, LockedAt DEF link1, linkbad, unlink3, ilock, InStep, AtSteps
  <2> QED BY <1>1, <1>2, <2>1 DEF link1, linkbad, unlink3, Relinked, Seen
<1>3. CASE filewrite(p)
  <2>1. ofile[p] \in Slots  BY <1>3, LockedFile DEF filewrite
  <2> QED BY <1>1, <1>3, <2>1 DEF filewrite, Seen
<1>4. CASE unlink2(p)
  <2>1. at[p] \in Slots /\ pc[p] = "unlink2"  BY <1>4, LockedAt DEF unlink2, AtSteps
  <2>2. dp[p] \in Slots  BY <2>1, HeldDp DEF DpSteps
  <2>3. CASE icache' = Seen(icache, at[p], 0)  BY <1>1, <2>1, <2>3 DEF Seen
  <2>4. ASSUME NEW u, icache' = [Seen(icache, at[p], p) EXCEPT ![dp[p]].d = u, ![dp[p]].lock = 0] PROVE KeepsNums
    <3>1. PICK s \in Slots, r \in Slots : s = at[p] /\ r = dp[p]  BY <2>1, <2>2
    <3>2. PICK d : d = Loaded(s).d  OBVIOUS
    <3>3. icache' = [With(icache, s, d, p) EXCEPT ![r].d = u, ![r].lock = 0]  BY <2>4, <3>1, <3>2 DEF Seen
    <3> QED BY <3>3, TwoNums
  <2> QED BY <1>4, <2>3, <2>4 DEF unlink2
<1>5. CASE create3(p)
  <2>1. at[p] \in Slots /\ pc[p] = "create3"  BY <1>5, LockedAt DEF create3, AtSteps
  <2>2. dp[p] \in Slots  BY <2>1, HeldDp DEF DpSteps
  <2>3. PICK d, u : icache' = [With(icache, at[p], d, p) EXCEPT ![dp[p]].d = u, ![dp[p]].lock = 0]  BY <1>5 DEF create3
  <2>4. PICK s \in Slots, r \in Slots : s = at[p] /\ r = dp[p]  BY <2>1, <2>2
  <2>5. icache' = [With(icache, s, d, p) EXCEPT ![r].d = u, ![r].lock = 0]  BY <2>3, <2>4
  <2> QED BY <2>5, TwoNums
<1> QED BY <1>2, <1>3, <1>4, <1>5

LEMMA StartNums ==
  ASSUME FsInv, NEW p \in Procs, NEW abs \in BOOLEAN, CanStart(abs), icache' = Start(p, abs)
  PROVE  KeepsNums /\ (abs = TRUE => StartSlot(p, abs) \in Slots /\ icache'[StartSlot(p, abs)].inum = 1)
<1>1. CASE abs = TRUE
  <2>1. PICK s : s = SlotOf(icache, 1)  OBVIOUS
  <2>2. HasSlot(icache, 1) /\ icache' = iget(icache, 1) /\ StartSlot(p, abs) = s  BY <1>1, <2>1 DEF CanStart, Start, StartSlot
  <2>3. KeepsNums /\ s \in Slots /\ icache'[s].inum = 1  BY <2>1, <2>2, KeepGet, Consts
  <2> QED BY <2>2, <2>3
<1>2. CASE abs = FALSE
  <2>1. icache' = idup(icache, cwd[p]) /\ cwd[p] \in Slots  BY <1>2 DEF Start, FsInv, RegType
  <2> QED BY <1>2, <2>1, KeepDup
<1> QED BY <1>1, <1>2

LEMMA StepNums == ASSUME FsInv, NEW p \in Procs, Step(p) \/ Enter(p) PROVE KeepsNums
<1>1. CASE begin2(p)
  <2>1. call[p].abs \in BOOLEAN  BY <1>1, CallFields DEF FsInv, RegsOk, K, Iput, Idle, begin2, InStep
  <2> QED BY <1>1, <2>1, StartNums DEF begin2
<1>2. CASE ialloc(p)
  <2>1. inum[p] \in Inums  BY <1>2 DEF ialloc, InStep, FsInv, RegsOk, RegType
  <2>2. PICK t : t = SlotOf(icache, inum[p])  OBVIOUS
  <2> QED BY <1>2, <2>1, <2>2, KeepGet DEF ialloc
<1>3. CASE Enter(p)
  <2>1. CASE UseFile(p)  BY <2>1, KeepSame DEF UseFile
  <2>2. ASSUME NEW c \in Calls, Syscall(p, c) PROVE KeepsNums
    <3>1. c.abs \in BOOLEAN  BY CallFields
    <3> QED BY <2>2, <3>1, StartNums DEF Syscall
  <2> QED BY <1>3, <2>1, <2>2 DEF Enter
<1>4. CASE NamexNone(p)  BY <1>4, KeepSame DEF NamexNone
<1> QED BY <1>1, <1>2, <1>3, <1>4, LookNums, IputNums, LookupNums, ChangeNums DEF Step

\* Nor does a step of p change a variable of another process.
LEMMA StepOnly == ASSUME FsInv, NEW p \in Procs, Step(p) \/ Enter(p) PROVE Only(p)
<1>0. RegType  BY DEF FsInv
<1> USE <1>0 DEF RegType, Only, Same, Goto, Put, PutAt, ptrs, pcs
<1>1. CASE iput(p) \/ IputFree(p) \/ IputDrop(p) \/ end_op(p)  BY <1>1 DEF iput, IputFree, IputDrop, end_op
<1>2. CASE namex(p) \/ NamexNone(p)  BY <1>2 DEF namex, NamexNone, NotFound
<1>3. CASE open1(p) \/ chdir1(p)  BY <1>3 DEF open1, chdir1, Opened
<1>4. CASE filewrite(p) \/ fileread(p) \/ filestat(p)  BY <1>4 DEF filewrite, fileread, filestat, Look
<1>5. CASE link1(p) \/ begin2(p) \/ link2(p)  BY <1>5 DEF link1, begin2, link2
<1>6. CASE link3(p) \/ UnlockDp(p) \/ linkbad(p)  BY <1>6 DEF link3, UnlockDp, linkbad
<1>7. CASE unlink1(p) \/ unlink2(p) \/ unlink3(p)  BY <1>7 DEF unlink1, unlink2, unlink3
<1>8. CASE create1(p) \/ create2(p) \/ ialloc(p)  BY <1>8 DEF create1, create2, ialloc, Opened
<1>9. CASE create3(p) \/ create4(p)  BY <1>9 DEF create3, create4, Opened
<1>10. CASE Enter(p)  BY <1>10 DEF Enter, UseFile, Syscall
<1> QED BY <1>1, <1>2, <1>3, <1>4, <1>5, <1>6, <1>7, <1>8, <1>9, <1>10 DEF Step

\* mkdir looks one name up, in the root, and enters it there.
TopReg(p) ==
  TopDirs /\ call[p].op = "mkdir" =>
    /\ K(p) \in {"namex", "create1"} => Len(path[p]) = 1 /\ Num(at[p]) = 1
    /\ K(p) \in {"ialloc", "create3"} => Num(dp[p]) = 1
TopRegs == \A p \in Procs : TopReg(p)

LEMMA TopKept ==
  ASSUME FsInv, NEW q \in Procs, TopReg(q), KeepsNums, K(q)' = K(q), call'[q] = call[q], path'[q] = path[q],
         at'[q] = at[q], dp'[q] = dp[q]
  PROVE  TopReg(q)'
<1>1. RegType /\ RegsOk(q)  BY DEF FsInv
<1>2. K(q) \in {"namex", "create1"} => at[q] \in Slots /\ icache[at[q]].ref > 0 /\ Num(at[q])' = Num(at[q])
  <2>1. K(q) \in {"namex", "create1"} => at[q] # None  BY <1>1 DEF RegsOk, AtSteps
  <2> QED BY <2>1, PointerSlot DEF Ptrs, KeepsNums, Num
<1>3. K(q) \in {"ialloc", "create3"} => dp[q] \in Slots /\ icache[dp[q]].ref > 0 /\ Num(dp[q])' = Num(dp[q])
  <2>1. K(q) \in {"ialloc", "create3"} => dp[q] # None  BY <1>1 DEF RegsOk, DpSteps
  <2> QED BY <2>1, PointerSlot DEF Ptrs, KeepsNums, Num
<1> QED BY <1>2, <1>3 DEF TopReg

LEMMA TopIput == ASSUME FsInv, NEW p \in Procs, TopReg(p), iput(p) \/ IputFree(p) \/ IputDrop(p) PROVE TopReg(p)'
<1>1. KeepsNums  BY IputNums
<1>2. pc[p] \in Iput /\ RegType /\ ret[p] \in Back /\ K(p) = ret[p]
  <2>1. pc[p] \in Iput  BY DEF iput, IputFree, IputDrop, InStep, Iput
  <2> QED BY <2>1, InIput
<1>3. UNCHANGED <<call, path, at, dp>>  BY DEF iput, IputFree, IputDrop, ptrs
<1>4. K(p)' = K(p)
  BY <1>2 DEF iput, IputFree, IputDrop, Goto, K, Iput, Back, RegType
<1> QED BY <1>1, <1>3, <1>4, TopKept

\* The steps after which the call no longer looks a directory up.
LEMMA TopDone ==
  ASSUME NEW p \in Procs, K(p)' \notin {"namex", "create1", "ialloc", "create3"}
  PROVE  TopReg(p)'
BY DEF TopReg

LEMMA TopOther ==
  ASSUME FsInv, NEW p \in Procs,
         \/ end_op(p) \/ open1(p) \/ chdir1(p) \/ filewrite(p) \/ fileread(p) \/ filestat(p) \/ link1(p) \/ link2(p)
         \/ link3(p) \/ UnlockDp(p) \/ linkbad(p) \/ unlink1(p) \/ unlink2(p) \/ unlink3(p) \/ create2(p) \/ create3(p) \/ create4(p)
         \/ UseFile(p) /\ InStep(p, "user")
  PROVE  TopReg(p)'
<1>0. RegType  BY DEF FsInv
<1> USE <1>0 DEF RegType, Goto, Put, PutAt, K, Iput
<1>1. CASE end_op(p) \/ open1(p) \/ chdir1(p) \/ create2(p) \/ create4(p)
  <2>1. K(p)' \in {"user", "end_op"}  BY <1>1 DEF end_op, open1, chdir1, create2, create4, Opened
  <2> QED BY <2>1, TopDone
<1>2. CASE filewrite(p) \/ fileread(p) \/ filestat(p)
  <2>1. pc[p] \in {"write", "read", "stat"}  BY <1>2 DEF filewrite, fileread, filestat, ilock, InStep
  <2>2. K(p)' \in {"write", "user", "end_op"}  BY <1>2, <2>1 DEF filewrite, fileread, filestat, Look, pcs, ilock, InStep
  <2> QED BY <2>2, TopDone
<1>3. CASE link1(p) \/ link2(p) \/ link3(p) \/ UnlockDp(p) \/ linkbad(p)
  <2>1. K(p)' \in {"begin2", "unlockdp", "link3", "linkbad", "end_op"}  BY <1>3 DEF link1, link2, link3, UnlockDp, linkbad
  <2> QED BY <2>1, TopDone
<1>4. CASE unlink1(p) \/ unlink2(p) \/ unlink3(p) \/ create3(p)
  <2>1. K(p)' \in {"unlink2", "unlockdp", "unlink3", "create4", "end_op"}  BY <1>4 DEF unlink1, unlink2, unlink3, create3
  <2> QED BY <2>1, TopDone
<1>5. CASE UseFile(p) /\ InStep(p, "user")
  <2>1. K(p)' \in {"write", "read", "stat", "end_op"}  BY <1>5 DEF UseFile, InStep
  <2> QED BY <2>1, TopDone
<1> QED BY <1>1, <1>2, <1>3, <1>4, <1>5

LEMMA TopNamex == ASSUME FsInv, NEW p \in Procs, TopReg(p), namex(p) PROVE TopReg(p)'
<1>0. RegType /\ RegsOk(p) /\ KeepsNums  BY LookupNums DEF FsInv
<1>1. pc[p] = "namex" /\ K(p) = "namex" /\ at[p] \in Slots /\ icache[at[p]].ref > 0 /\ UNCHANGED <<call, dp>>
  BY LockedAt DEF namex, AtSteps
<1>2. SUFFICES ASSUME TopDirs, call[p].op = "mkdir" PROVE TopReg(p)'  BY <1>1 DEF TopReg
<1>3. Len(path[p]) = 1 /\ Num(at[p]) = 1  BY <1>1, <1>2 DEF TopReg
<1>4. ip[p] = None  BY <1>0, <1>2 DEF RegsOk
<1>5. Result(p) = "create1" /\ AtParent(p)  BY <1>2, <1>3, <1>4 DEF Result, First, AtParent, nameiparent
<1>6. CASE Goto(p, Result(p)) /\ UNCHANGED <<path, at, ip>>
  <2>1. K(p)' = "create1"  BY <1>0, <1>5, <1>6 DEF Goto, K, Iput, RegType
  <2>2. Num(at[p])' = Num(at[p]) /\ path'[p] = path[p]  BY <1>0, <1>1, <1>6 DEF KeepsNums, Num
  <2> QED BY <1>3, <2>1, <2>2 DEF TopReg
<1>7. CASE NotFound(p)
  <2>1. K(p)' = "end_op"  BY <1>0, <1>4, <1>7 DEF NotFound, Put, K, Iput, RegType
  <2> QED BY <2>1, TopDone
<1> QED BY <1>5, <1>6, <1>7 DEF namex

LEMMA TopNone == ASSUME FsInv, NEW p \in Procs, TopReg(p), NamexNone(p) PROVE TopReg(p)'
<1>0. RegType /\ RegsOk(p)  BY DEF FsInv
<1>1. pc[p] = "namex" /\ K(p) = "namex" /\ path[p] = <<>> /\ UNCHANGED call  BY DEF NamexNone, InStep, K, Iput
<1>2. ~(TopDirs /\ call[p].op = "mkdir")  BY <1>1 DEF TopReg
<1> QED BY <1>1, <1>2 DEF TopReg

LEMMA TopCreate1 == ASSUME FsInv, NEW p \in Procs, TopReg(p), create1(p) PROVE TopReg(p)'
<1>0. RegType /\ KeepsNums  BY LookupNums DEF FsInv
<1>1. pc[p] = "create1" /\ K(p) = "create1" /\ at[p] \in Slots /\ icache[at[p]].ref > 0 /\ UNCHANGED call
  BY LockedAt DEF create1, AtSteps
<1>2. TopDirs /\ call[p].op = "mkdir" => Num(at[p]) = 1  BY <1>1 DEF TopReg
<1>3. CASE K(p)' = "create2"  BY <1>3, TopDone
<1>4. CASE Goto(p, "ialloc") /\ dp' = [dp EXCEPT ![p] = at[p]]
  <2>1. K(p)' = "ialloc" /\ dp'[p] = at[p]  BY <1>0, <1>4 DEF Goto, K, Iput, RegType
  <2>2. Num(dp[p])' = Num(at[p])  BY <1>0, <1>1, <2>1 DEF KeepsNums, Num
  <2> QED BY <1>1, <1>2, <2>1, <2>2 DEF TopReg
<1>5. K(p)' = "create2" \/ (Goto(p, "ialloc") /\ dp' = [dp EXCEPT ![p] = at[p]])
  BY <1>0 DEF create1, Put, K, Iput, RegType
<1> QED BY <1>3, <1>4, <1>5

LEMMA TopIalloc == ASSUME FsInv, NEW p \in Procs, TopReg(p), ialloc(p) PROVE TopReg(p)'
<1>0. RegType /\ KeepsNums  BY StepNums DEF FsInv, Step
<1>1. pc[p] = "ialloc" /\ UNCHANGED <<call, dp>>  BY DEF ialloc, InStep
<1>2. K(p) = "ialloc" /\ dp[p] \in Slots /\ icache[dp[p]].ref > 0  BY <1>1, HeldDp DEF DpSteps
<1>3. K(p)' = "create3"  BY <1>0 DEF ialloc, Goto, K, Iput, RegType
<1>4. Num(dp[p])' = Num(dp[p])  BY <1>0, <1>1, <1>2 DEF KeepsNums, Num
<1> QED BY <1>1, <1>2, <1>3, <1>4 DEF TopReg

LEMMA TopBegin2 == ASSUME FsInv, NEW p \in Procs, begin2(p) PROVE TopReg(p)'
<1>1. pc[p] = "begin2" /\ UNCHANGED call  BY DEF begin2, InStep
<1>2. call[p].op = "link"  BY <1>1 DEF FsInv, RegsOk, K, Iput
<1> QED BY <1>1, <1>2 DEF TopReg

LEMMA TopSyscall == ASSUME FsInv, NEW p \in Procs, NEW c \in Calls, Syscall(p, c) PROVE TopReg(p)'
<1>0. RegType /\ c.abs \in BOOLEAN  BY CallFields DEF FsInv
<1>1. PICK s : s = StartSlot(p, c.abs)  OBVIOUS
<1>2. c.abs = TRUE => icache'[s].inum = 1  BY <1>0, <1>1, StartNums DEF Syscall
<1>3. K(p)' = "namex" /\ call'[p] = c /\ path'[p] = c.path /\ at'[p] = s
  BY <1>0, <1>1 DEF Syscall, Goto, K, Iput, RegType
<1>4. TopDirs /\ c.op = "mkdir" => c.abs = TRUE /\ Len(c.path) = 1  BY DEF TopDirs
<1> QED BY <1>2, <1>3, <1>4 DEF TopReg, Num

LEMMA TopStep == FsInv /\ TopRegs /\ [Next]_vars => TopRegs'
<1> SUFFICES ASSUME FsInv, TopRegs, [Next]_vars PROVE TopRegs'  OBVIOUS
<1>1. CASE UNCHANGED vars  BY <1>1 DEF vars, TopRegs, TopReg, K, Num
<1>2. ASSUME NEW p \in Procs, Step(p) \/ Enter(p) PROVE TopRegs'
  <2>0. Only(p) /\ KeepsNums  BY <1>2, StepOnly, StepNums
  <2>1. ASSUME NEW q \in Procs, q # p PROVE TopReg(q)'
    <3>1. K(q)' = K(q)  BY <2>0, <2>1, OthersKept
    <3>2. call'[q] = call[q] /\ path'[q] = path[q] /\ at'[q] = at[q] /\ dp'[q] = dp[q]  BY <2>0, <2>1 DEF Only, Same
    <3> QED BY <2>0, <3>1, <3>2, TopKept DEF TopRegs
  <2>2. TopReg(p)'
    <3>0. TopReg(p)  BY DEF TopRegs
    <3>1. CASE Enter(p)  BY <3>1, TopOther, TopSyscall DEF Enter
    <3>2. CASE Step(p)
      <4>1. CASE iput(p) \/ IputFree(p) \/ IputDrop(p)  BY <3>0, <4>1, TopIput
      <4>2. CASE namex(p) \/ NamexNone(p) \/ create1(p) \/ ialloc(p) \/ begin2(p)
        BY <3>0, <4>2, TopNamex, TopNone, TopCreate1, TopIalloc, TopBegin2
      <4>3. CASE ~(iput(p) \/ IputFree(p) \/ IputDrop(p)) /\ ~(namex(p) \/ NamexNone(p) \/ create1(p) \/ ialloc(p) \/ begin2(p))
        BY <3>2, <4>3, TopOther DEF Step
      <4> QED BY <4>1, <4>2, <4>3
    <3> QED BY <1>2, <3>1, <3>2
  <2> QED BY <2>1, <2>2 DEF TopRegs
<1> QED BY <1>1, <1>2 DEF Next

LEMMA InitTop == Init => TopRegs
<1> SUFFICES ASSUME Init, NEW p \in Procs PROVE TopReg(p)  BY DEF TopRegs
<1>1. K(p) = "user"  BY DEF Init, K, Iput
<1> QED BY <1>1 DEF TopReg

\* create enters a new directory in the root.
LEMMA MadeInRoot ==
  ASSUME TopRegs, NEW p \in Procs, pc[p] = "create3", NewType(p) = "dir"
  PROVE  UpOk(Num(dp[p]))
<1>1. K(p) = "create3" /\ call[p].op = "mkdir"  BY DEF K, Iput, NewType
<1> QED BY <1>1 DEF TopRegs, TopReg, UpOk

LEMMA LinkStep == FsInv /\ BlocksInv /\ LinkInv /\ TopRegs /\ UpLive /\ [Next]_vars => LinkInv'
<1> SUFFICES ASSUME FsInv, BlocksInv, LinkInv, TopRegs, UpLive, [Next]_vars PROVE LinkInv'  OBVIOUS
<1>0. FsInv'  BY NextKeeps
<1>1. CASE UNCHANGED vars  BY <1>1, SameLinks
<1>2. ASSUME NEW p \in Procs, Enter(p) PROVE LinkInv'
  <2>1. InStep(p, "user") /\ (UseFile(p) \/ \E c \in Calls : Syscall(p, c))  BY <1>2 DEF Enter
  <2> QED BY <2>1, UseFileLinks, SyscallLinks
<1>3. ASSUME NEW p \in Procs, Step(p) PROVE LinkInv'
  <2>1. CASE iput(p) \/ IputFree(p) \/ IputDrop(p) \/ namex(p) \/ NamexNone(p) \/ end_op(p)
    BY <1>0, <2>1, IputLinks, IputFreeLinks, IputDropLinks, NamexLinks, NamexNoneLinks, EndLinks
  <2>2. CASE open1(p) \/ chdir1(p) \/ filewrite(p) \/ fileread(p) \/ filestat(p)
    BY <1>0, <2>2, Open1Links, Chdir1Links, FileWriteLinks, FileReadLinks, FileStatLinks
  <2>3. CASE link1(p) \/ begin2(p) \/ link2(p) \/ link3(p) \/ UnlockDp(p) \/ linkbad(p)
    BY <1>0, <2>3, Link1Links, Begin2Links, Link2Links, Link3Links, UnlockDpLinks, LinkBadLinks
  <2>4. CASE unlink1(p) \/ unlink2(p) \/ unlink3(p)
    BY <1>0, <2>4, Unlink1Links, Unlink2Links, Unlink3Links
  <2>5. CASE create1(p) \/ create2(p) \/ ialloc(p) \/ create3(p) \/ create4(p)
    <3>1. create3(p) /\ NewType(p) = "dir" => UpOk(Num(dp[p]))  BY MadeInRoot DEF create3, ilock, InStep
    <3> QED BY <1>0, <2>5, <3>1, Create1Links, Create2Links, IallocLinks, Create3Links, Create4Links
  <2> QED BY <1>3, <2>1, <2>2, <2>3, <2>4, <2>5 DEF Step
<1> QED BY <1>1, <1>2, <1>3 DEF Next

-----------------------------------------------------------------------------
(***************************************************************************)
(* The image of mkfs: blocks appended to a file change neither its kind    *)
(* nor its links nor any name, and a file is named once.                   *)
(***************************************************************************)
Untouched(im, w, i) ==
  /\ \A j \in Inums : j # i => w.dinode[j] = im.dinode[j]
  /\ w.dinode[i].type = im.dinode[i].type /\ w.dinode[i].nlink = im.dinode[i].nlink
  /\ \A b \in Blocks : w.data[b].ents = im.data[b].ents
LEMMA AppendUntouched ==
  ASSUME NEW im, NEW i \in Inums, ImageRec(im), ImageOk(im)
  PROVE  Untouched(im, iappend(im, i), i)
<1>1. PICK di \in [Inums -> Inode], dt \in [Blocks -> Block] : di = im.dinode /\ dt = im.data  BY DEF ImageOk, BlocksIn
<1>2. PICK w : w = iappend(im, i)  OBVIOUS
<1>3. PICK d \in Inode : d = di[i]  BY <1>1
<1>4. CASE im.dinode[i].size < NDIRECT
  <2>1. w.dinode = [di EXCEPT ![i].addrs[d.size] = im.freeblock, ![i].size = @ + 1] /\ w.data = dt
    BY <1>1, <1>2, <1>3, <1>4, AppendDirect
  <2>2. w.dinode[i].type = d.type /\ w.dinode[i].nlink = d.nlink /\ \A j \in Inums : j # i => w.dinode[j] = di[j]
    BY <1>3, <2>1 DEF Inode
  <2> QED BY <1>1, <1>2, <1>3, <2>1, <2>2 DEF Untouched
<1>5. CASE ~(im.dinode[i].size < NDIRECT)
  <2>0. PICK x, k, v : x = IndOf(im, i) /\ k = im.dinode[i].size - NDIRECT /\ v = NewOf(im, i)  OBVIOUS
  <2>1. w.dinode = [di EXCEPT ![i].addrs[NDIRECT] = x, ![i].size = @ + 1] /\ w.data = [dt EXCEPT ![x].a[k] = v]
    BY <1>1, <1>2, <1>5, <2>0, AppendIndirect
  <2>2. w.dinode[i].type = d.type /\ w.dinode[i].nlink = d.nlink /\ \A j \in Inums : j # i => w.dinode[j] = di[j]
    BY <1>3, <2>1 DEF Inode
  <2>3. \A b \in Blocks : w.data[b].ents = dt[b].ents  BY <2>1 DEF Block
  <2> QED BY <1>1, <1>2, <1>3, <2>2, <2>3 DEF Untouched
<1> QED BY <1>4, <1>5

LEMMA AppendedUntouched ==
  ASSUME NEW im, NEW i \in Inums, NEW fi \in Nat, i < fi, NEW n \in 0 .. MAXFILE, Appending(im, i, fi, 0),
         Fits(Appended(im, i, n))
  PROVE  Fits(im) /\ Untouched(im, Appended(im, i, n), i)
<1>0. MAXFILE \in Nat /\ n \in Nat  BY Consts DEF MAXFILE
<1>1. PICK f : /\ \A k \in 0 .. n : f[k] = IF k = 0 THEN im ELSE iappend(f[k - 1], i)
               /\ Appended(im, i, n) = f[n]
  BY <1>0, AppendedIs
<1> DEFINE Ok(k) == Appending(f[k], i, fi, k) /\ (Fits(f[k]) => Fits(im) /\ Untouched(im, f[k], i))
           S == {k \in 0 .. n : ~Ok(k)}
<1>2. S = {}
  <2> SUFFICES ASSUME S # {} PROVE FALSE  OBVIOUS
  <2>1. PICK j \in S : \A l \in S : j <= l
    <3>1. S \in SUBSET Nat  OBVIOUS
    <3> HIDE DEF S
    <3> QED BY <3>1, LeastNat
  <2>2. j \in 0 .. n /\ ~Ok(j)  OBVIOUS
  <2>3. f[0] = im  BY <1>0, <1>1
  <2>4. j # 0  BY <2>2, <2>3 DEF Untouched
  <2>5. j - 1 \in 0 .. n /\ j - 1 \in Nat /\ j - 1 < MAXFILE /\ ~(j <= j - 1) /\ j - 1 + 1 = j  BY <1>0, <2>2, <2>4
  <2>6. Ok(j - 1)  BY <2>1, <2>5
  <2>a. PICK g : g = f[j - 1]  OBVIOUS
  <2>b. Appending(g, i, fi, j - 1) /\ (Fits(g) => Fits(im) /\ Untouched(im, g, i))  BY <2>6, <2>a
  <2>7. Appending(iappend(g, i), i, fi, j)  BY <2>5, <2>b, AppendingStep
  <2>8. f[j] = iappend(g, i)  BY <1>1, <2>2, <2>4, <2>a
  <2>9. ASSUME Fits(f[j]) PROVE Fits(im) /\ Untouched(im, f[j], i)
    <3>1. ImageRec(g) /\ g.freeblock \in Nat  BY <2>b DEF Appending, ImageRec
    <3>2. iappend(g, i).freeblock \in Nat /\ iappend(g, i).freeblock > g.freeblock
      <4>1. CASE g.dinode[i].size < NDIRECT
        <5>1. iappend(g, i).freeblock = g.freeblock + 1  BY <3>1, <4>1, AppendDirect
        <5> QED BY <3>1, <5>1
      <4>2. CASE ~(g.dinode[i].size < NDIRECT)
        <5>1. iappend(g, i).freeblock = NewOf(g, i) + 1  BY <3>1, <4>2, AppendIndirect
        <5>2. NewOf(g, i) \in Nat /\ NewOf(g, i) >= g.freeblock  BY <3>1 DEF NewOf
        <5> QED BY <3>1, <5>1, <5>2
      <4> QED BY <4>1, <4>2
    <3>3. Fits(g)  BY <2>8, <2>9, <3>1, <3>2, Consts DEF Fits
    <3>4. ImageOk(g) /\ Fits(im) /\ Untouched(im, g, i)  BY <2>b, <3>3 DEF Appending
    <3>5. Untouched(g, f[j], i)  BY <2>8, <3>1, <3>4, AppendUntouched
    <3> QED BY <3>4, <3>5 DEF Untouched
  <2> QED BY <2>2, <2>7, <2>8, <2>9
<1>3. n \in 0 .. n  BY <1>0
<1>4. Ok(n)  BY <1>2, <1>3
<1> QED BY <1>1, <1>4

\* The root, with an entry for each of the first k files.
NamesOk(im, k) ==
  /\ im.dinode[1].type = "dir" /\ im.dinode[1].nlink = 1 /\ im.dinode[1].size = 1 /\ im.dinode[1].addrs[0] = 1
  /\ \A i \in Inums : 2 <= i /\ i <= k + 1 => im.dinode[i].type = "file" /\ im.dinode[i].nlink = 1
  /\ im.data[1].ents["."] = 1 /\ im.data[1].ents[".."] = 1
  /\ \A e \in Names : im.data[1].ents[e] # 0 =>
       im.data[1].ents[e] \in 2 .. k + 1 /\ Files[im.data[1].ents[e] - 1].name = e
Ialloced(im, w, e, t) ==
  /\ w.dinode = [im.dinode EXCEPT ![im.freeinode] = e] /\ w.data = im.data /\ w.freeblock = im.freeblock
  /\ e.type = t /\ e.nlink = 1 /\ e.size = 0 /\ e.addrs = [k \in 0 .. NDIRECT |-> 0]
LEMMA MkIallocIs ==
  ASSUME NEW im, ImageRec(im), NEW t
  PROVE  \E e : Ialloced(im, MkIalloc(im, t), e, t)
<1>1. im = [dinode |-> im.dinode, data |-> im.data, freeinode |-> im.freeinode, freeblock |-> im.freeblock]
  BY DEF ImageRec
<1>2. PICK e : e = [Free(t) EXCEPT !.nlink = 1]  OBVIOUS
<1>3. MkIalloc(im, t) = [im EXCEPT !.dinode[im.freeinode] = e, !.freeinode = @ + 1]  BY <1>2 DEF MkIalloc
<1>4. e.type = t /\ e.nlink = 1 /\ e.size = 0 /\ e.addrs = [k \in 0 .. NDIRECT |-> 0]  BY <1>2 DEF Free
<1>5. /\ MkIalloc(im, t).dinode = [im.dinode EXCEPT ![im.freeinode] = e] /\ MkIalloc(im, t).data = im.data
      /\ MkIalloc(im, t).freeblock = im.freeblock
  BY <1>1, <1>3
<1> QED BY <1>4, <1>5 DEF Ialloced

LEMMA MkFileNames ==
  ASSUME Len(Files) \in Nat, NEW k \in 1 .. Len(Files), NEW im, ImageRec(im), im.freeinode = k + 1, k + 1 \in Inums,
         Fits(im) => ImageOk(im) /\ NamesOk(im, k - 1),
         Files[k] \in [name : Names, blocks : 0 .. MAXFILE], Fits(MkFile(im, Files[k]))
  PROVE  NamesOk(MkFile(im, Files[k]), k)
<1> DEFINE f == Files[k]
           i == im.freeinode
           m == MkIalloc(im, "file")
<1>0. i \in Inums /\ i = k + 1 /\ i \in Nat /\ i < i + 1 /\ f.name \in Names /\ f.name \in Elems /\ f.blocks \in 0 .. MAXFILE
      /\ "." \notin Names /\ ".." \notin Names
  <2>1. i \in Nat /\ i < i + 1  BY DEF ImageRec
  <2>2. f.name \in Names /\ f.blocks \in 0 .. MAXFILE  BY DEF Elems
  <2> QED BY <2>1, <2>2, FsAssumption DEF Elems
<1>1. Appending(m, i, i + 1, 0)  BY <1>0, MkIallocOk
<1>2. PICK e : Ialloced(im, m, e, "file")  BY MkIallocIs
<1>3. /\ m.dinode = [im.dinode EXCEPT ![i] = e] /\ m.data = im.data /\ m.freeblock = im.freeblock
      /\ e.type = "file" /\ e.nlink = 1
  BY <1>2 DEF Ialloced
<1> HIDE DEF m
<1> DEFINE x == [m.data[1].ents EXCEPT ![f.name] = i]
           y == [m.data[1] EXCEPT !.ents = x]
           dt == [m.data EXCEPT ![1] = y]
           w == [m EXCEPT !.data = dt]
<1>4. m = [dinode |-> m.dinode, data |-> m.data, freeinode |-> m.freeinode, freeblock |-> m.freeblock]
  BY <1>1 DEF Appending, ImageRec
<1>5. w = [m EXCEPT !.data[1].ents[f.name] = i]  BY <1>4
<1>6. Fits(m) => /\ dt \in [Blocks -> Block] /\ \A b \in Blocks : dt[b].a = m.data[b].a
                 /\ dt[1].ents = [m.data[1].ents EXCEPT ![f.name] = i] /\ m.data[1].ents \in [Elems -> {0} \union Inums]
  <2> SUFFICES ASSUME Fits(m)
               PROVE  /\ dt \in [Blocks -> Block] /\ \A b \in Blocks : dt[b].a = m.data[b].a
                      /\ dt[1].ents = x /\ m.data[1].ents \in [Elems -> {0} \union Inums]
    OBVIOUS
  <2>1. m.data \in [Blocks -> Block] /\ 1 \in Blocks  BY <1>1, Consts DEF Appending, ImageOk, BlocksIn, Blocks
  <2>2. m.data[1] \in Block /\ m.data[1].ents \in [Elems -> {0} \union Inums]  BY <2>1 DEF Block
  <2>3. x \in [Elems -> {0} \union Inums]  BY <1>0, <2>2
  <2> HIDE DEF x
  <2>4. y \in Block /\ y.a = m.data[1].a /\ y.ents = x  BY <2>2, <2>3 DEF Block
  <2> HIDE DEF y
  <2> QED BY <2>1, <2>2, <2>4
<1> HIDE DEF dt
<1>7. Appending(w, i, i + 1, 0)  BY <1>1, <1>6, AppendingData
<1>8. w.dinode = m.dinode /\ w.data = dt /\ w.freeblock = m.freeblock  BY <1>4
<1> HIDE DEF w
<1>9. MkFile(im, f) = Appended(w, i, f.blocks)  BY <1>5 DEF MkFile, m
<1>10. PICK z : z = MkFile(im, f)  OBVIOUS
<1>11. Fits(w) /\ Untouched(w, z, i)  BY <1>0, <1>7, <1>9, <1>10, AppendedUntouched
<1>12. Fits(m) /\ Fits(im)  BY <1>3, <1>8, <1>11 DEF Fits
<1>13. NamesOk(im, k - 1) /\ im.dinode \in [Inums -> Inode]  BY <1>12 DEF ImageOk, BlocksIn
<1>14. 1 \in Inums /\ 1 # i /\ 1 \in Blocks /\ k \in Nat /\ k - 1 + 1 = k /\ i >= 2
  <2>1. k \in Nat /\ k >= 1  OBVIOUS
  <2>2. k - 1 + 1 = k /\ k + 1 >= 2  BY <2>1
  <2>3. 1 \in Inums /\ 1 \in Blocks  BY Consts DEF Inums, Blocks
  <2> QED BY <1>0, <2>1, <2>2, <2>3
<1>15. /\ z.dinode[i].type = "file" /\ z.dinode[i].nlink = 1 /\ \A j \in Inums : j # i => z.dinode[j] = im.dinode[j]
       /\ z.data[1].ents = [im.data[1].ents EXCEPT ![f.name] = i] /\ im.data[1].ents \in [Elems -> {0} \union Inums]
  <2>1. w.dinode[i] = e /\ \A j \in Inums : j # i => w.dinode[j] = im.dinode[j]  BY <1>0, <1>3, <1>8, <1>13
  <2>2. z.data[1].ents = dt[1].ents  BY <1>8, <1>11, <1>14 DEF Untouched
  <2> QED BY <1>3, <1>6, <1>11, <1>12, <2>1, <2>2 DEF Untouched
<1>16. "." \in Elems /\ ".." \in Elems /\ Names \subseteq Elems  BY DEF Elems
<1> HIDE DEF f, i
<1>17. z.dinode[1] = im.dinode[1] /\ z.data[1].ents["."] = 1 /\ z.data[1].ents[".."] = 1
  BY <1>0, <1>13, <1>14, <1>15, <1>16 DEF NamesOk
<1>18. ASSUME NEW j \in Inums, 2 <= j, j <= k + 1 PROVE z.dinode[j].type = "file" /\ z.dinode[j].nlink = 1
  <2>1. CASE j = i  BY <1>15, <2>1
  <2>2. CASE j # i
    <3>1. j <= k  BY <1>0, <1>14, <1>18, <2>2, Consts
    <3>2. j <= k - 1 + 1  BY <1>14, <3>1
    <3> QED BY <1>13, <1>15, <1>18, <2>2, <3>2 DEF NamesOk
  <2> QED BY <2>1, <2>2
<1>19. ASSUME NEW g \in Names, z.data[1].ents[g] # 0
       PROVE  z.data[1].ents[g] \in 2 .. k + 1 /\ Files[z.data[1].ents[g] - 1].name = g
  <2>1. CASE g = f.name
    <3>1. z.data[1].ents[g] = i /\ i - 1 = k  BY <1>0, <1>14, <1>15, <1>16, <2>1
    <3>2. i \in 2 .. k + 1  BY <1>0, <1>14
    <3> QED BY <2>1, <3>1, <3>2 DEF f
  <2>2. CASE g # f.name
    <3>1. z.data[1].ents[g] = im.data[1].ents[g]  BY <1>15, <1>16, <2>2
    <3>2. im.data[1].ents[g] \in 2 .. k - 1 + 1 /\ Files[im.data[1].ents[g] - 1].name = g  BY <1>13, <1>19, <3>1 DEF NamesOk
    <3> QED BY <1>14, <3>1, <3>2
  <2> QED BY <2>1, <2>2
<1>20. NamesOk(z, k)  BY <1>13, <1>17, <1>18, <1>19 DEF NamesOk
<1> QED BY <1>10, <1>20 DEF f

LEMMA MkRootNames == NamesOk(MkRoot, 0)
<1> DEFINE m == MkIalloc(Blank, "dir")
           w == iappend(m, 1)
<1>0. /\ 1 \in Inums /\ 1 \in Blocks /\ 0 < NDIRECT /\ 0 \in 0 .. NDIRECT /\ NDIRECT \in Nat /\ 1 + 1 = 2
      /\ "." \in Elems /\ ".." \in Elems /\ Names \subseteq Elems /\ "." \notin Names /\ ".." \notin Names
  <2>1. 1 \in Inums /\ 1 \in Blocks /\ 0 < NDIRECT /\ 0 \in 0 .. NDIRECT /\ NDIRECT \in Nat /\ 1 + 1 = 2  BY Consts DEF Inums, Blocks
  <2> QED BY <2>1, FsAssumption DEF Elems
<1>1. PICK e : Ialloced(Blank, m, e, "dir")  BY BlankOk, MkIallocIs
<1>2. Blank.dinode = [i \in Inums |-> Free("free")] /\ Blank.data = [b \in Blocks |-> Zero]  BY DEF Blank
<1>3. /\ m.dinode = [[i \in Inums |-> Free("free")] EXCEPT ![1] = e] /\ m.data = [b \in Blocks |-> Zero] /\ m.freeblock = 1
      /\ e.type = "dir" /\ e.nlink = 1 /\ e.size = 0 /\ e.addrs = [k \in 0 .. NDIRECT |-> 0]
  BY <1>1, <1>2, BlankOk DEF Ialloced
<1>4. Appending(m, 1, 2, 0)
  <2>1. Appending(m, Blank.freeinode, Blank.freeinode + 1, 0)  BY <1>0, BlankOk, MkIallocOk
  <2> QED BY <1>0, <2>1, BlankOk
<1> HIDE DEF m
<1>5. m.dinode[1] = e /\ m.dinode[1].size = 0 /\ m.dinode[1].size < NDIRECT  BY <1>0, <1>3
<1>a. ImageRec(m) /\ ImageOk(m)  BY <1>3, <1>4, Consts DEF Appending, Fits
<1>6. w.dinode = [m.dinode EXCEPT ![1].addrs[0] = 1, ![1].size = @ + 1] /\ w.data = m.data
  <2>1. /\ w.dinode = [m.dinode EXCEPT ![1].addrs[m.dinode[1].size] = m.freeblock, ![1].size = @ + 1]
        /\ w.data = m.data
    BY <1>5, <1>a, AppendDirect
  <2>2. m.dinode[1].size = 0 /\ m.freeblock = 1  BY <1>3, <1>5
  <2> HIDE DEF w
  <2> QED BY <2>1, <2>2
<1>7. PICK z : z = w.dinode[1]  OBVIOUS
<1>8. z.type = "dir" /\ z.nlink = 1 /\ z.size = 1 /\ z.addrs[0] = 1
  <2>1. m.dinode \in [Inums -> Inode] /\ e \in Inode  BY <1>0, <1>5, <1>a DEF ImageOk, BlocksIn
  <2>2. PICK g : g = m.dinode  OBVIOUS
  <2>3. z = [[g EXCEPT ![1].addrs[0] = 1] EXCEPT ![1].size = @ + 1][1]  BY <1>6, <1>7, <2>2
  <2>4. g \in [Inums -> Inode] /\ g[1] = e  BY <1>5, <2>1, <2>2
  <2>5. z = [[e EXCEPT !.addrs[0] = 1] EXCEPT !.size = @ + 1]  BY <1>0, <2>3, <2>4
  <2>6. e.addrs \in [0 .. NDIRECT -> {0} \union Blocks]  BY <2>1, InodeFields
  <2> QED BY <1>0, <1>3, <2>1, <2>5, <2>6 DEF Inode
<1>9. ImageRec(w)  BY <1>5, <1>a, AppendDirect
<1> HIDE DEF w
<1>10. PICK y : y = Dots(1, 1)  OBVIOUS
<1>11. y.ents["."] = 1 /\ y.ents[".."] = 1 /\ \A f \in Names : y.ents[f] = 0  BY <1>0, <1>10 DEF Dots, Zero
<1>12. MkRoot = [w EXCEPT !.data[1] = y]  BY <1>10 DEF MkRoot, w, m
<1>13. w = [dinode |-> w.dinode, data |-> w.data, freeinode |-> w.freeinode, freeblock |-> w.freeblock]
  BY <1>9 DEF ImageRec
<1>14. MkRoot.dinode = w.dinode /\ MkRoot.data = [w.data EXCEPT ![1] = y]  BY <1>12, <1>13
<1>15. MkRoot.data[1] = y  BY <1>0, <1>3, <1>6, <1>14
<1>16. \A i \in Inums : ~(2 <= i /\ i <= 0 + 1)  BY Consts
<1> QED BY <1>7, <1>8, <1>11, <1>14, <1>15, <1>16 DEF NamesOk

LEMMA ImageNames == Len(Files) \in Nat /\ Len(Files) < NINODES /\ NamesOk(Image, Len(Files)) /\ Image.freeinode = Len(Files) + 2
<1> DEFINE n == Len(Files)
           Ok(im, k) == ImageRec(im) /\ im.freeinode = k + 2 /\ (Fits(im) => ImageOk(im) /\ NamesOk(im, k))
<1>0. n \in Nat /\ n < NINODES /\ \A k \in 1 .. n : Files[k] \in [name : Names, blocks : 0 .. MAXFILE]
  <2>1. Files \in Seq([name : Names, blocks : 0 .. MAXFILE]) /\ Len(Files) < NINODES  BY FsAssumption
  <2>2. PICK T : T = [name : Names, blocks : 0 .. MAXFILE]  OBVIOUS
  <2>3. Files \in Seq(T)  BY <2>1, <2>2
  <2>4. \A k \in 1 .. Len(Files) : Files[k] \in T  BY <2>3, ElementOfSeq
  <2>5. Len(Files) \in Nat  BY <2>3
  <2> QED BY <2>1, <2>2, <2>4, <2>5
<1>1. PICK f : /\ \A k \in 0 .. n : f[k] = IF k = 0 THEN MkRoot ELSE MkFile(f[k - 1], Files[k])
               /\ Image = f[n]
  BY ImageIs
<1>2. ASSUME NEW im, NEW k \in 1 .. n, Ok(im, k - 1) PROVE Ok(MkFile(im, Files[k]), k)
  <2>1. im.freeinode = k + 1 /\ k + 1 \in Inums  BY <1>0, <1>2, Consts DEF Inums
  <2>2. Appending(MkFile(im, Files[k]), im.freeinode, im.freeinode + 1, Files[k].blocks)
    BY <1>0, <1>2, <2>1, MkFileOk
  <2>3. im.freeinode + 1 = k + 2  BY <2>1
  <2>4. Fits(MkFile(im, Files[k])) => NamesOk(MkFile(im, Files[k]), k)
    <3>1. ImageRec(im) /\ (Fits(im) => ImageOk(im) /\ NamesOk(im, k - 1))  BY <1>2
    <3> QED BY <1>0, <2>1, <3>1, MkFileNames
  <2> QED BY <2>2, <2>3, <2>4 DEF Appending
<1>3. Ok(MkRoot, 0)  BY MkRootOk, MkRootNames DEF Appending
<1> HIDE DEF Ok
<1> DEFINE S == {k \in 0 .. n : ~Ok(f[k], k)}
<1>4. S = {}
  <2> SUFFICES ASSUME S # {} PROVE FALSE  OBVIOUS
  <2>1. PICK j \in S : \A l \in S : j <= l
    <3>1. S \in SUBSET Nat  OBVIOUS
    <3> HIDE DEF S
    <3> QED BY <3>1, LeastNat
  <2>2. j \in 0 .. n /\ ~Ok(f[j], j)  OBVIOUS
  <2>3. f[0] = MkRoot  BY <1>0, <1>1
  <2>4. j # 0  BY <1>3, <2>2, <2>3
  <2>5. j - 1 \in 0 .. n /\ j \in 1 .. n /\ ~(j <= j - 1)  BY <1>0, <2>2, <2>4
  <2>6. Ok(f[j - 1], j - 1)  BY <2>1, <2>5
  <2>7. f[j] = MkFile(f[j - 1], Files[j])  BY <1>1, <2>2, <2>4
  <2> QED BY <1>2, <2>2, <2>5, <2>6, <2>7
<1>5. n \in 0 .. n  BY <1>0
<1>6. Ok(Image, n)  BY <1>1, <1>4, <1>5
<1> QED BY <1>0, <1>6, FsAssumption DEF Ok, Fits

LEMMA InitLinks == Init => LinkInv
<1> SUFFICES ASSUME Init PROVE LinkInv  OBVIOUS
<1> DEFINE n == Len(Files)
<1>0. FsInv /\ BlocksInv  BY InitFsInv
<1>1. /\ cwd = [p \in Procs |-> 0] /\ ofile = [p \in Procs |-> None]
      /\ pc = [p \in Procs |-> "user"] /\ ret = [p \in Procs |-> "user"]
      /\ put = [p \in Procs |-> None] /\ at = [p \in Procs |-> None] /\ ip = [p \in Procs |-> None]
      /\ dp = [p \in Procs |-> None] /\ inum = [p \in Procs |-> 0] /\ dinode = Image.dinode /\ data = Image.data
      /\ icache = [s \in Slots |-> [inum |-> 1, ref |-> IF s = 0 THEN Cardinality(Procs) ELSE 0,
                                    valid |-> FALSE, lock |-> 0, d |-> Free("free")]]
  BY DEF Init
<1>2. n \in Nat /\ n < NINODES /\ 1 \in Inums /\ 0 \in Slots /\ 0 # None  BY ImageNames, Consts
<1>3. /\ dinode[1].type = "dir" /\ dinode[1].nlink = 1 /\ dinode[1].size = 1 /\ dinode[1].addrs[0] = 1
      /\ \A i \in Inums : 2 <= i /\ i <= n + 1 => dinode[i].type = "file" /\ dinode[i].nlink = 1
      /\ data[1].ents["."] = 1 /\ data[1].ents[".."] = 1
      /\ \A e \in Names : data[1].ents[e] # 0 =>
           data[1].ents[e] \in 2 .. n + 1 /\ Files[data[1].ents[e] - 1].name = e
      /\ \A i \in Inums : i >= n + 2 => dinode[i] = Free("free")
  BY <1>1, ImageNames, ImageIsOk DEF NamesOk, ImageOk
<1> HIDE DEF n
<1>4. \A i \in Inums : i = 1 \/ (2 <= i /\ i <= n + 1) \/ i >= n + 2  BY <1>2, Consts
<1>5. \A i \in Inums : i # 1 => dinode[i].type \in {"file", "free"} /\ dinode[i].nlink \in {0, 1}
  BY <1>3, <1>4, FreeFields
<1>6. DirsInUse = {1}  BY <1>2, <1>3, <1>5 DEF DirsInUse
<1>7. \A e : dirlookup(dinode[1], e) = data[1].ents[e]  BY <1>3 DEF dirlookup
<1>8. \A p \in Procs : K(p) = "user" /\ MakingBy(p) = 0 /\ PendSlot(p) = None /\ Pending(p) = 0
  <2> TAKE p \in Procs
  <2>1. K(p) = "user" /\ MakingBy(p) = 0  BY <1>1 DEF K, Iput, MakingBy
  <2> QED BY <1>1, <2>1 DEF PendSlot, Pending
<1>9. \A i \in Inums, e \in Names : Tree[i][e] = IF i = 1 THEN data[1].ents[e] ELSE 0  BY <1>6, <1>7 DEF Tree
<1>10. LinksOk(Tree, DirsInUse, NLinks, Pend)
  <2>1. LinksType(Tree, DirsInUse, NLinks, Pend)  BY <1>0, LinksTyped
  <2>2. Forest(Tree)
    <3> SUFFICES ASSUME NEW i \in Inums, NEW j \in Inums, NEW e \in Names, NEW f \in Names, Tree[i][e] = j, Tree[j][f] = i
                 PROVE FALSE
      BY DEF Forest
    <3>1. i # 0 /\ j # 0  BY Consts
    <3>2. i = 1 /\ j = 1  BY <1>9, <3>1
    <3>3. data[1].ents[e] = 1  BY <1>2, <1>9, <3>2
    <3>4. 1 \in 2 .. n + 1  BY <1>3, <3>3
    <3> QED BY <1>2, <3>4
  <2>3. ASSUME NEW i \in Inums PROVE Claimed(Tree, DirsInUse, Pend, i) <= NLinks[i]
    <3>0. NLinks[i] = dinode[i].nlink  BY DEF NLinks
    <3>1. PendOn(Pend, i) = {}
      <4>1. \A p \in Procs : Pend[p] = 0  BY <1>8 DEF Pend
      <4>2. i # 0  BY Consts
      <4> QED BY <4>1, <4>2 DEF PendOn
    <3>2. SubsOf(Tree, DirsInUse, i) = {}
      <4>1. ASSUME NEW e \in Names PROVE Tree[i][e] # 1
        <5>1. data[1].ents[e] # 1
          <6> SUFFICES ASSUME data[1].ents[e] = 1 PROVE FALSE  OBVIOUS
          <6>1. 1 \in 2 .. n + 1  BY <1>3
          <6> QED BY <1>2, <6>1
        <5> QED BY <1>9, <5>1
      <4> QED BY <1>6, <4>1 DEF SubsOf
    <3>3. \A x \in NamedBy(Tree, i) : /\ x = <<1, Files[i - 1].name>> /\ i # 1 /\ i <= n + 1 /\ 2 <= i
      <4> TAKE x \in NamedBy(Tree, i)
      <4>1. x[1] \in Inums /\ x[2] \in Names /\ x = <<x[1], x[2]>> /\ Tree[x[1]][x[2]] = i  BY DEF NamedBy
      <4>2. i # 0  BY Consts
      <4>3. x[1] = 1 /\ data[1].ents[x[2]] = i  BY <1>9, <4>1, <4>2
      <4>4. i \in 2 .. n + 1 /\ Files[i - 1].name = x[2]  BY <1>3, <4>1, <4>2, <4>3
      <4>5. i # 1 /\ i <= n + 1 /\ 2 <= i  BY <1>2, <4>4
      <4> QED BY <4>1, <4>3, <4>4, <4>5
    <3>4. Cardinality(PendOn(Pend, i)) = 0 /\ Cardinality(SubsOf(Tree, DirsInUse, i)) = 0  BY <3>1, <3>2, FS_EmptySet
    <3>5. CASE NamedBy(Tree, i) = {}
      <4>1. Cardinality(NamedBy(Tree, i)) = 0  BY <3>5, FS_EmptySet
      <4>2. Claimed(Tree, DirsInUse, Pend, i) = One(1, i)  BY <3>4, <4>1 DEF Claimed, One
      <4>3. One(1, i) <= dinode[i].nlink  BY <1>3, <1>5 DEF One
      <4> QED BY <3>0, <4>2, <4>3
    <3>6. CASE NamedBy(Tree, i) # {}
      <4>1. i # 1 /\ i <= n + 1 /\ 2 <= i /\ NamedBy(Tree, i) = {<<1, Files[i - 1].name>>}  BY <3>3, <3>6
      <4>2. Cardinality(NamedBy(Tree, i)) = 1  BY <4>1, FS_Singleton
      <4>3. One(1, i) = 0  BY <4>1 DEF One
      <4>4. Claimed(Tree, DirsInUse, Pend, i) = 1  BY <3>4, <4>2, <4>3 DEF Claimed
      <4>5. dinode[i].nlink = 1  BY <1>3, <4>1
      <4> QED BY <3>0, <4>4, <4>5
    <3> QED BY <3>5, <3>6
  <2> QED BY <2>1, <2>2, <2>3 DEF LinksOk
<1>11. DirsOk  BY <1>3, <1>5, <1>6, <1>7 DEF DirsOk, UpOk
<1>12. MakingOk  BY <1>8 DEF MakingOk
<1>13. ASSUME NEW p \in Procs PROVE RegLive(p)
  <2>1. /\ cwd[p] = 0 /\ ofile[p] = None /\ put[p] = None /\ at[p] = None /\ ip[p] = None /\ dp[p] = None /\ pc[p] = "user"
        /\ icache[0].inum = 1
    BY <1>1, <1>2
  <2>2. Alive(1)  BY <1>2, <1>3, <1>8 DEF Alive
  <2>3. LiveOk(p)  BY <2>1, <2>2 DEF LiveOk, Live, Num
  <2>4. Sole(p)  BY <2>1 DEF Sole
  <2>5. Kinds(p)  BY <1>3, <1>8, <2>1 DEF Kinds, DirAt, Num
  <2> QED BY <2>3, <2>4, <2>5 DEF RegLive
<1> QED BY <1>10, <1>11, <1>12, <1>13 DEF LinkInv

LEMMA LinksAreCounted == ASSUME FsInv, BlocksInv, LinkInv PROVE InodesLive
<1>0. LinksOk(Tree, DirsInUse, NLinks, Pend) /\ MakingOk  BY DEF LinkInv
<1>1. \A i \in Inums, e \in Names : Tree[i][e] = IF i \in DirsInUse THEN dirlookup(dinode[i], e) ELSE 0  BY DEF Tree
<1>2. DirsInUse \subseteq Inums /\ 0 \notin Inums  BY Consts DEF DirsInUse
<1>3. ASSUME NEW i \in Inums PROVE Named(i) = NamedBy(Tree, i)
  <2>1. \A x : x \in Named(i) => x \in NamedBy(Tree, i)
    <3> SUFFICES ASSUME NEW x \in Named(i) PROVE x \in NamedBy(Tree, i)  OBVIOUS
    <3>1. x \in DirsInUse \X Names /\ dirlookup(dinode[x[1]], x[2]) = i  BY DEF Named
    <3>2. x \in Inums \X Names /\ x[1] \in DirsInUse /\ x[1] \in Inums /\ x[2] \in Names  BY <1>2, <3>1
    <3>3. Tree[x[1]][x[2]] = i  BY <1>1, <3>1, <3>2
    <3> QED BY <3>2, <3>3 DEF NamedBy
  <2>2. \A x : x \in NamedBy(Tree, i) => x \in Named(i)
    <3> SUFFICES ASSUME NEW x \in NamedBy(Tree, i) PROVE x \in Named(i)  OBVIOUS
    <3>1. x \in Inums \X Names /\ Tree[x[1]][x[2]] = i  BY DEF NamedBy
    <3>2. x[1] \in Inums /\ x[2] \in Names  BY <3>1
    <3>3. x[1] \in DirsInUse /\ dirlookup(dinode[x[1]], x[2]) = i  BY <1>1, <1>2, <3>1, <3>2
    <3>4. x \in DirsInUse \X Names  BY <3>1, <3>3
    <3> QED BY <3>3, <3>4 DEF Named
  <2> QED BY <2>1, <2>2
<1>4. ASSUME NEW i \in Inums PROVE Subdirs(i) = SubsOf(Tree, DirsInUse, i)
  <2>1. \A e \in Names : (i \in DirsInUse /\ dirlookup(dinode[i], e) \in DirsInUse) <=> Tree[i][e] \in DirsInUse
    BY <1>1, <1>2
  <2> QED BY <2>1 DEF Subdirs, SubsOf
<1>5. LinksCounted
  <2> SUFFICES ASSUME NEW i \in Inums
               PROVE  /\ Named(i) # {} => dinode[i].type # "free"
                      /\ Cardinality(Named(i)) + Cardinality(Subdirs(i)) <= dinode[i].nlink
    BY DEF LinksCounted
  <2>1. NLinks[i] = dinode[i].nlink /\ dinode[i].nlink \in Int
    <3>1. dinode[i] \in Inode  BY DEF FsInv, Good
    <3> QED BY <3>1, InodeFields DEF NLinks
  <2>2. Cardinality(NamedBy(Tree, i)) + Cardinality(SubsOf(Tree, DirsInUse, i)) <= dinode[i].nlink
    <3>1. Claimed(Tree, DirsInUse, Pend, i) <= dinode[i].nlink  BY <1>0, <2>1 DEF LinksOk
    <3>2. /\ Cardinality(NamedBy(Tree, i)) \in Nat /\ Cardinality(SubsOf(Tree, DirsInUse, i)) \in Nat
          /\ Cardinality(PendOn(Pend, i)) \in Nat /\ One(1, i) \in Nat
      BY ClaimsFinite
    <3> QED BY <2>1, <3>1, <3>2 DEF Claimed
  <2>3. ASSUME Named(i) # {} PROVE dinode[i].type # "free"
    <3>1. PICK x : x \in NamedBy(Tree, i)  BY <1>3, <2>3
    <3>2. x[1] \in Inums /\ x[2] \in Names /\ Tree[x[1]][x[2]] = i  BY <3>1 DEF NamedBy
    <3>3. dinode[i].nlink > 0  BY <1>0, <2>1, <3>2, ClaimedHasLink
    <3>4. Alive(i)  BY <1>0, <3>3, LinkedIsAlive
    <3> QED BY <3>4 DEF Alive
  <2> QED BY <1>3, <1>4, <2>2, <2>3
<1>6. HeldInodesLive
  <2> SUFFICES ASSUME NEW p \in Procs
               PROVE  /\ dinode[icache[cwd[p]].inum].type = "dir"
                      /\ ofile[p] # None => dinode[icache[ofile[p]].inum].type # "free"
    BY DEF HeldInodesLive
  <2>1. Kinds(p) /\ LiveOk(p)  BY DEF LinkInv, RegLive
  <2>2. ofile[p] # None => Alive(Num(ofile[p]))  BY <2>1 DEF LiveOk, Live
  <2> QED BY <2>1, <2>2 DEF Kinds, DirAt, Alive, Num
<1> QED BY <1>5, <1>6 DEF InodesLive

LEMMA LocksInOrder == ASSUME FsInv, LinkInv PROVE CyclesOnlyInIput
<1> SUFFICES ASSUME NEW p \in Procs, Cycle(p)
             PROVE  \E q \in Procs : Cycle(q) /\ InStep(q, "iput") /\ \E s \in Slots : icache[s].lock = q
  BY DEF CyclesOnlyInIput
<1>0. RegType /\ LockOk /\ icache \in CacheType /\ p # 0 /\ \A s \in Slots : icache[s].lock \in {0} \union Procs
  BY Consts DEF FsInv, Good, CacheType
<1> DEFINE Slot(q) == IF pc[q] = "iput" THEN put[q] ELSE IF pc[q] \in {"write", "read", "stat"} THEN ofile[q] ELSE at[q]
<1>1. ASSUME NEW q \in Procs, Waiting(q) # 0
      PROVE  Slot(q) \in Slots /\ icache[Slot(q)].lock = Waiting(q) /\ (pc[q] = "iput" \/ pc[q] \in Locks)
  <2>1. CASE pc[q] = "iput"
    <3>1. put[q] \in Slots  BY <2>1, InIput DEF Iput
    <3> QED BY <2>1, <3>1 DEF Waiting
  <2>2. CASE pc[q] \in {"write", "read", "stat"}
    <3>1. ofile[q] \in Slots  BY <2>2 DEF FsInv, RegsOk, RegType
    <3> QED BY <2>2, <3>1 DEF Waiting, Locks
  <2>3. CASE pc[q] \notin {"iput", "write", "read", "stat"}
    <3>1. pc[q] \in Locks /\ Waiting(q) = icache[at[q]].lock  BY <1>1, <2>3 DEF Waiting
    <3>2. pc[q] \in AtSteps  BY <2>3, <3>1 DEF Locks, AtSteps
    <3>3. at[q] \in Slots  BY <3>2, AtStep
    <3> QED BY <2>3, <3>1, <3>3
  <2> QED BY <2>1, <2>2, <2>3
<1>2. PICK q : q = Waiting(p)  OBVIOUS
<1>3. q # 0 /\ q \in Procs /\ Waiting(q) = p
  <2>1. Waiting(p) # 0 /\ Waiting(p) \in {p} \union {r \in Procs : Waiting(r) = p}  BY DEF Cycle
  <2> QED BY <1>2, <2>1
<1>4. Cycle(q)  BY <1>0, <1>2, <1>3 DEF Cycle
<1>5. /\ Slot(p) \in Slots /\ icache[Slot(p)].lock = q /\ (pc[p] = "iput" \/ pc[p] \in Locks)
      /\ Slot(q) \in Slots /\ icache[Slot(q)].lock = p /\ (pc[q] = "iput" \/ pc[q] \in Locks)
  BY <1>0, <1>1, <1>2, <1>3
<1>6. CASE pc[p] = "iput"  BY <1>5, <1>6 DEF InStep
<1>7. CASE pc[q] = "iput"  BY <1>3, <1>4, <1>5, <1>7 DEF InStep
<1>8. CASE pc[p] # "iput" /\ pc[q] # "iput"
  <2>1. Holds(q, Slot(p)) /\ Holds(p, Slot(q))  BY <1>0, <1>3, <1>5 DEF LockOk
  <2>2. ASSUME NEW r \in Procs, NEW x \in Slots, pc[r] \in Locks, Holds(r, x)
        PROVE  pc[r] \in {"unlink2", "create3"} /\ dp[r] = x
    <3>1. K(r) = pc[r]  BY <2>2 DEF K, Iput, Locks
    <3> QED BY <2>2, <3>1 DEF Holds, Locks, DpSteps
  <2>3. pc[p] \in {"unlink2", "create3"} /\ pc[q] \in {"unlink2", "create3"} /\ dp[p] = Slot(q) /\ dp[q] = Slot(p)
    BY <1>3, <1>5, <1>8, <2>1, <2>2
  <2>4. Slot(p) = at[p] /\ Slot(q) = at[q]  BY <2>3
  <2> HIDE DEF Slot
  <2>5. dp[p] = at[q] /\ dp[q] = at[p] /\ dp[p] \in Slots /\ dp[q] \in Slots /\ dp[p] # None /\ dp[q] # None
    <3>1. None \notin Slots  BY Consts
    <3> QED BY <1>5, <2>3, <2>4, <3>1
  <2>6. Alive(Num(dp[p])) /\ Alive(Num(dp[q]))  BY <1>3, <2>5 DEF LinkInv, RegLive, LiveOk, Live
  <2>7. pc[p] # "create3" /\ pc[q] # "create3"
    <3>1. pc[p] = "create3" => MakingBy(p) = Num(dp[q])  BY <2>5 DEF MakingBy
    <3>2. pc[q] = "create3" => MakingBy(q) = Num(dp[p])  BY <2>5 DEF MakingBy
    <3> QED BY <1>3, <2>6, <3>1, <3>2 DEF Alive
  <2>8. Kinds(p) /\ Kinds(q)  BY <1>3 DEF LinkInv, RegLive
  <2>9. /\ Tree[Num(dp[p])][skipelem(p)] = Num(dp[q]) /\ skipelem(p) \in Names
        /\ Tree[Num(dp[q])][skipelem(q)] = Num(dp[p]) /\ skipelem(q) \in Names
    BY <2>3, <2>5, <2>7, <2>8 DEF Kinds
  <2>10. Num(dp[p]) \in Inums /\ Num(dp[q]) \in Inums  BY <2>6 DEF Alive
  <2> QED BY <2>9, <2>10 DEF LinkInv, LinksOk, Forest
<1> QED BY <1>6, <1>7, <1>8

LEMMA ReadsNoHole ==
  ASSUME NEW d \in Inode, Shape(d, data)
  PROVE  0 \notin readi(d)
<1>1. NDIRECT \in Nat /\ NINDIRECT \in Nat /\ d.size \in Nat /\ d.size <= NDIRECT + NINDIRECT
  BY InodeFields, Consts DEF MAXFILE
<1>2. ASSUME NEW bn \in 0 .. d.size - 1
      PROVE  (IF bn < NDIRECT THEN d.addrs[bn] ELSE data[d.addrs[NDIRECT]].a[bn - NDIRECT]) # 0
  <2>1. CASE bn < NDIRECT
    <3>1. bn \in 0 .. NDIRECT - 1 /\ bn < d.size  BY <1>1, <2>1
    <3> QED BY <2>1, <3>1 DEF Shape
  <2>2. CASE ~(bn < NDIRECT)
    <3>1. bn - NDIRECT \in 0 .. NINDIRECT - 1 /\ NDIRECT < d.size /\ NDIRECT + (bn - NDIRECT) < d.size  BY <1>1, <2>2
    <3>2. d.addrs[NDIRECT] # 0  BY <3>1 DEF Shape
    <3>3. data[d.addrs[NDIRECT]].a[bn - NDIRECT] # 0  BY <3>1, <3>2 DEF Shape
    <3> QED BY <2>2, <3>3
  <2> QED BY <2>1, <2>2
<1> QED BY <1>2 DEF readi

LEMMA NobodyPanics == ASSUME FsInv, BlocksInv, LinkInv PROVE NoPanic
<1> SUFFICES ASSUME NEW p \in Procs, NEW s, s = IF pc[p] \in {"write", "read", "stat"} THEN ofile[p] ELSE at[p],
                    NEW d, d = Loaded(s).d
             PROVE  /\ pc[p] \in Locks => icache[s].ref > 0 /\ (CanLock(s) => d.type # "free")
                    /\ pc[p] = "free" => itrunc(icache[put[p]].d) \subseteq bitmap
                    /\ pc[p] = "read" /\ CanLock(s) => 0 \notin readi(d)
                    /\ pc[p] = "unlink2" /\ CanLock(s) => d.nlink > 0
                    /\ pc[p] \in {"link2", "unlink1", "create1"} /\ CanLock(s) => d.type = "dir" /\ Filled(d)
                    /\ pc[p] = "create3" /\ CanLock(s) => d.size = 0
  BY DEF NoPanic
<1>0. RegType /\ RegsOk(p) /\ LiveOk(p) /\ Kinds(p) /\ Good(icache, dinode) /\ LinksOk(Tree, DirsInUse, NLinks, Pend)
  BY DEF FsInv, LinkInv, RegLive
<1>1. ASSUME pc[p] \in Locks
      PROVE  /\ s \in Slots /\ s # None /\ icache[s].ref > 0 /\ Num(s) \in Inums /\ d = dinode[Num(s)] /\ d \in Inode
             /\ pc[p] # "create3" => Alive(Num(s))
  <2>1. s \in Slots /\ s # None /\ s \in Ptrs(p) /\ s \in {ofile[p], at[p]} /\ pc[p] \notin Iput
    <3>1. CASE pc[p] \in {"write", "read", "stat"}
      <4>1. s = ofile[p] /\ ofile[p] # None  BY <1>0, <3>1 DEF RegsOk
      <4> QED BY <1>0, <3>1, <4>1 DEF RegType, Ptrs, Iput
    <3>2. CASE pc[p] \notin {"write", "read", "stat"}
      <4>1. s = at[p] /\ pc[p] \in AtSteps  BY <1>1, <3>2 DEF Locks, AtSteps
      <4>2. at[p] \in Slots /\ at[p] # None /\ pc[p] \notin Iput  BY <4>1, AtStep
      <4> QED BY <4>1, <4>2 DEF Ptrs
    <3> QED BY <3>1, <3>2
  <2>2. icache[s].ref > 0 /\ Num(s) \in Inums  BY <2>1, PointerSlot
  <2>3. d = dinode[Num(s)] /\ d \in Inode  BY <1>0, <2>1, <2>2, LoadedIs DEF Num
  <2>4. pc[p] # "create3" => Alive(Num(s))  BY <1>0, <2>1 DEF LiveOk, Live
  <2> QED BY <2>1, <2>2, <2>3, <2>4
<1>2. pc[p] = "create3" => dinode[Num(s)] = Free(NewType(p)) /\ d = dinode[Num(s)]
  <2> SUFFICES ASSUME pc[p] = "create3" PROVE dinode[Num(s)] = Free(NewType(p)) /\ d = dinode[Num(s)]  OBVIOUS
  <2>1. pc[p] \in Locks  BY DEF Locks
  <2>2. Num(s) \in Inums /\ d = dinode[Num(s)]  BY <1>1, <2>1
  <2>3. MakingBy(p) = Num(s) /\ MakingBy(p) # 0  BY <2>2, Consts DEF MakingBy
  <2> QED BY <2>2, <2>3 DEF LinkInv, MakingOk
<1>3. pc[p] \in Locks => icache[s].ref > 0 /\ d.type # "free"
  <2>1. pc[p] = "create3" => d.type # "free"
    <3>1. pc[p] = "create3" => d.type = NewType(p)  BY <1>2, FreeFields
    <3> QED BY <3>1, NewTypeIs
  <2> QED BY <1>1, <2>1 DEF Alive
<1>4. ASSUME pc[p] = "free" PROVE itrunc(icache[put[p]].d) \subseteq bitmap
  <2>1. put[p] \in Slots /\ icache[put[p]].ref > 0 /\ Num(put[p]) \in Inums  BY <1>4, InIput DEF Iput, Num
  <2>2. icache[put[p]].lock = p  BY <1>4, <2>1 DEF FsInv, LockOk, Holds
  <2>3. icache[put[p]].d = dinode[Num(put[p])]  BY <2>1, <2>2, Consts DEF FsInv, Good, Num
  <2>4. itrunc(icache[put[p]].d) = OwnedIn(dinode[Num(put[p])], data)
    BY <2>3 DEF itrunc, OwnedIn, Indirect, IndirectIn
  <2>5. OwnedIn(dinode[Num(put[p])], data) \subseteq Blocks  BY <2>1, OwnedAreBlocks DEF BlocksInv, BlocksIn
  <2> QED BY <2>1, <2>4, <2>5 DEF BlocksInv, BlocksIn
<1>5. ASSUME pc[p] = "read" PROVE 0 \notin readi(d)
  <2>1. Num(s) \in Inums /\ d = dinode[Num(s)] /\ d \in Inode  BY <1>1, <1>5 DEF Locks
  <2> QED BY <2>1, ReadsNoHole DEF BlocksInv, BlocksIn
<1>6. ASSUME pc[p] = "unlink2" PROVE d.nlink > 0
  <2>1. s = at[p] /\ Num(s) \in Inums /\ d = dinode[Num(s)]  BY <1>1, <1>6 DEF Locks
  <2>2. Tree[Num(dp[p])][skipelem(p)] = Num(s) /\ skipelem(p) \in Names  BY <1>0, <1>6, <2>1 DEF Kinds
  <2>3. Num(dp[p]) \in Inums  BY <1>6, HeldDp DEF DpSteps, Num
  <2>4. NLinks[Num(s)] > 0  BY <1>0, <2>1, <2>2, <2>3, ClaimedHasLink
  <2> QED BY <2>1, <2>4 DEF NLinks
<1>7. ASSUME pc[p] \in {"link2", "unlink1", "create1"} PROVE d.type = "dir" /\ Filled(d)
  <2>1. s = at[p] /\ Num(s) \in Inums /\ d = dinode[Num(s)] /\ Alive(Num(s))  BY <1>1, <1>7 DEF Locks
  <2>2. K(p) = pc[p]  BY <1>7 DEF K, Iput
  <2>3. d.type = "dir"  BY <1>0, <1>7, <2>1, <2>2 DEF Kinds, DirAt
  <2>4. dinode[Num(s)].size > 0  BY <2>1, <2>3, AliveDir
  <2> QED BY <2>1, <2>3, <2>4 DEF Filled
<1>8. pc[p] = "create3" => d.size = 0  BY <1>2, FreeFields
<1> QED BY <1>3, <1>4, <1>5, <1>6, <1>7, <1>8

\* Then every ".." leads to the root, which has a link of its own.
LEMMA UpToRoot ==
  ASSUME TopDirs, FsInv, BlocksInv, LinkInv
  PROVE  UpLive
<1> SUFFICES ASSUME NEW p \in Procs, LooksUp(p), DirAt(at[p])
             PROVE  LET i == dirlookup(dinode[Num(at[p])], "..") IN i # 0 /\ dinode[i].nlink > 0
  BY DEF UpLive
<1>1. pc[p] \in {"link2", "create1", "namex"}  BY DEF LooksUp
<1>2. K(p) = pc[p]  BY <1>1 DEF K, Iput
<1>3. at[p] # None  BY <1>1, <1>2 DEF FsInv, RegsOk, AtSteps
<1>4. at[p] \in Slots /\ Num(at[p]) \in Inums  BY <1>3, PointerSlot DEF Ptrs
<1>5. Found(Num(at[p]))  BY <1>1, <1>4, PointedIsFound DEF Ptrs
<1>6. Num(at[p]) \in DirsInUse  BY <1>4, <1>5, AliveDir DEF Found, DirAt
<1>7. dirlookup(dinode[Num(at[p])], "..") = 1  BY <1>6 DEF LinkInv, DirsOk, UpOk
<1>8. 1 \in Inums /\ 1 # 0  BY Consts
<1>9. NLinks[1] > 0  BY <1>8, ClaimedHasLink DEF LinkInv
<1>10. dinode[1].nlink > 0  BY <1>8, <1>9 DEF NLinks
<1> QED BY <1>7, <1>8, <1>10

\* No path has a "..".
NoUps   == \A c \in Calls : c.path \in Seq(Names \union {"."}) /\ c.new \in Seq(Names \union {"."})
PathsOk == NoUps => \A p \in Procs : path[p] \in Seq(Names \union {"."})

LEMMA PathsStep == FsInv /\ PathsOk /\ [Next]_vars => PathsOk'
<1> SUFFICES ASSUME FsInv, PathsOk, [Next]_vars, NoUps, NEW q \in Procs PROVE path'[q] \in Seq(Names \union {"."})
  BY DEF PathsOk
<1>0. path[q] \in Seq(Names \union {"."}) /\ path \in [Procs -> Seq(Elems)]  BY DEF PathsOk, FsInv, RegType
<1>1. CASE path' = path  BY <1>0, <1>1
<1>2. ASSUME NEW p \in Procs, NEW x \in Seq(Names \union {"."}), path' = [path EXCEPT ![p] = x]
      PROVE  path'[q] \in Seq(Names \union {"."})
  BY <1>0, <1>2
<1>3. ASSUME NEW p \in Procs, namex(p) PROVE path'[q] \in Seq(Names \union {"."})
  <2>1. CASE path' = [path EXCEPT ![p] = Tail(@)]
    <3>2. path[p] # <<>> /\ path[p] \in Seq(Names \union {"."})  BY <1>3 DEF namex, PathsOk
    <3>3. Tail(path[p]) \in Seq(Names \union {"."})
      <4>1. PICK S : S = Names \union {"."}  OBVIOUS
      <4>2. path[p] \in Seq(S)  BY <3>2, <4>1
      <4>3. Tail(path[p]) \in Seq(S)  BY <3>2, <4>2
      <4> QED BY <4>1, <4>3
    <3>4. path' = [path EXCEPT ![p] = Tail(path[p])]  BY <2>1
    <3> QED BY <1>2, <3>3, <3>4
  <2> QED BY <1>1, <1>3, <2>1 DEF namex
<1>4. ASSUME NEW p \in Procs, link1(p) PROVE path'[q] \in Seq(Names \union {"."})
  <2>1. pc[p] = "link1"  BY <1>4 DEF link1, ilock, InStep
  <2>2. call[p] \in Calls  BY <2>1 DEF FsInv, RegsOk, K, Iput, Idle
  <2>3. call[p].new \in Seq(Names \union {"."})  BY <2>2 DEF NoUps
  <2> QED BY <1>1, <1>2, <1>4, <2>3 DEF link1
<1>5. ASSUME NEW p \in Procs, end_op(p) PROVE path'[q] \in Seq(Names \union {"."})
  <2>1. <<>> \in Seq(Names \union {"."})  OBVIOUS
  <2> QED BY <1>2, <1>5, <2>1 DEF end_op
<1>6. ASSUME NEW p \in Procs, Enter(p) PROVE path'[q] \in Seq(Names \union {"."})
  <2>1. CASE UseFile(p)  BY <1>1, <2>1 DEF UseFile
  <2>2. ASSUME NEW c \in Calls, Syscall(p, c) PROVE path'[q] \in Seq(Names \union {"."})
    BY <1>2, <2>2 DEF Syscall, NoUps
  <2> QED BY <1>6, <2>1, <2>2 DEF Enter
<1>7. ASSUME NEW p \in Procs, Step(p), ~namex(p), ~link1(p), ~end_op(p) PROVE path' = path
  BY <1>7 DEF Step, iput, IputFree, IputDrop, NamexNone, open1, chdir1, filewrite, fileread, filestat, Look, begin2, link2, link3,
              UnlockDp, linkbad, unlink1, unlink2, unlink3, create1, create2, ialloc, create3, create4
<1>8. CASE UNCHANGED vars  BY <1>1, <1>8 DEF vars
<1> QED BY <1>1, <1>3, <1>4, <1>5, <1>6, <1>7, <1>8 DEF Next

LEMMA InitPaths == Init => PathsOk
<1>1. <<>> \in Seq(Names \union {"."})  OBVIOUS
<1> QED BY <1>1 DEF Init, PathsOk

LEMMA NothingUp ==
  ASSUME NoUps, FsInv, PathsOk
  PROVE  UpLive
<1> SUFFICES ASSUME NEW p \in Procs, LooksUp(p), skipelem(p) = ".." PROVE FALSE  BY DEF UpLive
<1>1. pc[p] \in {"link2", "create1", "namex"}  BY DEF LooksUp
<1>2. K(p) = pc[p]  BY <1>1 DEF K, Iput
<1>3. path[p] # <<>> /\ path[p] \in Seq(Names \union {"."})  BY <1>1, <1>2 DEF LooksUp, FsInv, RegsOk, PathsOk
<1>4. Head(path[p]) \in Names \union {"."}
  <2>1. PICK S : S = Names \union {"."}  OBVIOUS
  <2>2. path[p] \in Seq(S)  BY <1>3, <2>1
  <2>3. Head(path[p]) \in S  BY <1>3, <2>2
  <2> QED BY <2>1, <2>3
<1>5. ".." \notin Names /\ ".." # "."  BY FsAssumption
<1> QED BY <1>4, <1>5 DEF skipelem

\* What the calls keep between them, for the names and links of the disk.
NamesInv == FsInv /\ BlocksInv /\ LinkInv /\ TopRegs /\ PathsOk

\* The calls by which a lookup of ".." cannot leave the tree: directories are
\* made in the root only, so that every ".." is the root, or no path has a "..".
UpSafe == TopDirs \/ NoUps

LEMMA NamesStep == NamesInv /\ UpLive /\ [Next]_vars => NamesInv'
BY NextKeeps, BlocksStep, LinkStep, TopStep, PathsStep DEF NamesInv

LEMMA InitNames == Init => NamesInv
BY InitFsInv, InitLinks, InitTop, InitPaths DEF NamesInv

LEMMA NamesCorrect == NamesInv => InodesLive /\ NoPanic /\ CyclesOnlyInIput
BY LinksAreCounted, NobodyPanics, LocksInOrder DEF NamesInv

LEMMA SafeUps == ASSUME UpSafe PROVE NamesInv => UpLive
BY UpToRoot, NothingUp DEF UpSafe, NamesInv

LEMMA NamesAlways == ASSUME UpSafe PROVE Spec => []NamesInv
<1>1. NamesInv /\ [Next]_vars => NamesInv'  BY SafeUps, NamesStep
<1> QED BY <1>1, InitNames, PTL DEF Spec

\* An inode lives as long as a name leads to it or a process holds it, whatever
\* create, sys_link, sys_unlink, iput and the calls on open files do between
\* them: sys_link counts a link before it enters it, sys_unlink erases the
\* entry before it drops the count, and iput frees only on the last use.
THEOREM InodesCorrect == ASSUME UpSafe PROVE Spec => []InodesLive
<1>1. NamesInv => InodesLive  BY NamesCorrect
<1> QED BY <1>1, NamesAlways, PTL

\* No interleaving of the calls reaches one of the panics that NoPanic stands
\* for: ilock and iunlock, dirlookup and dirlink, the nlink < 1 of sys_unlink,
\* bfree, and the log_write of a read that would allocate.
THEOREM PanicsCorrect == ASSUME UpSafe PROVE Spec => []NoPanic
<1>1. NamesInv => NoPanic  BY NamesCorrect
<1> QED BY <1>1, NamesAlways, PTL

\* namex, create, sys_unlink and sys_link take inode locks from a directory to
\* what it names, so processes wait in a cycle only where one of them is in an
\* iput that was called with a lock held.
THEOREM CyclesCorrect == ASSUME UpSafe PROVE Spec => []CyclesOnlyInIput
<1>1. NamesInv => CyclesOnlyInIput  BY NamesCorrect
<1> QED BY <1>1, NamesAlways, PTL

\* For calls of any kind, the same along every behaviour in which a lookup of
\* ".." finds a directory that is still linked: the ".." that unlink leaves in
\* a removed directory is the only way in which dirlookup can lead astray.
THEOREM LinkedUpsCorrect == Spec /\ []UpLive => [](InodesLive /\ NoPanic /\ CyclesOnlyInIput)
<1>1. NamesInv => InodesLive /\ NoPanic /\ CyclesOnlyInIput  BY NamesCorrect
<1> QED BY <1>1, NamesStep, InitNames, PTL DEF Spec
=============================================================================
