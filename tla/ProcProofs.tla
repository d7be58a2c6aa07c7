----------------------------- MODULE ProcProofs -----------------------------
(***************************************************************************)
(* Proofs about the process table, for every number of slots, processors,  *)
(* pids and ticks.                                                         *)
(*                                                                         *)
(* The argument: what sched() was called from (sw) determines the state,   *)
(* the channel and the place in the kernel of a process that does not run  *)
(* (Slots); a process that is not RUNNING keeps its processor only while   *)
(* that processor holds ptable.lock (OnCpu); tickslock is held from the    *)
(* test of the condition to the call of sleep (Tick); an embryo belongs to *)
(* one fork (Forks), and everybody's parent is alive (Family).             *)
(***************************************************************************)
EXTENDS Proc, WellFoundedInduction, TLAPS

\* One slot: its state, where it called sched(), its channel and its label.
Slot(p) ==
  /\ state[p] = "UNUSED" => sw[p] = "none" /\ pc[p] \in {"user", "exit"} /\ parent[p] = Nobody
  /\ state[p] = "EMBRYO" => sw[p] = "forkret"
  /\ state[p] = "SLEEPING" => sw[p] \in {"sleep", "wait"}
  /\ state[p] = "RUNNABLE" => sw[p] \in {"forkret", "yield", "sleep", "wait"}
  /\ state[p] = "ZOMBIE" <=> sw[p] = "exit"
  /\ sw[p] = "wait" <=> pc[p] = "wait"
  /\ sw[p] = "sleep" => pc[p] = "again"
  /\ sw[p] = "forkret" => pc[p] = "user"
  /\ sw[p] = "exit" => pc[p] = "exit"
  /\ pc[p] = "doze" => sw[p] = "none"
  /\ chan[p] = IF sw[p] = "wait" THEN p ELSE IF sw[p] = "sleep" THEN Ticks ELSE Nobody

Slots == \A p \in Procs : Slot(p)

\* The process of a processor runs, or has called sched() and that processor holds
\* ptable.lock; no two processors have the same one.
OnCpu ==
  /\ \A c \in CPUs : proc[c] # Nobody =>
       /\ proc[c] \in Used
       /\ sw[proc[c]] = "none" => state[proc[c]] = "RUNNING"
       /\ sw[proc[c]] # "none" => ptlock = c
  /\ \A c, d \in CPUs : proc[c] # Nobody /\ proc[c] = proc[d] => c = d

\* tickslock is held by the process between the test of sys_sleep and sleep().
Tick ==
  \A p \in Procs : /\ tickslock = p <=> pc[p] = "doze"
                   /\ pc[p] = "doze" => elapsed[p] < SleepTicks

\* An embryo belongs to the fork that allocated it.
Forks ==
  /\ \A p \in Procs :
       /\ np[p] # Nobody <=> pc[p] \in {"copy", "start"}
       /\ np[p] # Nobody => /\ state[np[p]] = "EMBRYO"
                            /\ parent[np[p]] = IF pc[p] = "copy" THEN Nobody ELSE p
  /\ \A p, q \in Procs : np[p] # Nobody /\ np[p] = np[q] => p = q

\* Parents are alive and nobody is its own; init never leaves.
Family ==
  /\ \A p \in Procs :
       /\ parent[p] # Nobody => parent[p] \in Used /\ state[parent[p]] # "ZOMBIE" /\ parent[p] # p
       /\ p \in Used /\ p # initproc => parent[p] # Nobody
  /\ initproc \in Used /\ state[initproc] # "ZOMBIE" /\ parent[initproc] = Nobody

\* A pid is given away once.
Pids ==
  /\ \A p \in Procs : pid[p] < nextpid /\ (state[p] # "UNUSED" => pid[p] # 0)
  /\ \A p, q \in Procs : pid[p] # 0 /\ pid[p] = pid[q] => p = q

ProcInv ==
  TypeOK /\ Slots /\ OnCpu /\ Tick /\ Forks /\ Family /\ Pids /\ NoLostWakeup
-----------------------------------------------------------------------------
(***************************************************************************)
(* Constants and operators.                                                *)
(***************************************************************************)
LEMMA Constants ==
  /\ initproc \in Procs /\ Nobody \notin Procs /\ Nobody \notin CPUs
  /\ Ticks \notin Procs /\ Ticks # Nobody
  /\ 0 .. NPROC = Procs \union {Nobody} /\ 0 .. NCPU = CPUs \union {Nobody}
  /\ 0 .. Ticks = Procs \union {Nobody, Ticks} /\ Procs \subseteq Nat
BY ProcAssumption DEF Procs, CPUs, initproc, Nobody, Ticks

LEMMA LeastNat ==
  ASSUME NEW S \in SUBSET Nat, S # {}
  PROVE  \E n \in S : \A k \in S : n <= k
<1>1. PICK n \in S : \A k \in S : ~(<<k, n>> \in OpToRel(<, Nat))
  BY WFMin, NatLessThanWellFounded
<1>2. \A k \in S : ~(k < n)  BY <1>1 DEF OpToRel
<1> QED BY <1>2

\* A scan finds a member of what it looks for.
LEMMA FirstIn == ASSUME NEW S \in SUBSET Procs, S # {} PROVE First(S) \in S
BY LeastNat, Constants DEF First

\* The type invariant with the sets written the way the proofs use them.
LEMMA Types ==
  TypeOK <=>
    /\ state \in [Procs -> States] /\ pid \in [Procs -> 0 .. MaxPid]
    /\ parent \in [Procs -> Procs \union {Nobody}] /\ killed \in [Procs -> BOOLEAN]
    /\ chan \in [Procs -> Procs \union {Nobody, Ticks}] /\ nextpid \in 1 .. MaxPid + 1
    /\ proc \in [CPUs -> Procs \union {Nobody}] /\ ptlock \in CPUs \union {Nobody}
    /\ tickslock \in Procs \union {Nobody}
    /\ pc \in [Procs -> Labels]
    /\ sw \in [Procs -> {"none", "forkret", "yield", "sleep", "wait", "exit"}]
    /\ np \in [Procs -> Procs \union {Nobody}] /\ elapsed \in [Procs -> 0 .. SleepTicks]
    /\ shell \in 0 .. MaxPid
BY Constants DEF TypeOK

LEMMA InitInv == Init => ProcInv
<1> SUFFICES ASSUME Init PROVE ProcInv  OBVIOUS
<1>0. shell \in 0 .. MaxPid  BY ProcAssumption DEF Init, Nobody
<1>1. TypeOK  BY <1>0, Constants, Types, ProcAssumption DEF Init, States, Labels
<1>2. Slots  BY Constants DEF Init, Slots, Slot
<1>3. OnCpu  BY Constants DEF Init, OnCpu
<1>4. Tick  BY Constants DEF Init, Tick
<1>5. Forks  BY Constants DEF Init, Forks
<1>6. Family  BY Constants DEF Init, Family, Used
<1>7. Pids  BY Constants DEF Init, Pids
<1>8. NoLostWakeup  BY Constants DEF Init, NoLostWakeup
<1> QED BY <1>1, <1>2, <1>3, <1>4, <1>5, <1>6, <1>7, <1>8 DEF ProcInv

-----------------------------------------------------------------------------
LEMMA SchedStep ==
  ASSUME ProcInv, NEW c \in CPUs, NEW p \in Procs, Sched(c, p) PROVE ProcInv'
<1> USE DEF ProcInv, Sched, table, local
<1>1. TypeOK'  BY Constants, Types DEF TypeOK
<1>2. Slots'  BY DEF Slots, Slot
<1>3. OnCpu'  BY Constants, Types DEF OnCpu, Used
<1>4. Tick'  BY DEF Tick
<1>5. Forks'  BY DEF Forks
<1>6. Family'  BY DEF Family, Used
<1>7. Pids'  BY DEF Pids
<1>8. NoLostWakeup'  BY DEF NoLostWakeup
<1> QED BY <1>1, <1>2, <1>3, <1>4, <1>5, <1>6, <1>7, <1>8 DEF ProcInv

LEMMA SchedulerStep ==
  ASSUME ProcInv, NEW c \in CPUs, NEW p \in Procs, Scheduler(c, p) PROVE ProcInv'
<1> USE DEF ProcInv, Scheduler, Free, local
<1>1. TypeOK'  BY Constants, Types DEF TypeOK, States
<1>2. Slots'  BY Types DEF Slots, Slot
<1>3. OnCpu'  BY Constants, Types DEF OnCpu, Used, Slots, Slot
<1>4. Tick'  BY DEF Tick
<1>5. Forks'  BY Types DEF Forks
<1>6. Family'  BY Types DEF Family, Used
<1>7. Pids'  BY Types DEF Pids
<1>8. NoLostWakeup'  BY Types DEF NoLostWakeup
<1> QED BY <1>1, <1>2, <1>3, <1>4, <1>5, <1>6, <1>7, <1>8 DEF ProcInv

LEMMA ResumeStep ==
  ASSUME ProcInv, NEW c \in CPUs, NEW p \in Procs, Resume(c, p) PROVE ProcInv'
<1> USE DEF ProcInv, Resume, Goto
<1>1. TypeOK'  BY Constants, Types DEF TypeOK, Labels
<1>2. Slots'  BY Types DEF Slots, Slot
<1>3. OnCpu'  BY Constants, Types DEF OnCpu, Used, Slots, Slot
<1>4. Tick'  BY Types DEF Tick
<1>5. Forks'  BY Types DEF Forks
<1>6. Family'  BY Types DEF Family, Used
<1>7. Pids'  BY Types DEF Pids
<1>8. NoLostWakeup'  BY Types DEF NoLostWakeup
<1> QED BY <1>1, <1>2, <1>3, <1>4, <1>5, <1>6, <1>7, <1>8 DEF ProcInv

LEMMA CallExitStep ==
  ASSUME ProcInv, NEW c \in CPUs, NEW p \in Procs, CallExit(c, p) PROVE ProcInv'
<1> USE DEF ProcInv, CallExit, At, Goto, table, sched
<1>1. TypeOK'  BY Constants, Types DEF TypeOK, Labels, States
<1>2. Slots'  BY Types, Constants DEF Slots, Slot
<1>3. OnCpu'  BY Constants, Types DEF OnCpu, Used, Slots, Slot
<1>4. Tick'  BY Constants, Types DEF Tick
<1>5. Forks'  BY Types, Constants DEF Forks
<1>6. Family'  BY Types, Constants DEF Family, Used
<1>7. Pids'  BY Types DEF Pids
<1>8. NoLostWakeup'  BY Types DEF NoLostWakeup
<1> QED BY <1>1, <1>2, <1>3, <1>4, <1>5, <1>6, <1>7, <1>8 DEF ProcInv

LEMMA ForkFailsStep ==
  ASSUME ProcInv, NEW c \in CPUs, NEW p \in Procs, ForkFails(c, p) PROVE ProcInv'
<1> USE DEF ProcInv, ForkFails, At, NoFork, Leave, Goto, sched
<1>a. state[p] = "RUNNING" /\ p # Nobody  BY Constants DEF OnCpu
<1>b. PICK q : q = np[p]  OBVIOUS
<1>0. /\ q = np[p] /\ q \in Procs /\ q # p /\ state[p] = "RUNNING" /\ state[q] = "EMBRYO"
      /\ parent[q] = Nobody /\ sw[q] = "forkret" /\ pc[q] = "user" /\ q # initproc
  BY <1>a, <1>b, Types, Constants DEF Forks, Slots, Slot, Family, Used
<1>1. TypeOK'  BY <1>0, Constants, Types DEF TypeOK, Labels, States
<1>2. Slots'  BY <1>0, Types, Constants DEF Slots, Slot
<1>3. OnCpu'  BY <1>0, Constants, Types DEF OnCpu, Used
<1>4. Tick'  BY <1>0, Constants, Types DEF Tick
<1>5. Forks'  BY <1>0, Types, Constants DEF Forks
<1>6. Family'  BY <1>0, Types, Constants DEF Family, Used
<1>7. Pids'  BY <1>0, Types DEF Pids
<1>8. NoLostWakeup'  BY <1>0, Types DEF NoLostWakeup
<1> QED BY <1>1, <1>2, <1>3, <1>4, <1>5, <1>6, <1>7, <1>8 DEF ProcInv

LEMMA ForkCopyStep ==
  ASSUME ProcInv, NEW c \in CPUs, NEW p \in Procs, ForkCopy(c, p) PROVE ProcInv'
<1> USE DEF ProcInv, ForkCopy, At, Goto, sched
<1>a. state[p] = "RUNNING" /\ p # Nobody  BY Constants DEF OnCpu
<1>b. PICK q : q = np[p]  OBVIOUS
<1>0. /\ q = np[p] /\ q \in Procs /\ q # p /\ state[p] = "RUNNING" /\ state[q] = "EMBRYO"
      /\ parent[q] = Nobody /\ sw[q] = "forkret" /\ pc[q] = "user" /\ q # initproc
  BY <1>a, <1>b, Types, Constants DEF Forks, Slots, Slot, Family, Used
<1>1. TypeOK'  BY <1>0, Constants, Types DEF TypeOK, Labels, States
<1>2. Slots'  BY <1>0, Types, Constants DEF Slots, Slot
<1>3. OnCpu'  BY <1>0, Constants, Types DEF OnCpu, Used
<1>4. Tick'  BY <1>0, Constants, Types DEF Tick
<1>5. Forks'  BY <1>0, Types, Constants DEF Forks
<1>6. Family'  BY <1>0, Types, Constants DEF Family, Used
<1>7. Pids'  BY <1>0, Types DEF Pids
<1>8. NoLostWakeup'  BY <1>0, Types DEF NoLostWakeup
<1> QED BY <1>1, <1>2, <1>3, <1>4, <1>5, <1>6, <1>7, <1>8 DEF ProcInv

LEMMA ForkStartStep ==
  ASSUME ProcInv, NEW c \in CPUs, NEW p \in Procs, ForkStart(c, p) PROVE ProcInv'
<1> USE DEF ProcInv, ForkStart, At, Free, Leave, Goto, sched
<1>a. state[p] = "RUNNING" /\ p # Nobody  BY Constants DEF OnCpu
<1>b. PICK q : q = np[p]  OBVIOUS
<1>0. /\ q = np[p] /\ q \in Procs /\ q # p /\ state[p] = "RUNNING" /\ state[q] = "EMBRYO"
      /\ parent[q] = p /\ sw[q] = "forkret" /\ pc[q] = "user" /\ q # initproc
  BY <1>a, <1>b, Types, Constants DEF Forks, Slots, Slot, Family, Used
<1>1. TypeOK'  BY <1>0, Constants, Types DEF TypeOK, Labels, States
<1>2. Slots'  BY <1>0, Types, Constants DEF Slots, Slot
<1>3. OnCpu'  BY <1>0, Constants, Types DEF OnCpu, Used
<1>4. Tick'  BY <1>0, Constants, Types DEF Tick
<1>5. Forks'  BY <1>0, Types, Constants DEF Forks
<1>6. Family'  BY <1>0, Types, Constants DEF Family, Used
<1>7. Pids'  BY <1>0, Types DEF Pids
<1>8. NoLostWakeup'  BY <1>0, Types DEF NoLostWakeup
<1> QED BY <1>1, <1>2, <1>3, <1>4, <1>5, <1>6, <1>7, <1>8 DEF ProcInv

LEMMA SysSleepStep ==
  ASSUME ProcInv, NEW c \in CPUs, NEW p \in Procs, sys_sleep(c, p) PROVE ProcInv'
<1> USE DEF ProcInv, sys_sleep, Enter, At, Leave, Goto, table
<1>0. state[p] = "RUNNING" /\ p # Nobody  BY Constants DEF OnCpu
<1>1. TypeOK'
  <2>1. elapsed' \in [Procs -> 0 .. SleepTicks]  BY Types, ProcAssumption
  <2>2. pc' \in [Procs -> Labels]  BY Types DEF Labels
  <2>3. tickslock' \in 0 .. NPROC  BY Types, Constants
  <2> QED BY <2>1, <2>2, <2>3 DEF TypeOK
<1>2. Slots'  BY <1>0, Types, Constants DEF Slots, Slot
<1>3. OnCpu'  BY <1>0, Constants, Types DEF OnCpu, Used
<1>4. Tick'  BY <1>0, Constants, Types DEF Tick
<1>5. Forks'  BY <1>0, Types, Constants DEF Forks
<1>6. Family'  BY <1>0, Types, Constants DEF Family, Used
<1>7. Pids'  BY <1>0, Types DEF Pids
<1>8. NoLostWakeup'  BY <1>0, Types DEF NoLostWakeup
<1> QED BY <1>1, <1>2, <1>3, <1>4, <1>5, <1>6, <1>7, <1>8 DEF ProcInv

LEMMA SleepStep ==
  ASSUME ProcInv, NEW c \in CPUs, NEW p \in Procs, sleep(c, p) PROVE ProcInv'
<1> USE DEF ProcInv, sleep, FallAsleep, At, Free, Goto
<1>0. state[p] = "RUNNING" /\ p # Nobody  BY Constants DEF OnCpu
<1>1. TypeOK'  BY <1>0, Constants, Types DEF TypeOK, Labels, States
<1>2. Slots'  BY <1>0, Types, Constants DEF Slots, Slot
<1>3. OnCpu'  BY <1>0, Constants, Types DEF OnCpu, Used
<1>4. Tick'  BY <1>0, Constants, Types DEF Tick
<1>5. Forks'  BY <1>0, Types, Constants DEF Forks
<1>6. Family'  BY <1>0, Types, Constants DEF Family, Used
<1>7. Pids'  BY <1>0, Types DEF Pids
<1>8. NoLostWakeup'  BY <1>0, Types DEF NoLostWakeup, Tick, Slots, Slot
<1> QED BY <1>1, <1>2, <1>3, <1>4, <1>5, <1>6, <1>7, <1>8 DEF ProcInv

LEMMA UnchangedStep == ASSUME ProcInv, UNCHANGED vars PROVE ProcInv'
<1> USE DEF vars, table, sched, local
<1>1. TypeOK'  BY DEF ProcInv, TypeOK
<1>2. (Slots /\ OnCpu)'  BY DEF ProcInv, Slots, Slot, OnCpu, Used
<1>3. (Tick /\ Forks /\ Family)'  BY DEF ProcInv, Tick, Forks, Family, Used
<1>4. (Pids /\ NoLostWakeup)'  BY DEF ProcInv, Pids, NoLostWakeup
<1> QED BY <1>1, <1>2, <1>3, <1>4 DEF ProcInv

LEMMA EmbryoStep ==
  ASSUME ProcInv, NEW c \in CPUs, NEW p \in Procs, Enter(c, p, "fork"),
         NEW q \in Unused, nextpid <= MaxPid, Embryo(p, q),
         UNCHANGED <<parent, killed, chan, sched, elapsed, shell>> PROVE ProcInv'
<1> USE DEF ProcInv, Enter, At, Embryo, sched
<1>0. /\ state[p] = "RUNNING" /\ q \in Procs /\ state[q] = "UNUSED" /\ q # p /\ sw[q] = "none"
      /\ parent[q] = Nobody /\ np[q] = Nobody /\ pc[q] \in {"user", "exit"} /\ q # initproc
      /\ p # Nobody /\ chan[q] = Nobody /\ np[p] = Nobody
  BY Constants, Types DEF OnCpu, Unused, Slots, Slot, Family, Used, Forks
<1>1. TypeOK'
  <2>1. nextpid' \in 1 .. MaxPid + 1 /\ nextpid \in 0 .. MaxPid  BY Types, ProcAssumption
  <2>2. pid' \in [Procs -> 0 .. MaxPid]  BY <2>1, Types
  <2>3. pc' \in [Procs -> Labels] /\ state' \in [Procs -> States]  BY Types DEF Labels, States
  <2>4. np' \in [Procs -> 0 .. NPROC]  BY <1>0, Types, Constants
  <2> QED BY <2>1, <2>2, <2>3, <2>4, Types DEF TypeOK
<1>2. Slots'  BY <1>0, Types, Constants DEF Slots, Slot
<1>3. OnCpu'  BY <1>0, Constants, Types DEF OnCpu, Used
<1>4. Tick'  BY <1>0, Constants, Types DEF Tick
<1>5. Forks'  BY <1>0, Types, Constants DEF Forks
<1>6. Family'  BY <1>0, Types, Constants DEF Family, Used
<1>7. Pids'  BY <1>0, Types DEF Pids
<1>8. NoLostWakeup'  BY <1>0, Types DEF NoLostWakeup
<1> QED BY <1>1, <1>2, <1>3, <1>4, <1>5, <1>6, <1>7, <1>8 DEF ProcInv

LEMMA NoSlotStep ==
  ASSUME ProcInv, NEW c \in CPUs, NEW p \in Procs, At(c, p, "user"), NoFork(p),
         UNCHANGED <<state, pid, nextpid, sw, np>>,
         UNCHANGED <<parent, killed, chan, sched, elapsed, shell>> PROVE ProcInv'
<1> USE DEF ProcInv, At, NoFork, Leave, Goto, sched
<1>0. state[p] = "RUNNING" /\ p # Nobody  BY Constants DEF OnCpu
<1>1. TypeOK'  BY <1>0, Constants, Types DEF TypeOK, Labels, States
<1>2. Slots'  BY <1>0, Types, Constants DEF Slots, Slot
<1>3. OnCpu'  BY <1>0, Constants, Types DEF OnCpu, Used
<1>4. Tick'  BY <1>0, Constants, Types DEF Tick
<1>5. Forks'  BY <1>0, Types, Constants DEF Forks
<1>6. Family'  BY <1>0, Types, Constants DEF Family, Used
<1>7. Pids'  BY <1>0, Types DEF Pids
<1>8. NoLostWakeup'  BY <1>0, Types DEF NoLostWakeup
<1> QED BY <1>1, <1>2, <1>3, <1>4, <1>5, <1>6, <1>7, <1>8 DEF ProcInv

LEMMA AllocprocStep ==
  ASSUME ProcInv, NEW c \in CPUs, NEW p \in Procs, allocproc(c, p) PROVE ProcInv'
<1>1. CASE Unused = {} /\ NoFork(p) /\ UNCHANGED <<state, pid, nextpid, sw, np>>
  BY <1>1, NoSlotStep DEF allocproc, Enter
<1>2. CASE Unused # {} /\ Embryo(p, First(Unused))
  <2>1. First(Unused) \in Unused  BY <1>2, FirstIn DEF Unused
  <2>2. nextpid <= MaxPid  BY Types, ProcAssumption DEF allocproc, ProcInv
  <2> QED BY <1>2, <2>1, <2>2, EmbryoStep DEF allocproc
<1> QED BY <1>1, <1>2 DEF allocproc

LEMMA ExitStep ==
  ASSUME ProcInv, NEW c \in CPUs, NEW p \in Procs, exit(c, p) PROVE ProcInv'
<1> DEFINE heirs == \E q \in Procs : parent[q] = p /\ state[q] = "ZOMBIE"
           told  == wakeup1(state, parent[p])
           last  == IF heirs THEN wakeup1(told, initproc) ELSE told
<1>a. Die(c, p, last)  BY DEF exit
<1>b. /\ state[p] = "RUNNING" /\ p # Nobody /\ p # initproc /\ sw[p] = "none" /\ pc[p] = "exit" /\ proc[c] = p
      /\ parent[p] # Nobody
  BY <1>a, Constants DEF Die, At, ProcInv, OnCpu, Family, Used
<1>c. /\ \A q \in Procs : last[q] = state[q] \/ (state[q] = "SLEEPING" /\ last[q] = "RUNNABLE")
      /\ \A q \in Procs : last[q] = "SLEEPING" => chan[q] # parent[p] /\ (heirs => chan[q] # initproc)
      /\ last \in [Procs -> States]
  <2>1. /\ told \in [Procs -> States]
        /\ \A q \in Procs : told[q] = IF state[q] = "SLEEPING" /\ chan[q] = parent[p] THEN "RUNNABLE" ELSE state[q]
    BY Types DEF wakeup1, States, ProcInv
  <2>2. CASE heirs
    <3>1. /\ last \in [Procs -> States]
          /\ \A q \in Procs : last[q] = IF told[q] = "SLEEPING" /\ chan[q] = initproc THEN "RUNNABLE" ELSE told[q]
      BY <2>1, <2>2 DEF wakeup1, States
    <3> QED BY <2>1, <3>1
  <2>3. CASE ~heirs  BY <2>1, <2>3
  <2> QED BY <2>2, <2>3
<1> HIDE DEF last, told
<1>0. /\ state' = [last EXCEPT ![p] = "ZOMBIE"] /\ parent' = Orphans(p)
      /\ ptlock = Nobody /\ ptlock' = c /\ sw' = [sw EXCEPT ![p] = "exit"]
      /\ UNCHANGED <<pid, killed, chan, nextpid, proc, tickslock, pc, np, elapsed, shell>>
  BY <1>a DEF exit, Die, Free
<1>s. /\ state' \in [Procs -> States] /\ state'[p] = "ZOMBIE"
      /\ \A q \in Procs \ {p} : state'[q] = last[q]
  BY <1>0, <1>c DEF States
<1>t. /\ sw' \in [Procs -> {"none", "forkret", "yield", "sleep", "wait", "exit"}] /\ sw'[p] = "exit"
      /\ \A q \in Procs \ {p} : sw'[q] = sw[q]
  BY <1>0, Types DEF ProcInv
<1>u. /\ parent' \in [Procs -> Procs \union {Nobody}]
      /\ \A q \in Procs : parent'[q] = IF parent[q] = p THEN initproc ELSE parent[q]
  BY <1>0, Types, Constants DEF ProcInv, Orphans
<1> USE <1>0, <1>b, <1>c, <1>s, <1>t, <1>u
<1> USE DEF ProcInv
<1>1. TypeOK'  BY Constants, Types DEF TypeOK
<1>2. Slots'  BY Constants, Types DEF Slots, Slot
<1>3. OnCpu'  BY Constants, Types DEF OnCpu, Used
<1>4. Tick'  BY Types DEF Tick
<1>5. Forks'  BY Constants, Types DEF Forks
<1>6. Family'  BY Constants, Types DEF Family, Used
<1>7. Pids'  BY Types DEF Pids
<1>8. NoLostWakeup'
  <2> SUFFICES ASSUME NEW q \in Procs, state'[q] = "SLEEPING"
               PROVE  /\ sw'[q] = "wait" => ~killed'[q] /\ \A z \in Procs : parent'[z] = q => state'[z] # "ZOMBIE"
                      /\ sw'[q] = "sleep" => elapsed'[q] < SleepTicks
    BY DEF NoLostWakeup
  <2>1. q # p /\ state[q] = "SLEEPING" /\ sw'[q] = sw[q] /\ last[q] = "SLEEPING"  OBVIOUS
  <2>2. sw[q] = "sleep" => elapsed[q] < SleepTicks  BY <2>1 DEF NoLostWakeup
  <2>3. ASSUME sw[q] = "wait", NEW z \in Procs, parent'[z] = q, state'[z] = "ZOMBIE" PROVE FALSE
    <3>1. chan[q] = q  BY <2>3 DEF Slots, Slot
    <3>2. parent[p] # q  BY <2>1, <3>1
    <3>3. parent[p] # p  BY DEF Family
    <3>4. z # p  BY <2>3, <3>2, <3>3
    <3>5. state[z] = "ZOMBIE"  BY <2>3, <3>4
    <3>6. parent[z] # q  BY <2>1, <2>3, <3>5 DEF NoLostWakeup
    <3>7. parent[z] = p /\ q = initproc  BY <2>3, <3>6
    <3> QED BY <2>1, <3>1, <3>5, <3>7
  <2>4. sw[q] = "wait" => ~killed[q]  BY <2>1 DEF NoLostWakeup
  <2> QED BY <2>1, <2>2, <2>3, <2>4
<1> QED BY <1>1, <1>2, <1>3, <1>4, <1>5, <1>6, <1>7, <1>8 DEF ProcInv

LEMMA KillStep ==
  ASSUME ProcInv, NEW c \in CPUs, NEW p \in Procs, NEW n \in 0 .. MaxPid, kill(c, p, n)
  PROVE  ProcInv'
<1> DEFINE found  == {q \in Procs : pid[q] = n}
           hit(q) == found # {} /\ q = First(found)
<1>a. \A q \in Procs : hit(q) => pid[q] = n
  <2>1. found # {} => First(found) \in found  BY FirstIn
  <2> QED BY <2>1
<1>b. /\ killed' = [q \in Procs |-> killed[q] \/ hit(q)]
      /\ state' = [q \in Procs |-> IF hit(q) /\ state[q] = "SLEEPING" THEN "RUNNABLE" ELSE state[q]]
      /\ At(c, p, "user") /\ ptlock = Nobody
      /\ UNCHANGED <<pid, parent, chan, nextpid, proc, ptlock, tickslock, sw, np, elapsed, shell>>
  BY DEF kill, Enter, Free, sched
<1> HIDE DEF hit
<1>c. /\ state' \in [Procs -> States] /\ killed' \in [Procs -> BOOLEAN]
      /\ \A q \in Procs : state'[q] = state[q] \/ (state[q] = "SLEEPING" /\ state'[q] = "RUNNABLE")
      /\ \A q \in Procs : state'[q] = "SLEEPING" => killed'[q] = killed[q]
  BY <1>a, <1>b, Types, Constants DEF ProcInv, States
<1>d. PICK l : l \in {"user", "exit"} /\ pc' = [pc EXCEPT ![p] = l]
  BY DEF kill, Leave, Goto
<1>e. state[p] = "RUNNING" /\ p # Nobody /\ proc[c] = p /\ sw[p] = "none" /\ pc[p] = "user"
  BY <1>b, Constants DEF At, ProcInv, OnCpu
<1> USE <1>b, <1>c, <1>d, <1>e
<1> USE DEF ProcInv
<1>1. TypeOK'  BY Constants, Types DEF TypeOK, Labels
<1>2. Slots'  BY Constants, Types DEF Slots, Slot
<1>3. OnCpu'  BY Constants, Types DEF OnCpu, Used
<1>4. Tick'  BY Types DEF Tick
<1>5. Forks'  BY Constants, Types DEF Forks
<1>6. Family'  BY Constants, Types DEF Family, Used
<1>7. Pids'  BY Types DEF Pids
<1>8. NoLostWakeup'  BY Constants, Types DEF NoLostWakeup
<1> QED BY <1>1, <1>2, <1>3, <1>4, <1>5, <1>6, <1>7, <1>8 DEF ProcInv

\* wait is entered with ptable.lock free or is back from sleep with it held.
Waiting(c, p) ==
  \/ Enter(c, p, "wait") /\ Free
  \/ proc[c] = p /\ sw[p] = "wait" /\ state[p] = "RUNNING" /\ ptlock = c

LEMMA WaitingFacts ==
  ASSUME ProcInv, NEW c \in CPUs, NEW p \in Procs, Waiting(c, p)
  PROVE  /\ state[p] = "RUNNING" /\ proc[c] = p /\ np[p] = Nobody /\ ptlock \in {c, Nobody}
         /\ sw[p] \in {"none", "wait"} /\ pc[p] \in {"user", "wait"}
         /\ \A d \in CPUs \ {c} : proc[d] # Nobody => sw[proc[d]] = "none" /\ state[proc[d]] = "RUNNING"
BY Constants, Types DEF Waiting, Enter, At, Free, ProcInv, OnCpu, Slots, Slot, Forks, Family


LEMMA ReapStep ==
  ASSUME ProcInv, NEW c \in CPUs, NEW p \in Procs, Waiting(c, p),
         NEW z \in Procs, parent[z] = p, state[z] = "ZOMBIE",
         state' = [state EXCEPT ![z] = "UNUSED"], pid' = [pid EXCEPT ![z] = Nobody],
         parent' = [parent EXCEPT ![z] = Nobody], killed' = [killed EXCEPT ![z] = FALSE],
         sw' = [sw EXCEPT ![z] = "none", ![p] = "none"],
         pc' = [pc EXCEPT ![z] = "user", ![p] = IF killed[p] THEN "exit" ELSE "user"],
         chan' = [chan EXCEPT ![p] = Nobody], ptlock' = Nobody,
         UNCHANGED <<nextpid, proc, tickslock, np, elapsed, shell>>
  PROVE  ProcInv'
<1>0. /\ state[p] = "RUNNING" /\ proc[c] = p /\ p # Nobody /\ np[p] = Nobody /\ ptlock \in {c, Nobody}
      /\ sw[p] \in {"none", "wait"} /\ pc[p] \in {"user", "wait"}
      /\ \A d \in CPUs \ {c} : proc[d] # Nobody => sw[proc[d]] = "none" /\ state[proc[d]] = "RUNNING"
  BY WaitingFacts, Constants
<1>a. /\ z # p /\ z # initproc /\ sw[z] = "exit" /\ pc[z] = "exit" /\ chan[z] = Nobody
      /\ \A d \in CPUs : proc[d] # z
  BY <1>0, Constants DEF ProcInv, Family, Slots, Slot
<1>b. PICK l : l \in {"user", "exit"} /\ pc' = [pc EXCEPT ![z] = "user", ![p] = l]
  OBVIOUS
<1> USE DEF ProcInv
<1>1. TypeOK'
  <2>1. pid' \in [Procs -> 0 .. MaxPid]  BY Types, ProcAssumption DEF Nobody
  <2> QED BY <2>1, <1>0, <1>a, <1>b, Constants, Types DEF TypeOK, Labels, States
<1>2. Slots'  BY <1>0, <1>a, <1>b, Constants, Types DEF Slots, Slot
<1>3. OnCpu'  BY <1>0, <1>a, <1>b, Constants, Types DEF OnCpu, Used
<1>4. Tick'  BY <1>0, <1>a, <1>b, Types DEF Tick
<1>5. Forks'  BY <1>0, <1>a, <1>b, Constants, Types DEF Forks
<1>6. Family'  BY <1>0, <1>a, <1>b, Constants, Types DEF Family, Used
<1>7. Pids'  BY <1>0, <1>a, <1>b, Types DEF Pids, Nobody
<1>8. NoLostWakeup'  BY <1>0, <1>a, <1>b, Constants, Types DEF NoLostWakeup
<1> QED BY <1>1, <1>2, <1>3, <1>4, <1>5, <1>6, <1>7, <1>8 DEF ProcInv

LEMMA GiveUpStep ==
  ASSUME ProcInv, NEW c \in CPUs, NEW p \in Procs, Waiting(c, p),
         chan' = [chan EXCEPT ![p] = Nobody], Leave(p, killed[p]), ptlock' = Nobody,
         sw' = [sw EXCEPT ![p] = "none"], UNCHANGED <<state, pid, parent, killed>>,
         UNCHANGED <<nextpid, proc, tickslock, np, elapsed, shell>>
  PROVE  ProcInv'
<1>0. /\ state[p] = "RUNNING" /\ proc[c] = p /\ p # Nobody /\ np[p] = Nobody /\ ptlock \in {c, Nobody}
      /\ sw[p] \in {"none", "wait"} /\ pc[p] \in {"user", "wait"}
      /\ \A d \in CPUs \ {c} : proc[d] # Nobody => sw[proc[d]] = "none" /\ state[proc[d]] = "RUNNING"
  BY WaitingFacts, Constants
<1>b. PICK l : l \in {"user", "exit"} /\ pc' = [pc EXCEPT ![p] = l]
  BY <1>0 DEF Leave, Goto
<1> USE DEF ProcInv
<1>1. TypeOK'  BY <1>0, <1>b, Constants, Types DEF TypeOK, Labels, States
<1>2. Slots'  BY <1>0, <1>b, Constants, Types DEF Slots, Slot
<1>3. OnCpu'  BY <1>0, <1>b, Constants, Types DEF OnCpu, Used
<1>4. Tick'  BY <1>0, <1>b, Types DEF Tick
<1>5. Forks'  BY <1>0, <1>b, Constants, Types DEF Forks
<1>6. Family'  BY <1>0, <1>b, Constants, Types DEF Family, Used
<1>7. Pids'  BY <1>0, <1>b, Types DEF Pids
<1>8. NoLostWakeup'  BY <1>0, <1>b, Constants, Types DEF NoLostWakeup
<1> QED BY <1>1, <1>2, <1>3, <1>4, <1>5, <1>6, <1>7, <1>8 DEF ProcInv

LEMMA WaitSleepStep ==
  ASSUME ProcInv, NEW c \in CPUs, NEW p \in Procs, Waiting(c, p),
         \A q \in Procs : parent[q] = p => state[q] # "ZOMBIE", ~killed[p],
         chan' = [chan EXCEPT ![p] = p], state' = [state EXCEPT ![p] = "SLEEPING"],
         sw' = [sw EXCEPT ![p] = "wait"], ptlock' = c, Goto(p, "wait"),
         UNCHANGED <<pid, parent, killed>>,
         UNCHANGED <<nextpid, proc, tickslock, np, elapsed, shell>>
  PROVE  ProcInv'
<1>0. /\ state[p] = "RUNNING" /\ proc[c] = p /\ p # Nobody /\ np[p] = Nobody /\ ptlock \in {c, Nobody}
      /\ sw[p] \in {"none", "wait"} /\ pc[p] \in {"user", "wait"}
      /\ \A d \in CPUs \ {c} : proc[d] # Nobody => sw[proc[d]] = "none" /\ state[proc[d]] = "RUNNING"
  BY WaitingFacts, Constants
<1>b. pc' = [pc EXCEPT ![p] = "wait"]  BY DEF Goto
<1> USE DEF ProcInv
<1>1. TypeOK'  BY <1>0, <1>b, Constants, Types DEF TypeOK, Labels, States
<1>2. Slots'  BY <1>0, <1>b, Constants, Types DEF Slots, Slot
<1>3. OnCpu'  BY <1>0, <1>b, Constants, Types DEF OnCpu, Used
<1>4. Tick'  BY <1>0, <1>b, Types DEF Tick
<1>5. Forks'  BY <1>0, <1>b, Constants, Types DEF Forks
<1>6. Family'  BY <1>0, <1>b, Constants, Types DEF Family, Used
<1>7. Pids'  BY <1>0, <1>b, Types DEF Pids
<1>8. NoLostWakeup'  BY <1>0, <1>b, Constants, Types DEF NoLostWakeup
<1> QED BY <1>1, <1>2, <1>3, <1>4, <1>5, <1>6, <1>7, <1>8 DEF ProcInv

LEMMA WaitStep ==
  ASSUME ProcInv, NEW c \in CPUs, NEW p \in Procs, wait(c, p) PROVE ProcInv'
<1> DEFINE kids    == {q \in Procs : parent[q] = p}
           zombies == {q \in kids : state[q] = "ZOMBIE"}
<1>0. Waiting(c, p) /\ UNCHANGED <<nextpid, proc, tickslock, np, elapsed, shell>>  BY DEF wait, Waiting
<1>1. CASE zombies # {}
  <2>1. First(zombies) \in zombies  BY <1>1, FirstIn
  <2> QED BY <1>0, <1>1, <2>1, ReapStep DEF wait
<1>2. CASE zombies = {} /\ (kids = {} \/ killed[p])
  BY <1>0, <1>2, GiveUpStep DEF wait
<1>3. CASE zombies = {} /\ kids # {} /\ ~killed[p]
  BY <1>0, <1>3, WaitSleepStep DEF wait
<1> QED BY <1>1, <1>2, <1>3

\* What the tick does, seen from the slots: sleepers may be woken, and who sleeps on
\* or holds the condition of sys_sleep is not late.
Ticked ==
  /\ elapsed' \in [Procs -> 0 .. SleepTicks]
  /\ \A p \in Procs : pc[p] = "doze" => elapsed'[p] = elapsed[p]

Woken(st) ==
  /\ st \in [Procs -> States]
  /\ \A p \in Procs : st[p] = state[p] \/ (state[p] = "SLEEPING" /\ st[p] = "RUNNABLE")
  /\ \A p \in Procs : st[p] = "SLEEPING" /\ sw[p] = "sleep" => elapsed'[p] = elapsed[p]

LEMMA TimerKernelStep ==
  ASSUME ProcInv, NEW c \in CPUs, Ticked, 
         Woken(state'), UNCHANGED <<ptlock, sw, pc>>,
         UNCHANGED <<pid, parent, killed, chan, nextpid, proc, tickslock, np, shell>>
  PROVE  ProcInv'
<1> USE DEF ProcInv, Ticked
<1> USE DEF Woken
<1>1. TypeOK'  BY Constants, Types DEF TypeOK, Labels, States
<1>2. Slots'  BY Constants, Types DEF Slots, Slot
<1>3. OnCpu'  BY Constants, Types DEF OnCpu, Used
<1>4. Tick'  BY Types DEF Tick
<1>5. Forks'  BY Constants, Types DEF Forks
<1>6. Family'  BY Constants, Types DEF Family, Used
<1>7. Pids'  BY Types DEF Pids
<1>8. NoLostWakeup'  BY Constants, Types DEF NoLostWakeup
<1> QED BY <1>1, <1>2, <1>3, <1>4, <1>5, <1>6, <1>7, <1>8 DEF ProcInv

LEMMA TimerExitStep ==
  ASSUME ProcInv, NEW c \in CPUs, Ticked, 
         NEW p \in Procs, proc[c] = p, sw[p] = "none", killed[p], pc[p] = "user",
         Woken(state'), UNCHANGED <<ptlock, sw>>, Goto(p, "exit"),
         UNCHANGED <<pid, parent, killed, chan, nextpid, proc, tickslock, np, shell>>
  PROVE  ProcInv'
<1> USE DEF ProcInv, Ticked
<1> USE DEF Woken, Goto
<1>0. state[p] = "RUNNING"   BY Constants DEF OnCpu
<1>1. TypeOK'  BY <1>0, Constants, Types DEF TypeOK, Labels, States
<1>2. Slots'  BY <1>0, Constants, Types DEF Slots, Slot
<1>3. OnCpu'  BY <1>0, Constants, Types DEF OnCpu, Used
<1>4. Tick'  BY <1>0, Types DEF Tick
<1>5. Forks'  BY <1>0, Constants, Types DEF Forks
<1>6. Family'  BY <1>0, Constants, Types DEF Family, Used
<1>7. Pids'  BY <1>0, Types DEF Pids
<1>8. NoLostWakeup'  BY <1>0, Constants, Types DEF NoLostWakeup
<1> QED BY <1>1, <1>2, <1>3, <1>4, <1>5, <1>6, <1>7, <1>8 DEF ProcInv

LEMMA TimerYieldStep ==
  ASSUME ProcInv, NEW c \in CPUs, Ticked, 
         NEW p \in Procs, proc[c] = p, sw[p] = "none", pc[p] # "doze", ptlock = Nobody,
         NEW woken, Woken(woken), state' = [woken EXCEPT ![p] = "RUNNABLE"],
         ptlock' = c, sw' = [sw EXCEPT ![p] = "yield"], UNCHANGED pc,
         UNCHANGED <<pid, parent, killed, chan, nextpid, proc, tickslock, np, shell>>
  PROVE  ProcInv'
<1> USE DEF ProcInv, Ticked
<1> USE DEF Woken
<1>0. state[p] = "RUNNING" /\ p # Nobody  BY Constants DEF OnCpu
<1>a. /\ state' \in [Procs -> States] /\ state'[p] = "RUNNABLE"
      /\ \A q \in Procs \ {p} : state'[q] = woken[q]
  BY DEF States
<1>1. TypeOK'  BY <1>0, <1>a, Constants, Types DEF TypeOK, Labels, States
<1>2. Slots'  BY <1>0, <1>a, Constants, Types DEF Slots, Slot
<1>3. OnCpu'  BY <1>0, <1>a, Constants, Types DEF OnCpu, Used
<1>4. Tick'  BY <1>0, <1>a, Types DEF Tick
<1>5. Forks'  BY <1>0, <1>a, Constants, Types DEF Forks
<1>6. Family'  BY <1>0, <1>a, Constants, Types DEF Family, Used
<1>7. Pids'  BY <1>0, <1>a, Types DEF Pids
<1>8. NoLostWakeup'  BY <1>0, <1>a, Constants, Types DEF NoLostWakeup
<1> QED BY <1>1, <1>2, <1>3, <1>4, <1>5, <1>6, <1>7, <1>8 DEF ProcInv

LEMMA TimerStep == ASSUME ProcInv, NEW c \in CPUs, Timer(c) PROVE ProcInv'
<1> DEFINE woken == IF c = 1 THEN wakeup1(state, Ticks) ELSE state
<1>1. Ticked /\ Woken(woken)
  <2>1. CASE c = 1
    <3>1. /\ tickslock = Nobody /\ woken = wakeup1(state, Ticks)
          /\ elapsed' = [p \in Procs |-> IF pc[p] \in {"again", "doze"} /\ elapsed[p] < SleepTicks
                                           THEN elapsed[p] + 1 ELSE elapsed[p]]
      BY <2>1 DEF Timer
    <3>2. Ticked  BY <3>1, Types, Constants, ProcAssumption DEF Ticked, ProcInv, Tick
    <3>3. Woken(woken)  BY <3>1, Types DEF Woken, wakeup1, States, ProcInv, Slots, Slot
    <3> QED BY <3>2, <3>3
  <2>2. CASE c # 1
    <3>1. woken = state /\ UNCHANGED elapsed  BY <2>2 DEF Timer
    <3> QED BY <3>1, Types DEF Ticked, Woken, ProcInv
  <2> QED BY <2>1, <2>2
<1>2. /\ ptlock = Nobody /\ UNCHANGED <<pid, parent, killed, chan, nextpid, proc, tickslock, np, shell>>
      /\ proc[c] # Nobody => proc[c] \in Procs /\ sw[proc[c]] = "none" /\ pc[proc[c]] # "doze"
  BY Types DEF Timer, Free, ProcInv
<1>3. CASE proc[c] = Nobody /\ state' = woken /\ UNCHANGED <<ptlock, pc, sw>>
  BY <1>1, <1>2, <1>3, TimerKernelStep
<1>4. CASE /\ proc[c] # Nobody /\ killed[proc[c]] /\ pc[proc[c]] = "user"
           /\ Goto(proc[c], "exit") /\ state' = woken /\ UNCHANGED <<ptlock, sw>>
  BY <1>1, <1>2, <1>4, TimerExitStep
<1>5. CASE /\ proc[c] # Nobody /\ ptlock' = c /\ state' = [woken EXCEPT ![proc[c]] = "RUNNABLE"]
           /\ sw' = [sw EXCEPT ![proc[c]] = "yield"] /\ UNCHANGED pc
  BY <1>1, <1>2, <1>5, TimerYieldStep
<1> QED BY <1>3, <1>4, <1>5 DEF Timer

-----------------------------------------------------------------------------
LEMMA NextInv == ProcInv /\ [Next]_vars => ProcInv'
<1> SUFFICES ASSUME ProcInv, [Next]_vars PROVE ProcInv'  OBVIOUS
<1>1. CASE UNCHANGED vars  BY <1>1, UnchangedStep
<1>2. ASSUME NEW c \in CPUs, Timer(c) PROVE ProcInv'  BY <1>2, TimerStep
<1>3. ASSUME NEW c \in CPUs, NEW p \in Procs, Scheduler(c, p) \/ Switch(c, p) \/ CallExit(c, p)
      PROVE  ProcInv'
  BY <1>3, SchedulerStep, SchedStep, ResumeStep, CallExitStep DEF Switch
<1>4. ASSUME NEW c \in CPUs, NEW p \in Procs, Kernel(c, p) PROVE ProcInv'
  BY <1>4, AllocprocStep, ForkFailsStep, ForkCopyStep, ForkStartStep, ExitStep, WaitStep,
     SysSleepStep, SleepStep DEF Kernel
<1>5. ASSUME NEW c \in CPUs, NEW p \in Procs, NEW n \in 0 .. MaxPid, kill(c, p, n) PROVE ProcInv'
  BY <1>5, KillStep
<1> QED BY <1>1, <1>2, <1>3, <1>4, <1>5 DEF Next, Step, Halt

LEMMA InvHolds == Spec => []ProcInv
<1>1. Init => ProcInv  BY InitInv
<1>2. ProcInv /\ [Next]_vars => ProcInv'  BY NextInv
<1> QED BY <1>1, <1>2, PTL DEF Spec

\* Switching is safe on any number of processors: no two run the same process, none
\* runs on a kernel stack that wait has freed although exit makes a process a zombie
\* before it has left its stack, and sched() is entered with ptable.lock alone.
THEOREM SwitchCorrect == Spec => []SwitchSafe
<1>1. ProcInv => SwitchSafe
  BY Types, Constants DEF ProcInv, SwitchSafe, StacksInUse, SchedLocks, OnCpu, Slots, Slot, Tick
<1> QED BY <1>1, InvHolds, PTL

\* exit and fork keep the family together: the parent of every process is alive and
\* no zombie, init never becomes one, and no pid is in use twice.
THEOREM FamilyCorrect == Spec => []FamilyTree
<1>1. ProcInv => FamilyTree
  BY Types DEF ProcInv, FamilyTree, Family, Pids, Used
<1> QED BY <1>1, InvHolds, PTL

\* exit, kill and the timer wake whoever waits for what they did, however sleep()
\* overlaps them: nobody sleeps on a condition that has come true.
THEOREM WakeupCorrect == Spec => []NoLostWakeup
<1>1. ProcInv => NoLostWakeup  BY DEF ProcInv
<1> QED BY <1>1, InvHolds, PTL
=============================================================================
