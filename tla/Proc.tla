-------------------------------- MODULE Proc --------------------------------
(***************************************************************************)
(* The process table of proc.c: allocproc, fork, exit, wait, kill, the     *)
(* scheduler and sched, yield, sleep and wakeup, with the timer interrupt  *)
(* and the tests of p->killed of trap.c, and sys_sleep.                    *)
(*                                                                         *)
(* One step per critical section of ptable.lock, except where the lock is  *)
(* carried into the scheduler: a process that gives up its processor       *)
(* changes its state (sleep, yield, exit, wait), switches (sched), and     *)
(* goes on when a scheduler has switched back (Resume), all with the lock  *)
(* of its processor held.  The unlocked assignments of fork are steps of   *)
(* their own.  Memory and files are left to CoW and Shell.                 *)
(***************************************************************************)
EXTENDS Integers, FiniteSets

CONSTANTS
  NPROC,        \* slots of ptable
  NCPU,         \* processors
  MaxPid,       \* bound: the last pid, which is kept for init's next shell
  SleepTicks    \* the argument of sys_sleep

ASSUME ProcAssumption ==
  NPROC \in Nat \ {0} /\ NCPU \in Nat \ {0} /\ MaxPid \in Nat \ {0} /\ SleepTicks \in Nat \ {0}

Procs    == 1 .. NPROC
CPUs     == 1 .. NCPU
initproc == 1
Ticks    == NPROC + 1     \* the channel &ticks; the channel of wait is the process
Nobody   == 0             \* no process, no processor, no channel, no pid

VARIABLES
  state, pid, parent, killed, chan,   \* struct proc
  nextpid,
  proc,           \* cpus[c].proc
  ptlock,         \* the processor that holds ptable.lock
  tickslock,      \* the process that holds tickslock
  pc,             \* where each process is in the kernel, "user" outside
  sw,             \* what it has called sched() from
  np,             \* local of fork
  elapsed,        \* ticks - ticks0 of sys_sleep, up to SleepTicks
  shell           \* pid, the local of init.c: the shell it started last

table == <<state, pid, parent, killed, chan, nextpid>>
sched == <<proc, ptlock, tickslock>>
local == <<pc, sw, np, elapsed, shell>>
vars  == <<table, sched, local>>

States == {"UNUSED", "EMBRYO", "SLEEPING", "RUNNABLE", "RUNNING", "ZOMBIE"}
Labels == {"user", "copy", "start", "exit", "wait", "again", "doze"}

TypeOK ==
  /\ state \in [Procs -> States] /\ pid \in [Procs -> 0 .. MaxPid]
  /\ parent \in [Procs -> 0 .. NPROC] /\ killed \in [Procs -> BOOLEAN]
  /\ chan \in [Procs -> 0 .. Ticks] /\ nextpid \in 1 .. MaxPid + 1
  /\ proc \in [CPUs -> 0 .. NPROC] /\ ptlock \in 0 .. NCPU
  /\ tickslock \in 0 .. NPROC
  /\ pc \in [Procs -> Labels]
  /\ sw \in [Procs -> {"none", "forkret", "yield", "sleep", "wait", "exit"}]
  /\ np \in [Procs -> 0 .. NPROC] /\ elapsed \in [Procs -> 0 .. SleepTicks]
  /\ shell \in 0 .. MaxPid

\* userinit: the first process is runnable and has never run.
Init ==
  /\ state = [p \in Procs |-> IF p = initproc THEN "RUNNABLE" ELSE "UNUSED"]
  /\ pid = [p \in Procs |-> IF p = initproc THEN 1 ELSE 0] /\ nextpid = 2
  /\ parent = [p \in Procs |-> Nobody] /\ chan = [p \in Procs |-> Nobody]
  /\ killed = [p \in Procs |-> FALSE]
  /\ proc = [c \in CPUs |-> Nobody]
  /\ ptlock = Nobody /\ tickslock = Nobody
  /\ pc = [p \in Procs |-> "user"]
  /\ sw = [p \in Procs |-> IF p = initproc THEN "forkret" ELSE "none"]
  /\ np = [p \in Procs |-> Nobody] /\ elapsed = [p \in Procs |-> 0]
  /\ shell = Nobody

\* Process p executes at l on processor c.
At(c, p, l) == proc[c] = p /\ sw[p] = "none" /\ pc[p] = l
Goto(p, l)  == pc' = [pc EXCEPT ![p] = l]
Free        == ptlock = Nobody

\* The slot that a scan of ptable in its order finds first.
First(S) == CHOOSE q \in S : \A r \in S : q <= r

wakeup1(st, ch) ==
  [p \in Procs |-> IF st[p] = "SLEEPING" /\ chan[p] = ch THEN "RUNNABLE" ELSE st[p]]
-----------------------------------------------------------------------------
(***************************************************************************)
(* Giving up the processor and getting it back.                            *)
(***************************************************************************)
\* Faulty variant: exit releases ptable.lock before it switches away.
SchedUnlocked(c, p) ==
  /\ proc[c] = p /\ sw[p] # "none" /\ state[p] # "RUNNING" /\ ptlock \in {c, Nobody}
  /\ IF ptlock = c THEN ptlock' = Nobody /\ UNCHANGED proc
                   ELSE proc' = [proc EXCEPT ![c] = Nobody] /\ UNCHANGED ptlock
  /\ UNCHANGED <<table, local, tickslock>>

\* swtch to the scheduler, which finds nobody else or releases the lock.
Sched(c, p) ==
  /\ proc[c] = p /\ sw[p] # "none" /\ state[p] # "RUNNING" /\ ptlock = c
  /\ proc' = [proc EXCEPT ![c] = Nobody]
  /\ ptlock' = Nobody
  /\ UNCHANGED <<table, local, tickslock>>

\* One process found RUNNABLE; the lock goes with it.
Scheduler(c, p) ==
  /\ proc[c] = Nobody /\ Free
  /\ state[p] = "RUNNABLE"
  /\ proc' = [proc EXCEPT ![c] = p] /\ ptlock' = c
  /\ state' = [state EXCEPT ![p] = "RUNNING"]
  /\ UNCHANGED <<pid, parent, killed, chan, nextpid, local, tickslock>>

\* sched() returns in forkret, in yield or in sleep, which release ptable.lock;
\* after yield trap() looks at killed once more.
Resume(c, p) ==
  /\ proc[c] = p /\ state[p] = "RUNNING" /\ ptlock = c
  /\ sw[p] \in {"forkret", "yield", "sleep"}
  /\ sw' = [sw EXCEPT ![p] = "none"] /\ ptlock' = Nobody
  /\ chan' = [chan EXCEPT ![p] = IF sw[p] = "sleep" THEN Nobody ELSE @]
  /\ Goto(p, IF sw[p] = "yield" /\ pc[p] = "user" /\ killed[p] THEN "exit" ELSE pc[p])
  /\ UNCHANGED <<state, pid, parent, killed, nextpid, proc, tickslock, np, elapsed, shell>>
-----------------------------------------------------------------------------
(***************************************************************************)
(* The timer.  Interrupts are off while a spin lock is held or spun for.   *)
(***************************************************************************)
\* trap(): processor 0 counts the tick with tickslock held, and wakes who waits
\* for it; then a killed process in user space exits and any other one yields,
\* with ptable.lock.  Nobody can undo the yield between the two sections of
\* ptable.lock, which are one step here.
Timer(c) ==
  /\ Free
  /\ proc[c] # Nobody => sw[proc[c]] = "none" /\ pc[proc[c]] \notin {"again", "doze"}
  /\ IF c = 1
       THEN /\ tickslock = Nobody
            /\ elapsed' = [p \in Procs |-> IF pc[p] \in {"again", "doze"} /\ elapsed[p] < SleepTicks
                                             THEN elapsed[p] + 1 ELSE elapsed[p]]
       ELSE proc[c] # Nobody /\ UNCHANGED elapsed
  /\ LET p     == proc[c]
         woken == IF c = 1 THEN wakeup1(state, Ticks) ELSE state
     IN \/ p = Nobody /\ state' = woken /\ UNCHANGED <<ptlock, pc, sw>>
        \/ /\ p # Nobody /\ killed[p] /\ pc[p] = "user"
           /\ Goto(p, "exit") /\ state' = woken /\ UNCHANGED <<ptlock, sw>>
        \/ /\ p # Nobody /\ ~(killed[p] /\ pc[p] = "user")
           /\ ptlock' = c /\ state' = [woken EXCEPT ![p] = "RUNNABLE"]
           /\ sw' = [sw EXCEPT ![p] = "yield"] /\ UNCHANGED pc
  /\ UNCHANGED <<pid, parent, killed, chan, nextpid, proc, tickslock, np, shell>>
-----------------------------------------------------------------------------
(***************************************************************************)
(* System calls.  killed is tested on entry, in one step with the first    *)
(* section of the call, and on return, in one step with the last.          *)
(***************************************************************************)
\* init.c: init starts a shell, waits until that shell is reaped, whatever orphans it
\* reaps before it, and starts the next.  Once MaxPid has stopped it from forking it
\* waits.
Programs(p) ==
  IF p # initproc THEN {"fork", "wait", "kill", "sleep"}
  ELSE IF nextpid > MaxPid \/ \E q \in Procs : parent[q] = p /\ pid[q] = shell THEN {"wait"}
  ELSE {"fork"}

Enter(c, p, l) == At(c, p, "user") /\ ~killed[p] /\ l \in Programs(p)

\* sys_exit, and any call of a killed process.
CallExit(c, p) ==
  /\ At(c, p, "user") /\ (p # initproc \/ killed[p])
  /\ Goto(p, "exit")
  /\ UNCHANGED <<table, sched, sw, np, elapsed, shell>>

\* Back from syscall(), with k what killed is now.
Leave(p, k) == Goto(p, IF k THEN "exit" ELSE "user")

\* fork() = -1: init exits at once (init.c:26-29).
NoFork(p) == Leave(p, killed[p] \/ p = initproc)

Embryo(p, q) ==
  /\ state' = [state EXCEPT ![q] = "EMBRYO"]
  /\ pid' = [pid EXCEPT ![q] = nextpid] /\ nextpid' = nextpid + 1
  /\ sw' = [sw EXCEPT ![q] = "forkret"]
  /\ np' = [np EXCEPT ![p] = q]
  /\ pc' = [pc EXCEPT ![p] = "copy", ![q] = "user"]

Unused == {q \in Procs : state[q] = "UNUSED"}

\* The first unused slot becomes an embryo; its context starts in forkret.
allocproc(c, p) ==
  /\ Enter(c, p, "fork") /\ Free /\ nextpid <= (IF p = initproc THEN MaxPid ELSE MaxPid - 1)
  /\ \/ Unused = {} /\ NoFork(p) /\ UNCHANGED <<state, pid, nextpid, sw, np>>
     \/ Unused # {} /\ Embryo(p, First(Unused))
  /\ UNCHANGED <<parent, killed, chan, sched, elapsed, shell>>

\* No stack or no memory: the slot is given back, without the lock and with its pid.
ForkFails(c, p) ==
  /\ At(c, p, "copy")
  /\ state' = [state EXCEPT ![np[p]] = "UNUSED"]
  /\ sw' = [sw EXCEPT ![np[p]] = "none"]
  /\ np' = [np EXCEPT ![p] = Nobody]
  /\ NoFork(p)
  /\ UNCHANGED <<pid, parent, killed, chan, nextpid, sched, elapsed, shell>>

ForkCopy(c, p) ==
  /\ At(c, p, "copy")
  /\ parent' = [parent EXCEPT ![np[p]] = p]
  /\ Goto(p, "start")
  /\ UNCHANGED <<state, pid, killed, chan, nextpid, sched, sw, np, elapsed, shell>>

ForkStart(c, p) ==
  /\ At(c, p, "start") /\ Free
  /\ state' = [state EXCEPT ![np[p]] = "RUNNABLE"]
  /\ np' = [np EXCEPT ![p] = Nobody]
  /\ shell' = IF p = initproc THEN pid[np[p]] ELSE shell
  /\ Leave(p, killed[p])
  /\ UNCHANGED <<pid, parent, killed, chan, nextpid, sched, sw, elapsed>>

\* What exit does to the table when it leaves the others in the states told.
Die(c, p, told) ==
  /\ At(c, p, "exit") /\ p # initproc /\ Free
  /\ ptlock' = c
  /\ state' = [told EXCEPT ![p] = "ZOMBIE"]
  /\ sw' = [sw EXCEPT ![p] = "exit"]
  /\ UNCHANGED <<pid, killed, chan, nextpid, proc, tickslock, pc, np, elapsed, shell>>
Orphans(p) == [q \in Procs |-> IF parent[q] = p THEN initproc ELSE parent[q]]

\* Faulty variants: the parent is not told; the children stay.
ExitSilent(c, p) == Die(c, p, state) /\ parent' = Orphans(p)
ExitKeepsChildren(c, p) == Die(c, p, wakeup1(state, parent[p])) /\ UNCHANGED parent

\* exit wakes the parent, leaves its children to init, which it wakes when one of
\* them is a zombie, and switches away for good.
exit(c, p) ==
  /\ LET told  == wakeup1(state, parent[p])
         heirs == \E q \in Procs : parent[q] = p /\ state[q] = "ZOMBIE"
     IN  Die(c, p, IF heirs THEN wakeup1(told, initproc) ELSE told)
  /\ parent' = Orphans(p)

\* wait: reap a zombie, give up, or sleep.  ptable.lock is taken on entry and is
\* still held when sleep returns.
wait(c, p) ==
  /\ \/ Enter(c, p, "wait") /\ Free
     \/ proc[c] = p /\ sw[p] = "wait" /\ state[p] = "RUNNING" /\ ptlock = c
  /\ LET kids    == {q \in Procs : parent[q] = p}
         zombies == {q \in kids : state[q] = "ZOMBIE"}
     IN \/ /\ zombies # {}
           /\ LET z == First(zombies) IN
                /\ state' = [state EXCEPT ![z] = "UNUSED"] /\ pid' = [pid EXCEPT ![z] = Nobody]
                /\ parent' = [parent EXCEPT ![z] = Nobody] /\ killed' = [killed EXCEPT ![z] = FALSE]
                /\ sw' = [sw EXCEPT ![z] = "none", ![p] = "none"]
                /\ pc' = [pc EXCEPT ![z] = "user", ![p] = IF killed[p] THEN "exit" ELSE "user"]
           /\ chan' = [chan EXCEPT ![p] = Nobody] /\ ptlock' = Nobody
        \/ /\ zombies = {} /\ (kids = {} \/ killed[p])
           /\ chan' = [chan EXCEPT ![p] = Nobody] /\ Leave(p, killed[p]) /\ ptlock' = Nobody
           /\ sw' = [sw EXCEPT ![p] = "none"]
           /\ UNCHANGED <<state, pid, parent, killed>>
        \/ /\ zombies = {} /\ kids # {} /\ ~killed[p]
           /\ chan' = [chan EXCEPT ![p] = p] /\ state' = [state EXCEPT ![p] = "SLEEPING"]
           /\ sw' = [sw EXCEPT ![p] = "wait"] /\ ptlock' = c /\ Goto(p, "wait")
           /\ UNCHANGED <<pid, parent, killed>>
  /\ UNCHANGED <<nextpid, proc, tickslock, np, elapsed, shell>>

\* Faulty variant: a sleeping process is not woken.
KillAsleep(c, p, n) ==
  /\ Enter(c, p, "kill") /\ Free
  /\ LET found == {q \in Procs : pid[q] = n} IN
       killed' = [q \in Procs |-> killed[q] \/ (found # {} /\ q = First(found))]
  /\ Leave(p, killed[p] \/ pid[p] = n)
  /\ UNCHANGED <<state, pid, parent, chan, nextpid, sched, sw, np, elapsed, shell>>

\* The first slot with that pid, whatever its state.
kill(c, p, n) ==
  /\ Enter(c, p, "kill") /\ Free
  /\ LET found == {q \in Procs : pid[q] = n}
         hit(q) == found # {} /\ q = First(found)
     IN /\ killed' = [q \in Procs |-> killed[q] \/ hit(q)]
        /\ state' = [q \in Procs |-> IF hit(q) /\ state[q] = "SLEEPING" THEN "RUNNABLE" ELSE state[q]]
  /\ Leave(p, killed[p] \/ pid[p] = n)
  /\ UNCHANGED <<pid, parent, chan, nextpid, sched, sw, np, elapsed, shell>>

\* sys_sleep: tickslock is taken on entry, and again by sleep() when it returns;
\* the loop looks at killed before ptable.lock is taken.
sys_sleep(c, p) ==
  /\ Enter(c, p, "sleep") \/ At(c, p, "again")
  /\ tickslock = Nobody
  /\ \/ /\ elapsed[p] < SleepTicks /\ ~killed[p]
        /\ tickslock' = p /\ Goto(p, "doze") /\ UNCHANGED elapsed
     \/ /\ elapsed[p] = SleepTicks \/ killed[p]
        /\ elapsed' = [elapsed EXCEPT ![p] = 0]
        /\ Leave(p, killed[p]) /\ UNCHANGED tickslock
  /\ UNCHANGED <<table, proc, ptlock, sw, np, shell>>

FallAsleep(c, p) ==
  /\ ptlock' = c
  /\ state' = [state EXCEPT ![p] = "SLEEPING"] /\ chan' = [chan EXCEPT ![p] = Ticks]
  /\ sw' = [sw EXCEPT ![p] = "sleep"] /\ Goto(p, "again")

\* Faulty variant: sleep() keeps the lock of the condition.
SleepKeepsLock(c, p) ==
  /\ At(c, p, "doze") /\ Free /\ FallAsleep(c, p)
  /\ UNCHANGED <<pid, parent, killed, nextpid, proc, tickslock, np, elapsed, shell>>

\* sleep(&ticks, &tickslock): ptable.lock is taken before tickslock is let go.
sleep(c, p) ==
  /\ At(c, p, "doze") /\ Free /\ FallAsleep(c, p)
  /\ tickslock' = Nobody
  /\ UNCHANGED <<pid, parent, killed, nextpid, proc, np, elapsed, shell>>
-----------------------------------------------------------------------------
Switch(c, p) == Sched(c, p) \/ Resume(c, p)

Kernel(c, p) ==
  \/ allocproc(c, p) \/ ForkFails(c, p) \/ ForkCopy(c, p) \/ ForkStart(c, p)
  \/ exit(c, p) \/ wait(c, p) \/ sys_sleep(c, p) \/ sleep(c, p)

Step(c) ==
  \/ Timer(c)
  \/ \E p \in Procs :
       \/ Scheduler(c, p) \/ Switch(c, p) \/ Kernel(c, p) \/ CallExit(c, p)
       \/ \E n \in 0 .. MaxPid : kill(c, p, n)

\* exit(): panic("init exiting").  The machine stops.
Panic == pc[initproc] = "exit"
Halt  == Panic /\ UNCHANGED vars

Next == (~Panic /\ \E c \in CPUs : Step(c)) \/ Halt

Spec == Init /\ [][Next]_vars

(***************************************************************************)
(* The timer ticks, the scanning order of scheduler() lets nobody wait for *)
(* ever, and a spin lock is given to whoever spins often enough (strong    *)
(* fairness); a process inside the kernel goes on, and init calls fork and *)
(* wait again (init.c).  No other program is forced to call anything.      *)
(***************************************************************************)
FairSpec ==
  /\ Spec
  /\ \A c \in CPUs : SF_vars(~Panic /\ Timer(c))
  /\ WF_vars(~Panic /\ \E c \in CPUs, p \in Procs : Switch(c, p))
  /\ \A p \in Procs :
       /\ SF_vars(~Panic /\ \E c \in CPUs : Scheduler(c, p))
       /\ SF_vars(~Panic /\ (pc[p] # "user" \/ p = initproc) /\ \E c \in CPUs : Kernel(c, p))
-----------------------------------------------------------------------------
(***************************************************************************)
(* Properties.                                                             *)
(***************************************************************************)
Used == {p \in Procs : state[p] \notin {"UNUSED", "EMBRYO"}}

\* No two processors run the same process, and none runs on a kernel stack that
\* wait has freed, although an exiting process is a zombie before it has left it.
StacksInUse ==
  \A c, d \in CPUs : proc[c] # Nobody =>
    /\ proc[c] \in Used
    /\ proc[c] = proc[d] => c = d
    /\ ptlock # c => state[proc[c]] = "RUNNING"

\* sched() is entered with ptable.lock alone: it would panic otherwise.
SchedLocks ==
  \A p \in Procs : sw[p] # "none" => tickslock # p

\* Switching is safe: ptable.lock, and no other lock, is carried through swtch, and
\* covers the time in which a process has left its state but not its stack.
SwitchSafe == TypeOK /\ StacksInUse /\ SchedLocks

\* Every process has a parent that will wait for it or is init: exit leaves no
\* child behind, whatever forks and exits overlap, and pids are unique.
FamilyTree ==
  /\ \A p \in Used \ {initproc} :
       /\ parent[p] \in Used /\ state[parent[p]] # "ZOMBIE"
       /\ \A q \in Used : pid[p] = pid[q] => p = q
  /\ state[initproc] # "ZOMBIE"

\* No wakeup is lost: who sleeps in wait has no zombie to reap and has not been
\* killed, and who sleeps for a tick is not late.
NoLostWakeup ==
  \A p \in Procs : state[p] = "SLEEPING" =>
    /\ sw[p] = "wait" => ~killed[p] /\ \A q \in Procs : parent[q] = p => state[q] # "ZOMBIE"
    /\ sw[p] = "sleep" => elapsed[p] < SleepTicks

\* A killed process dies, wherever in the kernel or asleep it is when it is hit,
\* unless init has had to exit, which stops the machine.
KilledDies ==
  \A p \in Procs \ {initproc} :
    p \in Used /\ killed[p] ~> p \notin Used \/ state[p] = "ZOMBIE" \/ Panic

\* A zombie that init has inherited is reaped, although init starts a new shell
\* whenever the last one is dead, unless it has had to exit.
OrphansReaped ==
  \A p \in Procs \ {initproc} :
    state[p] = "ZOMBIE" /\ parent[p] = initproc ~> state[p] # "ZOMBIE" \/ Panic
=============================================================================
