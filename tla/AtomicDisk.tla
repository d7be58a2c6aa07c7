----------------------------- MODULE AtomicDisk -----------------------------
(***************************************************************************)
(* What the log promises the file system: a disk on which the writes of a  *)
(* set of operations reach the platter all at once, and only when none of  *)
(* them is in progress.  A crash loses everything since the last commit    *)
(* and nothing before it.                                                  *)
(***************************************************************************)
CONSTANTS Procs, Blocks, Values

VARIABLES
  durable,      \* the content a crash leaves
  current,      \* the content the operations see
  active        \* processes between begin_op and end_op

Init ==
  /\ durable \in [Blocks -> Values]
  /\ current = durable
  /\ active = {}

Begin(p) ==
  /\ p \notin active
  /\ active' = active \union {p}
  /\ UNCHANGED <<durable, current>>

Write(p, b, v) ==
  /\ p \in active
  /\ current' = [current EXCEPT ![b] = v]
  /\ UNCHANGED <<durable, active>>

End(p) ==
  /\ p \in active
  /\ active' = active \ {p}
  /\ UNCHANGED <<durable, current>>

Commit ==
  /\ active = {}
  /\ durable' = current
  /\ UNCHANGED <<current, active>>

Crash ==
  /\ current' = durable
  /\ active' = {}
  /\ UNCHANGED durable

Next ==
  \/ Commit \/ Crash
  \/ \E p \in Procs :
       \/ Begin(p) \/ End(p)
       \/ \E b \in Blocks, v \in Values : Write(p, b, v)

vars == <<durable, current, active>>

Spec == Init /\ [][Next]_vars
=============================================================================
