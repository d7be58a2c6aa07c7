------------------------------- MODULE Shell -------------------------------
(***************************************************************************)
(* The shell's processes and what they share: sh.c (main, fork1, runcmd),  *)
(* the descriptors and the file table (sysfile.c, file.c, and what fork    *)
(* and exit in proc.c do to them) and pipes (pipe.c).                      *)
(*                                                                         *)
(* A process is the script of the calls it has still to make.  runcmd      *)
(* turns a command into such a script; a call that needs several steps     *)
(* puts the rest of its work in front of the script.  One action is one    *)
(* section under ftable.lock or under a pipe's lock, which is when others  *)
(* can see what a process does.  Process 0 is init.                        *)
(***************************************************************************)
EXTENDS ShellParser, FiniteSets
LOCAL INSTANCE FiniteSetsExt

CONSTANTS NPROC,      \* process slots
          NFILE,      \* slots of the file table
          NPIPE,      \* pages that kalloc has for pipes
          NOFILE,     \* descriptors of a process
          PIPESIZE,   \* bytes in a pipe
          UintMod,    \* nread and nwrite wrap here: 2^32 in the program
          MaxIn,      \* bytes a program asks for in one read
          MaxOut,     \* bytes a program writes
          MaxTokens,  \* length of the lines that are parsed
          RunLines    \* the lines that are also carried out

ASSUME ShellAssumption ==
  /\ {NPROC, NFILE, NPIPE, PIPESIZE, MaxIn, MaxOut, MaxTokens} \subseteq Nat \ {0}
  /\ NOFILE >= 5
  /\ UintMod \in Nat /\ UintMod > PIPESIZE /\ UintMod % PIPESIZE = 0
  /\ RunLines \subseteq Seq(Tokens)

VARIABLES
  line,    \* the line at the prompt
  shell,   \* the process that init runs as its shell
  state, parent, killed,   \* struct proc
  ofile,   \* the descriptors of a process: None or an index of file
  script,  \* what a process has still to do
  p,       \* the variable int p[2] of runcmd
  file,    \* ftable.file
  pipe     \* the pages used as struct pipe
vars == <<line, shell, state, parent, killed, ofile, script, p, file, pipe>>

Procs == 0 .. NPROC - 1
Files == 0 .. NFILE - 1
Pipes == 0 .. NPIPE - 1
Fds   == 0 .. NOFILE - 1
None  == -1
Lines == UNION {[1 .. n -> Tokens] : n \in 0 .. MaxTokens}

Call(op, fd)  == [op |-> op, fd |-> fd, n |-> 0, kid |-> <<>>]
Counted(op, fd, n) == [Call(op, fd) EXCEPT !.n = n]
Forks(kid)    == [Call("fork", 0) EXCEPT !.kid = kid]
Exit          == <<Call("exit", 0)>>
\* The descriptors p[0] and p[1] of runcmd.
P0 == NOFILE
P1 == NOFILE + 1

NoFile == [ref |-> 0, type |-> "none", readable |-> FALSE, writable |-> FALSE, pipe |-> 0]
\* sent, rcvd and eof are not in the program: they count the bytes of the
\* stream and note that a read found its end.
NoPipe == [used |-> FALSE, readopen |-> FALSE, writeopen |-> FALSE, nread |-> 0, nwrite |-> 0,
           data |-> [i \in 0 .. PIPESIZE - 1 |-> 0], sent |-> 0, rcvd |-> 0, eof |-> FALSE]
Console == [NoFile EXCEPT !.ref = 6, !.type = "console", !.readable = TRUE, !.writable = TRUE]
Stdio3  == [fd \in Fds |-> IF fd < 3 THEN 0 ELSE None]
-----------------------------------------------------------------------------
(***************************************************************************)
(* runcmd.                                                                 *)
(***************************************************************************)
\* The child of a pipeline puts its end of the pipe in place of fd.
Ends(fd, end) == <<Call("close", fd), Call("dup", end), Call("close", P0), Call("close", P1)>>
PipeWaits == <<Call("wait", 0), Call("wait", 0)>> \o Exit

\* Faulty variant: the parent keeps its write end while it waits.
PipeScriptHolding(left, right) ==
  <<Call("pipe", 0), Forks(Ends(1, P1) \o left), Forks(Ends(0, P0) \o right), Call("close", P0)>>
    \o PipeWaits
\* Faulty variant: the left command keeps the read end.
PipeScriptLeaky(left, right) ==
  <<Call("pipe", 0), Forks(<<Call("close", 1), Call("dup", P1), Call("close", P1)>> \o left),
    Forks(Ends(0, P0) \o right), Call("close", P0), Call("close", P1)>> \o PipeWaits

PipeScript(left, right) ==
  <<Call("pipe", 0), Forks(Ends(1, P1) \o left), Forks(Ends(0, P0) \o right),
    Call("close", P0), Call("close", P1)>> \o PipeWaits

RECURSIVE runcmd(_)
runcmd(c) ==
  CASE c.type = "EXEC"  -> IF c.n = 0 THEN Exit ELSE <<Call("exec", 0)>> \o Exit
    [] c.type = "REDIR" -> <<Call("close", c.n), Call("open", c.n)>> \o runcmd(c.sub[1])
    [] c.type = "LIST"  -> <<Forks(runcmd(c.sub[1])), Call("wait", 0)>> \o runcmd(c.sub[2])
    [] c.type = "PIPE"  -> PipeScript(runcmd(c.sub[1]), runcmd(c.sub[2]))
    [] c.type = "BACK"  -> <<Forks(runcmd(c.sub[1]))>> \o Exit
    [] OTHER            -> Exit

\* The body of main's loop, for the line at the prompt.
main(l) == <<Forks(runcmd(parsecmd(l))), Call("wait", 0), Call("getcmd", 0)>>
-----------------------------------------------------------------------------
Init ==
  /\ line \in Lines \union RunLines
  /\ shell = 1
  /\ state = [q \in Procs |-> IF q < 2 THEN "run" ELSE "unused"]
  /\ parent = [q \in Procs |-> 0]
  /\ killed = [q \in Procs |-> FALSE]
  /\ ofile = [q \in Procs |-> IF q < 2 THEN Stdio3 ELSE [fd \in Fds |-> None]]
  /\ script = [q \in Procs |-> IF q = 1 THEN <<Call("getcmd", 0)>> ELSE <<>>]
  /\ p = [q \in Procs |-> <<0, 0>>]
  /\ file = [f \in Files |-> IF f = 0 THEN Console ELSE NoFile]
  /\ pipe = [x \in Pipes |-> NoPipe]

\* The next call of a process, and the calls after it.
InCall(q, op) == state[q] = "run" /\ script[q] # <<>> /\ Head(script[q]).op = op
\* A process that was killed exits where it would enter or leave the kernel.
User(q, op)   == InCall(q, op) /\ ~killed[q]
Rest(q)     == Tail(script[q])
Then(q, s)  == script' = [script EXCEPT ![q] = s]
Fd(q)       == LET fd == Head(script[q]).fd
               IN  IF fd = P0 THEN p[q][1] ELSE IF fd = P1 THEN p[q][2] ELSE fd
Open(q)     == {fd \in Fds : ofile[q][fd] # None}
FreeFds(q)  == Fds \ Open(q)
FreeFiles   == {f \in Files : file[f].ref = 0}
FreePipes   == {x \in Pipes : ~pipe[x].used}
FreeProcs   == {q \in Procs : state[q] = "unused"}
Kids(q)     == {k \in Procs \ {q} : state[k] # "unused" /\ parent[k] = q}

\* wakeup(&p->nread) and wakeup(&p->nwrite), by the call that sleeps there.
Asleep(x, op) == {q \in Procs : state[q] = "asleep" /\ Head(script[q]).op = op
                                  /\ file[ofile[q][Fd(q)]].pipe = x}
Wakeup(x, op) == state' = [q \in Procs |-> IF q \in Asleep(x, op) THEN "run" ELSE state[q]]
-----------------------------------------------------------------------------
(***************************************************************************)
(* Descriptors and the file table.                                         *)
(***************************************************************************)
Drop(f) == IF file[f].ref = 1 THEN [file EXCEPT ![f] = NoFile] ELSE [file EXCEPT ![f].ref = @ - 1]

\* fileclose up to the call of pipeclose that the last reference to an end of a
\* pipe makes.
fileclose(q, f, rest) ==
  /\ file' = Drop(f)
  /\ Then(q, IF file[f].ref = 1 /\ file[f].type = "pipe"
             THEN <<Counted("pipeclose", IF file[f].writable THEN 1 ELSE 0, file[f].pipe)>> \o rest
             ELSE rest)

\* The descriptor is cleared, then its file is closed.
Close(q, fd, rest) ==
  /\ ofile' = [ofile EXCEPT ![q][fd] = None]
  /\ fileclose(q, ofile[q][fd], rest)

sys_close(q) ==
  /\ User(q, "close")
  /\ IF Fd(q) \in Open(q)
     THEN Close(q, Fd(q), Rest(q))
     ELSE Then(q, Rest(q)) /\ UNCHANGED <<file, ofile>>
  /\ UNCHANGED <<line, shell, state, parent, killed, p, pipe>>

\* Faulty variant: the descriptor is taken and the reference is not.
DupUncounted(q) ==
  /\ User(q, "dup")
  /\ IF Fd(q) \in Open(q) /\ FreeFds(q) # {}
     THEN ofile' = [ofile EXCEPT ![q][Min(FreeFds(q))] = ofile[q][Fd(q)]]
     ELSE UNCHANGED ofile
  /\ Then(q, Rest(q))
  /\ UNCHANGED <<line, shell, state, parent, killed, p, pipe, file>>

sys_dup(q) ==
  /\ User(q, "dup")
  /\ IF Fd(q) \in Open(q) /\ FreeFds(q) # {}
     THEN /\ ofile' = [ofile EXCEPT ![q][Min(FreeFds(q))] = ofile[q][Fd(q)]]
          /\ file' = [file EXCEPT ![ofile[q][Fd(q)]].ref = @ + 1]
     ELSE UNCHANGED <<file, ofile>>
  /\ Then(q, Rest(q))
  /\ UNCHANGED <<line, shell, state, parent, killed, p, pipe>>

\* The redirection of runcmd: an open that fails ends the process.
sys_open(q) ==
  /\ User(q, "open")
  /\ \/ /\ FreeFiles # {} /\ FreeFds(q) # {}
        /\ ofile' = [ofile EXCEPT ![q][Min(FreeFds(q))] = Min(FreeFiles)]
        /\ file' = [file EXCEPT ![Min(FreeFiles)] =
                      [NoFile EXCEPT !.ref = 1, !.type = "inode",
                                     !.readable = (Fd(q) = 0), !.writable = (Fd(q) # 0)]]
        /\ Then(q, Rest(q))
     \/ Then(q, Exit) /\ UNCHANGED <<ofile, file>>
  /\ UNCHANGED <<line, shell, state, parent, killed, p, pipe>>

(***************************************************************************)
(* pipe(): filealloc twice, each a section of ftable.lock, then kalloc and *)
(* fdalloc, which nobody can see the parts of.  A pipe() that fails closes *)
(* what it has, one file after the other; the shell gives up.              *)
(***************************************************************************)
PipeEnd(x, w) == [ref |-> 1, type |-> "pipe", readable |-> ~w, writable |-> w, pipe |-> x]
NewPipe == [NoPipe EXCEPT !.used = TRUE, !.readopen = TRUE, !.writeopen = TRUE]
Undo(fs) == [i \in DOMAIN fs |-> Call("fileclose", fs[i])] \o Exit

\* The first unused file goes to the call, which has those of fs and goes on with
\* next, or it fails.
filealloc(q, fs, next) ==
  /\ IF FreeFiles = {} THEN Then(q, Undo(fs)) /\ UNCHANGED file
     ELSE LET f == Min(FreeFiles)
          IN  /\ file' = [file EXCEPT ![f].ref = 1]
              /\ Then(q, <<[next EXCEPT !.n = f]>> \o Rest(q))
  /\ UNCHANGED <<line, shell, state, parent, killed, ofile, p, pipe>>

sys_pipe(q) == User(q, "pipe") /\ filealloc(q, <<>>, Call("pipe1", 0))

\* Faulty variant: a pipe that gets only one file keeps it.
PipeKeepsFile(q) ==
  InCall(q, "pipe1") /\ filealloc(q, <<>>, Call("pipe2", Head(script[q]).n))

SecondFile(q) ==
  /\ InCall(q, "pipe1")
  /\ LET f0 == Head(script[q]).n IN filealloc(q, <<f0>>, Call("pipe2", f0))

\* The page, if kalloc has one, the two ends, and a descriptor for each; with only
\* one the first is given back, and both files are closed, which frees the page.
pipealloc(q) ==
  /\ InCall(q, "pipe2")
  /\ LET f0 == Head(script[q]).fd
         f1 == Head(script[q]).n
         x  == Min(FreePipes)
         d0 == Min(FreeFds(q))
         d1 == Min(FreeFds(q) \ {d0})
     IN  \/ Then(q, Undo(<<f0, f1>>)) /\ UNCHANGED <<pipe, file, ofile, p>>
         \/ /\ FreePipes # {}
            /\ pipe' = [pipe EXCEPT ![x] = NewPipe]
            /\ file' = [file EXCEPT ![f0] = PipeEnd(x, FALSE), ![f1] = PipeEnd(x, TRUE)]
            /\ IF Cardinality(FreeFds(q)) < 2 THEN Then(q, Undo(<<f0, f1>>)) /\ UNCHANGED <<ofile, p>>
               ELSE /\ ofile' = [ofile EXCEPT ![q][d0] = f0, ![q][d1] = f1]
                    /\ p' = [p EXCEPT ![q] = <<d0, d1>>]
                    /\ Then(q, Rest(q))
  /\ UNCHANGED <<line, shell, state, parent, killed>>

UndoFile(q) ==
  /\ InCall(q, "fileclose")
  /\ fileclose(q, Head(script[q]).fd, Rest(q))
  /\ UNCHANGED <<line, shell, state, parent, killed, ofile, p, pipe>>
-----------------------------------------------------------------------------
(***************************************************************************)
(* Processes.                                                              *)
(***************************************************************************)
\* main: the line is read, a child will run it.  One line a behaviour: what
\* runs in the background meets the prompt, not a second line.
getcmd(q) ==
  /\ User(q, "getcmd")
  /\ line \in RunLines
  /\ line' = <<>>
  /\ Then(q, main(line))
  /\ UNCHANGED <<shell, state, parent, killed, ofile, p, file, pipe>>

\* fork: the child holds every open file of its parent.  fork1 panics.
Refs(q, f) == Cardinality({fd \in Fds : ofile[q][fd] = f})
Fork(q, child) ==
  /\ state' = [state EXCEPT ![child] = "run"]
  /\ parent' = [parent EXCEPT ![child] = q]
  /\ killed' = [killed EXCEPT ![child] = FALSE]
  /\ ofile' = [ofile EXCEPT ![child] = ofile[q]]
  /\ file' = [f \in Files |-> [file[f] EXCEPT !.ref = @ + Refs(q, f)]]
  /\ script' = [script EXCEPT ![q] = Rest(q), ![child] = Head(script[q]).kid]
  /\ p' = [p EXCEPT ![child] = p[q]]

fork1(q) ==
  /\ User(q, "fork")
  /\ IF FreeProcs # {} THEN Fork(q, Min(FreeProcs))
     ELSE Then(q, Exit) /\ UNCHANGED <<state, parent, killed, ofile, file, p>>
  /\ UNCHANGED <<line, shell, pipe>>

\* wait: a zombie child is reaped, or there is no child.
Freed(k) == /\ state' = [state EXCEPT ![k] = "unused"]
            /\ killed' = [killed EXCEPT ![k] = FALSE]
            /\ parent' = [parent EXCEPT ![k] = 0]
wait(q) ==
  /\ User(q, "wait")
  /\ LET dead == {k \in Kids(q) : state[k] = "zombie"}
     IN  IF dead # {} THEN Freed(Min(dead))
         ELSE Kids(q) = {} /\ UNCHANGED <<state, killed, parent>>
  /\ Then(q, Rest(q))
  /\ UNCHANGED <<line, shell, ofile, p, file, pipe>>

\* exit: the open files are closed one by one, then the children go to init.
exit(q) ==
  /\ InCall(q, "exit")
  /\ IF Open(q) # {} THEN Close(q, Min(Open(q)), Exit) /\ UNCHANGED <<state, parent, p>>
     ELSE /\ state' = [state EXCEPT ![q] = "zombie"]
          /\ parent' = [k \in Procs |-> IF k \in Kids(q) THEN 0 ELSE parent[k]]
          /\ Then(q, <<>>)
          /\ p' = [p EXCEPT ![q] = <<0, 0>>]
          /\ UNCHANGED <<ofile, file>>
  /\ UNCHANGED <<line, shell, killed, pipe>>

\* A killed process is sent to exit before its next call.
Dies(q) ==
  /\ state[q] = "run" /\ killed[q]
  /\ script[q] # <<>>
  /\ Head(script[q]).op \in {"close", "dup", "open", "pipe", "fork", "wait", "exec", "program", "getcmd"}
  /\ Then(q, Exit)
  /\ UNCHANGED <<line, shell, state, parent, killed, ofile, p, file, pipe>>

\* kill: of the shell or of a program at a pipe, of one process at a time, while
\* the shell waits for its command (a program between two calls may exit anyway).
\* The test of killed comes before sleep() takes ptable.lock, so a kill may also
\* leave the process asleep.
Kill(q) ==
  /\ InCall(shell, "wait")
  /\ state[q] \in {"run", "asleep"} /\ script[q] # <<>>
  /\ q = shell \/ Head(script[q]).op \in {"piperead", "pipewrite"}
  /\ \A k \in Procs : ~killed[k]
  /\ killed' = [killed EXCEPT ![q] = TRUE]
  /\ state' \in {state, [state EXCEPT ![q] = "run"]}
  /\ UNCHANGED <<line, shell, parent, ofile, script, p, file, pipe>>

\* init reaps its zombies; when its shell ends it starts another one.
InitWait ==
  \E k \in Kids(0) :
    /\ state[k] = "zombie"
    /\ IF k # shell
       THEN Freed(k) /\ UNCHANGED <<shell, ofile, file, script>>
       ELSE LET s == Min(FreeProcs \union {k})
            IN  /\ shell' = s
                /\ state' = [state EXCEPT ![k] = "unused", ![s] = "run"]
                /\ killed' = [killed EXCEPT ![k] = FALSE]
                /\ parent' = [parent EXCEPT ![k] = 0, ![s] = 0]
                /\ ofile' = [ofile EXCEPT ![s] = ofile[0]]
                /\ file' = [f \in Files |-> [file[f] EXCEPT !.ref = @ + Refs(0, f)]]
                /\ script' = [script EXCEPT ![s] = <<Call("getcmd", 0)>>]
    /\ UNCHANGED <<line, p, pipe>>
-----------------------------------------------------------------------------
(***************************************************************************)
(* Programs, by what they do to pipes: one reads a pipe on its standard    *)
(* input to the end (fd 1 in its script means that it still reads), writes *)
(* n bytes in one call to a pipe on its standard output, and may exit at   *)
(* any time; nothing but a pipe can block it.  One outside a pipeline may  *)
(* instead take some of its free descriptors, with dup, and call pipe.     *)
(***************************************************************************)
Program(reading, n) == Counted("program", reading, n)
Opener(n) == [i \in 1 .. n |-> Call("dup", 0)] \o <<Call("pipe", 0)>> \o Exit

\* Whether fd is an end of a pipe that the call may use.
OnPipe(q, fd, mode) == fd \in Open(q) /\ file[ofile[q][fd]].type = "pipe" /\ file[ofile[q][fd]][mode]

exec(q) ==
  /\ User(q, "exec")
  /\ LET reads  == OnPipe(q, 0, "readable")
         writes == OnPipe(q, 1, "writable")
     IN  \/ Then(q, Rest(q))
         \/ Then(q, <<Program(IF reads THEN 1 ELSE 0, IF writes THEN MaxOut ELSE 0)>>)
         \/ ~reads /\ ~writes /\ \E n \in 0 .. NOFILE - 3 : Then(q, Opener(n))
  /\ p' = [p EXCEPT ![q] = <<0, 0>>]
  /\ UNCHANGED <<line, shell, state, parent, killed, ofile, file, pipe>>

ProgramStep(q) ==
  /\ User(q, "program")
  /\ LET me == Head(script[q])
     IN  \/ me.fd = 1 /\ Then(q, <<Call("piperead", 0), me>>)
         \/ me.n > 0 /\ Then(q, <<Counted("pipewrite", 1, me.n), Program(me.fd, 0)>>)
         \/ Then(q, Exit)
  /\ UNCHANGED <<line, shell, state, parent, killed, ofile, p, file, pipe>>
-----------------------------------------------------------------------------
(***************************************************************************)
(* pipe.c.                                                                 *)
(***************************************************************************)
Used(x) == (pipe[x].nwrite - pipe[x].nread) % UintMod

\* Faulty variants: a pipe holds one byte more than it has room for; a read of
\* an empty pipe returns at once.
RoomOneMore(x) == PIPESIZE + 1 - Used(x)
EmptyNever(x)  == Used(x) > PIPESIZE

Room(x)  == PIPESIZE - Used(x)
\* What piperead waits out: nothing to read, and somebody who may write.
Empty(x) == Used(x) = 0 /\ pipe[x].writeopen
TheEnd(q) == file[ofile[q][Head(script[q]).fd]].pipe

\* Clear the flag of the end that is closed, and wake those at the other end.
Shut(c, w) == IF w = 1 THEN [c EXCEPT !.writeopen = FALSE] ELSE [c EXCEPT !.readopen = FALSE]

\* Faulty variant: the page is freed with the first end that is closed.
PipecloseEither(q) ==
  /\ InCall(q, "pipeclose")
  /\ pipe' = [pipe EXCEPT ![Head(script[q]).n] = NoPipe]
  /\ Wakeup(Head(script[q]).n, IF Head(script[q]).fd = 1 THEN "piperead" ELSE "pipewrite")
  /\ Then(q, Rest(q))
  /\ UNCHANGED <<line, shell, parent, killed, ofile, p, file>>

pipeclose(q) ==
  /\ InCall(q, "pipeclose")
  /\ LET x == Head(script[q]).n
         w == Head(script[q]).fd
         c == Shut(pipe[x], w)
     IN  /\ pipe' = [pipe EXCEPT ![x] = IF c.readopen \/ c.writeopen THEN c ELSE NoPipe]
         /\ Wakeup(x, IF w = 1 THEN "piperead" ELSE "pipewrite")
  /\ Then(q, Rest(q))
  /\ UNCHANGED <<line, shell, parent, killed, ofile, p, file>>

\* Store k bytes, as far as they go.
Stored(x, k) ==
  [x EXCEPT !.nwrite = (@ + k) % UintMod, !.sent = @ + k,
            !.data = [i \in DOMAIN @ |->
                        LET hit == {j \in 0 .. k - 1 : (x.nwrite + j) % PIPESIZE = i}
                        IN  IF hit = {} THEN @[i] ELSE x.sent + Max(hit)]]

\* The whole of pipewrite up to its return or its sleep: the bytes for which
\* there is room are stored before the ends are looked at.
pipewrite(q) ==
  /\ InCall(q, "pipewrite")
  /\ LET x    == TheEnd(q)
         n    == Head(script[q]).n
         room == Room(x)
         k    == Min({n, room})
     IN  /\ pipe' = [pipe EXCEPT ![x] = Stored(@, k)]
         /\ \/ /\ n <= room
               /\ Wakeup(x, "piperead")
               /\ Then(q, Rest(q))
            \/ /\ n > room
               /\ ~pipe[x].readopen \/ killed[q]
               /\ Then(q, Rest(q))
               /\ UNCHANGED state
            \/ /\ n > room
               /\ pipe[x].readopen /\ ~killed[q]
               /\ state' = [r \in Procs |-> IF r \in Asleep(x, "piperead") THEN "run"
                                            ELSE IF r = q THEN "asleep" ELSE state[r]]
               /\ Then(q, <<Counted("pipewrite", 1, n - k)>> \o Rest(q))
  /\ UNCHANGED <<line, shell, parent, killed, ofile, p, file>>

\* A read that returns nothing, or an error, is the end of the input.
piperead(q) ==
  /\ InCall(q, "piperead")
  /\ LET x == TheEnd(q)
         k == Min({MaxIn, Used(x)})
         n == Rest(q)[1].n
     IN  \/ /\ Empty(x)
            /\ IF killed[q] THEN Then(q, <<Program(0, n)>>) /\ UNCHANGED state
               ELSE state' = [state EXCEPT ![q] = "asleep"] /\ UNCHANGED script
            /\ UNCHANGED pipe
         \/ /\ ~Empty(x)
            /\ pipe' = [pipe EXCEPT ![x].nread = (@ + k) % UintMod, ![x].rcvd = @ + k,
                                    ![x].eof = @ \/ k = 0]
            /\ Then(q, IF k = 0 THEN <<Program(0, n)>> ELSE Rest(q))
            /\ Wakeup(x, "pipewrite")
  /\ UNCHANGED <<line, shell, parent, killed, ofile, p, file>>
-----------------------------------------------------------------------------
Step(q) ==
  \/ sys_close(q) \/ sys_dup(q) \/ sys_open(q)
  \/ sys_pipe(q) \/ SecondFile(q) \/ pipealloc(q) \/ UndoFile(q)
  \/ fork1(q) \/ wait(q) \/ exit(q) \/ Dies(q) \/ exec(q) \/ ProgramStep(q)
  \/ pipeclose(q) \/ pipewrite(q) \/ piperead(q)
Next == InitWait \/ \E q \in Procs : Step(q) \/ getcmd(q) \/ Kill(q)

Spec == Init /\ [][Next]_vars
\* Every process that can run is run again (scheduler), init among them.
FairSpec == Spec /\ WF_vars(InitWait) /\ \A q \in Procs : WF_vars(Step(q))
-----------------------------------------------------------------------------
TypeOK ==
  /\ line \in Seq(Tokens) /\ shell \in Procs
  /\ state \in [Procs -> {"unused", "run", "asleep", "zombie"}]
  /\ parent \in [Procs -> Procs] /\ killed \in [Procs -> BOOLEAN]
  /\ ofile \in [Procs -> [Fds -> Files \union {None}]]
  /\ p \in [Procs -> Fds \X Fds]
  /\ \A f \in Files : file[f].ref \in Nat /\ file[f].pipe \in Pipes
  /\ \A x \in Pipes : pipe[x].nread < UintMod /\ pipe[x].nwrite < UintMod

\* The parser accepts the lines of its grammar, and only those, and builds the
\* one command the grammar gives them: pipes bind tighter than '&', '&' tighter
\* than ';' (parseline, parsepipe, parseexec, parseblock, parseredirs of sh.c).
ParseAgrees == Agrees(line)

\* f->ref is the number of descriptors that lead to the file and of calls of
\* pipe() that have it, over every fork, dup, close and exit in any order, so a
\* file is given up with its last user and not before (filedup, fileclose; fork
\* and exit in proc.c).
Has(q, f) ==
  \E i \in DOMAIN script[q] :
    LET c == script[q][i]
    IN  \/ c.op \in {"pipe2", "fileclose"} /\ c.fd = f
        \/ c.op \in {"pipe1", "pipe2"} /\ c.n = f
RefExact ==
  \A f \in Files : file[f].ref = Cardinality({d \in Procs \X Fds : ofile[d[1]][d[2]] = f})
                                   + Cardinality({q \in Procs : Has(q, f)})

\* An end of a pipe counts as open exactly while some descriptor leads to it or
\* its last holder is on its way into pipeclose; the page is free when neither
\* end is open, so a call never works on a page that was given back.
IsEnd(f, x, w) == file[f].type = "pipe" /\ file[f].pipe = x /\ file[f].writable = w
HasEnd(x, w) ==
  \/ \E f \in Files : file[f].ref > 0 /\ IsEnd(f, x, w)
  \/ \E q \in Procs : InCall(q, "pipeclose") /\ Head(script[q]).n = x
                        /\ Head(script[q]).fd = (IF w THEN 1 ELSE 0)
PipeLivesWithItsEnds ==
  \A x \in Pipes : /\ pipe[x].readopen = HasEnd(x, FALSE)
                   /\ pipe[x].writeopen = HasEnd(x, TRUE)
                   /\ pipe[x].used = (pipe[x].readopen \/ pipe[x].writeopen)

\* Descriptors, the file table and pipes agree at every step (the last close of
\* a file is two sections of two locks).
FilesExact == TypeOK /\ RefExact /\ PipeLivesWithItsEnds

\* What the ring holds is what was sent and not yet received, in order and
\* whole, whatever writers share the pipe and however the counters wrap
\* (pipewrite, piperead).
BytesInOrder ==
  \A x \in Pipes :
    /\ Used(x) = pipe[x].sent - pipe[x].rcvd /\ Used(x) <= PIPESIZE
    /\ \A j \in 0 .. Used(x) - 1 :
         pipe[x].data[(pipe[x].nread + j) % PIPESIZE] = pipe[x].rcvd + j

\* A reader is told that the input has ended only when it has received every
\* byte, and nobody is left who could write another one.
EofIsFinal == \A x \in Pipes : pipe[x].eof => pipe[x].rcvd = pipe[x].sent /\ ~HasEnd(x, TRUE)

\* A pipe is a stream: its bytes in order and once, and then its end.
StreamExact == BytesInOrder /\ EofIsFinal

\* A program starts with the three standard descriptors and no other, the first
\* readable and the second writable, whatever pipes and redirections led to it:
\* a stray pipe end would keep its reader from ever seeing the end (runcmd).
Wired ==
  \A q \in Procs :
    User(q, "program") => /\ Open(q) = {0, 1, 2}
                          /\ file[ofile[q][0]].readable /\ file[ofile[q][1]].writable

\* When only init and the shell are left, so are only their descriptors: no
\* file and no pipe page is lost by a command that failed or was killed.
NoLeak ==
  (\A q \in Procs \ {0, shell} : state[q] = "unused") =>
     \/ ~User(shell, "getcmd")
     \/ FreePipes = Pipes /\ FreeFiles = Files \ {0}

\* The prompt comes back after every command, also when its processes wait on
\* one another through pipes, fail to start or are killed (main of sh.c).
PromptReturns == []<>InCall(shell, "getcmd")
=============================================================================
