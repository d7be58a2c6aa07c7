---------------------------- MODULE ShellParser ----------------------------
(***************************************************************************)
(* The parser of sh.c, function by function, on lines of tokens: "w" is a  *)
(* word, the other tokens are the symbols ('>>' builds the same command as *)
(* '>').  A parser returns the command and the position after it; a call   *)
(* of panic() is the command Bad.                                          *)
(***************************************************************************)
EXTENDS Integers, Sequences
LOCAL INSTANCE SequencesExt

CONSTANT MAXARGS
ASSUME MaxArgsAssumption == MAXARGS \in Nat \ {0}

Tokens == {"w", "<", ">", "|", "&", ";", "(", ")"}

execcmd(argc)  == [type |-> "EXEC", n |-> argc, sub |-> <<>>]
redircmd(c, fd) == [type |-> "REDIR", n |-> fd, sub |-> <<c>>]
pipecmd(l, r)  == [type |-> "PIPE", n |-> 0, sub |-> <<l, r>>]
listcmd(l, r)  == [type |-> "LIST", n |-> 0, sub |-> <<l, r>>]
backcmd(c)     == [type |-> "BACK", n |-> 0, sub |-> <<c>>]
Bad            == [type |-> "panic", n |-> 0, sub |-> <<>>]

At(c, i)   == [cmd |-> c, i |-> i]
Failed(r)  == r.cmd = Bad
Redirect(c, fds) == FoldLeft(redircmd, c, fds)
Stdio(t)   == IF t = "<" THEN 0 ELSE 1

\* The token at i is one of toks; there is none at the end of the line.
peek(s, i, toks) == i <= Len(s) /\ s[i] \in toks

\* The descriptors of the redirections from i on, and the position after them.
RECURSIVE parseredirs(_, _, _)
parseredirs(s, i, fds) ==
  IF ~peek(s, i, {"<", ">"}) THEN [ok |-> TRUE, fds |-> fds, i |-> i]
  ELSE IF ~peek(s, i + 1, {"w"}) THEN [ok |-> FALSE, fds |-> fds, i |-> i]
  ELSE parseredirs(s, i + 2, Append(fds, Stdio(s[i])))

\* The loop of parseexec, after argc arguments and the redirections fds.
RECURSIVE parseargs(_, _, _, _)
parseargs(s, i, argc, fds) ==
  IF i > Len(s) \/ peek(s, i, {"|", ")", "&", ";"}) THEN At(Redirect(execcmd(argc), fds), i)
  ELSE IF s[i] # "w" \/ argc + 1 >= MAXARGS THEN At(Bad, i)
  ELSE LET r == parseredirs(s, i + 1, fds)
       IN  IF r.ok THEN parseargs(s, r.i, argc + 1, r.fds) ELSE At(Bad, i)

RECURSIVE parseline(_, _)
parseblock(s, i) ==
  LET c == parseline(s, i + 1)
      r == parseredirs(s, c.i + 1, <<>>)
  IN  IF Failed(c) \/ ~peek(s, c.i, {")"}) \/ ~r.ok THEN At(Bad, i) ELSE At(Redirect(c.cmd, r.fds), r.i)

parseexec(s, i) ==
  IF peek(s, i, {"("}) THEN parseblock(s, i)
  ELSE LET r == parseredirs(s, i, <<>>)
       IN  IF r.ok THEN parseargs(s, r.i, 0, r.fds) ELSE At(Bad, i)

\* Faulty variant of parsepipe: what follows '|' is read as a whole line.
ParsepipeGreedy(s, i) ==
  LET l == parseexec(s, i)
      r == parseline(s, l.i + 1)
  IN  IF Failed(l) \/ ~peek(s, l.i, {"|"}) THEN l
      ELSE IF Failed(r) THEN r ELSE At(pipecmd(l.cmd, r.cmd), r.i)

RECURSIVE parsepipe(_, _)
parsepipe(s, i) ==
  LET l == parseexec(s, i)
      r == parsepipe(s, l.i + 1)
  IN  IF Failed(l) \/ ~peek(s, l.i, {"|"}) THEN l
      ELSE IF Failed(r) THEN r ELSE At(pipecmd(l.cmd, r.cmd), r.i)

RECURSIVE parseback(_, _)
parseback(s, r) ==
  IF Failed(r) \/ ~peek(s, r.i, {"&"}) THEN r ELSE parseback(s, At(backcmd(r.cmd), r.i + 1))

parseline(s, i) ==
  LET l == parseback(s, parsepipe(s, i))
      r == parseline(s, l.i + 1)
  IN  IF Failed(l) \/ ~peek(s, l.i, {";"}) THEN l
      ELSE IF Failed(r) THEN r ELSE At(listcmd(l.cmd, r.cmd), r.i)

parsecmd(s) ==
  LET r == parseline(s, 1) IN IF r.i # Len(s) + 1 THEN Bad ELSE r.cmd
-----------------------------------------------------------------------------
(***************************************************************************)
(* The reference: the grammar the parser is written for, as the set of     *)
(* commands that a whole token sequence can be read as.                    *)
(*   line ::= back | back ; line       back ::= pipe | back &              *)
(*   pipe ::= exec | exec '|' pipe     exec ::= words and redirections     *)
(*                                            | ( line ) redirections      *)
(***************************************************************************)
Before(s, k) == SubSeq(s, 1, k - 1)
After(s, k)  == SubSeq(s, k + 1, Len(s))
Splits(s, t) == {k \in 1 .. Len(s) : s[k] = t}

\* Words and redirections only, every redirection with its file.
Simple(s) ==
  /\ \A k \in 1 .. Len(s) : s[k] \in {"w", "<", ">"}
  /\ \A k \in 1 .. Len(s) : s[k] # "w" => k < Len(s) /\ s[k + 1] = "w"
RedirFds(s)  == LET t == SelectSeq(s, LAMBDA x : x # "w") IN [k \in 1 .. Len(t) |-> Stdio(t[k])]
Argc(s) == Len(s) - 2 * Len(RedirFds(s))

RECURSIVE GLine(_), GBack(_), GPipe(_)
GExec(s) ==
  (IF Simple(s) /\ Argc(s) < MAXARGS THEN {Redirect(execcmd(Argc(s)), RedirFds(s))} ELSE {})
    \union UNION {{Redirect(c, RedirFds(After(s, k))) : c \in GLine(SubSeq(s, 2, k - 1))} :
                    k \in {j \in Splits(s, ")") : s[1] = "(" /\ Simple(After(s, j))
                                                    /\ Argc(After(s, j)) = 0}}
GPipe(s) ==
  GExec(s) \union UNION {{pipecmd(l, r) : l \in GExec(Before(s, k)), r \in GPipe(After(s, k))} :
                           k \in Splits(s, "|")}
GBack(s) ==
  GPipe(s) \union (IF s # <<>> /\ Last(s) = "&" THEN {backcmd(c) : c \in GBack(Front(s))} ELSE {})
GLine(s) ==
  GBack(s) \union UNION {{listcmd(l, r) : l \in GBack(Before(s, k)), r \in GLine(After(s, k))} :
                           k \in Splits(s, ";")}

\* The grammar is unambiguous and the parser finds what it allows, and nothing else.
Agrees(s) == GLine(s) = (IF parsecmd(s) = Bad THEN {} ELSE {parsecmd(s)})
=============================================================================
