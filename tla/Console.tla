------------------------------- MODULE Console -------------------------------
(***************************************************************************)
(* The console: scan codes become characters (kbd.c), characters from the  *)
(* keyboard or the serial port are edited into lines in a ring buffer      *)
(* (consoleintr), processes read and write (consoleread, consolewrite),    *)
(* and every character moves the cursor (consputc, cgaputc).               *)
(*                                                                         *)
(* One step per character, with cons.lock held from the first to the last  *)
(* of a read or a write; an interrupt needs the lock for each character.   *)
(* Letters are "x" and "X"; "BS", "KILL", "EOF", "cr" and "nl" are C('H'), *)
(* C('U'), C('D'), '\r' and '\n'.                                          *)
(***************************************************************************)
EXTENDS Integers, Sequences, FiniteSets

CONSTANTS
  Procs,
  INPUT_BUF,    \* size of the ring buffer
  UintMod,      \* the indices are unsigned integers below UintMod
  COLS, ROWS,   \* size of the screen; the last row is never written
  MaxRead,      \* bound: characters asked for by one read
  Keys,         \* the keys of the keyboard that change a modifier
  None

ASSUME ConsoleAssumption ==
  /\ INPUT_BUF \in Nat \ {0} /\ UintMod \in Nat \ {0} /\ UintMod % INPUT_BUF = 0
  /\ UintMod > INPUT_BUF
  /\ COLS \in Nat \ {0} /\ ROWS \in Nat \ {0, 1} /\ MaxRead \in Nat \ {0}
  /\ Keys \subseteq {"lshift", "rshift", "lctl", "rctl", "caps"}
  /\ None \notin Procs \union {"make", "break"}

Stored == {"x", "X", "EOF", "nl"}
Letter == {"h", "u", "d"}

VARIABLES
  shift,        \* modifiers kbdgetc remembers
  held, second, \* the keyboard: modifier keys held down, a scan code still to come
  off,          \* modifiers switched off while a key of theirs was held
  buf, r, w, e, \* input
  pos,          \* the cursor
  conslock,     \* the process in consoleread or consolewrite that holds cons.lock
  pc, n, got, killed,   \* each process: where it is, what it still wants, has got
  panicked

kbd   == <<shift, held, second, off>>
input == <<buf, r, w, e>>
proc  == <<conslock, pc, n, got, killed>>
vars  == <<kbd, input, pos, proc, panicked>>

TypeOK ==
  /\ shift \subseteq {"SHIFT", "CTL", "CAPS", "E0"} /\ off \subseteq {"SHIFT", "CTL"}
  /\ held \subseteq {"lshift", "rshift", "lctl", "rctl"}
  /\ second \in {None, "make", "break"}
  /\ buf \in [0 .. INPUT_BUF - 1 -> Stored \union {None}]
  /\ {r, w, e} \subseteq 0 .. UintMod - 1
  /\ pos \in 0 .. COLS * ROWS - 1
  /\ conslock \in Procs \union {None} /\ panicked \in BOOLEAN
  /\ pc \in [Procs -> {"user", "wait", "read", "doze", "asleep", "write"}]
  /\ n \in [Procs -> 0 .. MaxRead] /\ got \in [Procs -> 0 .. MaxRead] /\ killed \in [Procs -> BOOLEAN]

Init ==
  /\ shift = {} /\ held = {} /\ second = None /\ off = {}
  /\ buf = [i \in 0 .. INPUT_BUF - 1 |-> None] /\ r = 0 /\ w = 0 /\ e = 0
  /\ pos = 0 /\ conslock = None /\ panicked = FALSE
  /\ pc = [p \in Procs |-> "user"] /\ n = [p \in Procs |-> 0]
  /\ got = [p \in Procs |-> 0] /\ killed = [p \in Procs |-> FALSE]

Plus(i, k)  == (i + k) % UintMod
Minus(i, k) == (i - k) % UintMod
At(i)       == buf[i % INPUT_BUF]
-----------------------------------------------------------------------------
(***************************************************************************)
(* cgaputc: k characters c one after the other.                            *)
(***************************************************************************)
\* Faulty variants: backspace at the top; no scrolling.
MovedBack(q, c) == IF c = "BS" THEN q - 1 ELSE q + 1
ScrolledNever(q) == q

Moved(q, c) ==
  CASE c = "nl" -> q + COLS - (q % COLS)
    [] c = "BS" -> IF q > 0 THEN q - 1 ELSE q
    [] OTHER    -> q + 1

Scrolled(q) == IF q \div COLS >= ROWS - 1 THEN q - COLS ELSE q

\* The cursor after 0, 1, ... k of them.
Cursor(c, k) ==
  LET at[i \in 0 .. k] == IF i = 0 THEN pos ELSE Scrolled(Moved(at[i - 1], c)) IN at

consputc(c, k) ==
  /\ panicked' = \E i \in 1 .. k : Moved(Cursor(c, k)[i - 1], c) \notin 0 .. ROWS * COLS
  /\ pos' = IF panicked' THEN pos ELSE Cursor(c, k)[k]
-----------------------------------------------------------------------------
(***************************************************************************)
(* consoleintr: one character.                                             *)
(***************************************************************************)
Ignored == UNCHANGED <<buf, e, w, pos, pc, panicked>>
Rub(k)  == e' = Minus(e, k) /\ consputc("BS", k) /\ UNCHANGED <<buf, w, pc>>

\* Faulty variants: backspace reaches into complete lines; nobody is woken.
BackspaceAny == IF e # r THEN Rub(1) ELSE Ignored
WokenSilently == pc

Backspace == IF e # w THEN Rub(1) ELSE Ignored

\* Back to the start of the uncommitted line, or to a newline in it.
KillLine == Rub(Cardinality({k \in 1 .. Minus(e, w) : \A j \in 1 .. k : At(Minus(e, j)) # "nl"}))

Room  == Minus(e, r) < INPUT_BUF
Woken == [p \in Procs |-> IF pc[p] = "asleep" THEN "wait" ELSE pc[p]]

Store(c) ==
  IF ~Room THEN Ignored
  ELSE /\ buf' = [buf EXCEPT ![e % INPUT_BUF] = c] /\ e' = Plus(e, 1)
       /\ consputc(c, 1)
       /\ IF c \in {"nl", "EOF"} \/ e' = Plus(r, INPUT_BUF)
            THEN w' = e' /\ pc' = Woken ELSE UNCHANGED <<w, pc>>

\* The code of a key that types nothing is "none".
consoleintr(c) ==
  /\ conslock = None /\ ~panicked
  /\ CASE c = "BS"   -> Backspace
       [] c = "KILL" -> KillLine
       [] c = "none" -> Ignored
       [] OTHER      -> Store(IF c = "cr" THEN "nl" ELSE c)
  /\ UNCHANGED <<r, conslock, n, got, killed>>

uartintr(c) == consoleintr(c) /\ UNCHANGED kbd
-----------------------------------------------------------------------------
(***************************************************************************)
(* kbdgetc: modifiers and the maps of kbd.h.                               *)
(***************************************************************************)
\* normalmap, shiftmap, ctlmap, and what caps lock does to a letter.
Mapped(k) ==
  CASE "CTL" \in shift ->
         (CASE k = "h" -> "BS" [] k = "u" -> "KILL" [] k = "d" -> "EOF" [] k = "enter" -> "cr")
    [] k = "enter" -> "nl"
    [] OTHER -> IF ("SHIFT" \in shift) # ("CAPS" \in shift) THEN "X" ELSE "x"

\* A key that types something, or caps lock.
KeyTypes(k) ==
  /\ second = None
  /\ k \in Keys \union Letter \union {"enter"}
  /\ IF k = "caps" THEN shift' = (shift \ {"CAPS"}) \union ({"CAPS"} \ shift) /\ consoleintr("none")
                   ELSE consoleintr(Mapped(k)) /\ UNCHANGED shift
  /\ UNCHANGED <<held, second, off>>

\* Two keys share the bit of a modifier.
Bit(k) == IF k \in {"lshift", "rshift"} THEN "SHIFT" ELSE "CTL"
Pair(k) == {j \in held \ {k} : Bit(j) = Bit(k)}

\* A key goes down, or repeats.
Press(k) ==
  /\ held' = held \union {k}
  /\ shift' = (shift \ {"E0"}) \union {Bit(k)}
  /\ off' = off \ {Bit(k)}

\* Faulty variant: the release of a key does not end the escape.
ReleaseKeepsEscape(k) ==
  /\ held' = held \ {k}
  /\ shift' = shift \ {Bit(k)}
  /\ off' = IF Pair(k) = {} THEN off \ {Bit(k)} ELSE off \union {Bit(k)}

\* A key goes up: its bit is cleared, also when the other key of the pair is down.
Release(k) ==
  /\ held' = held \ {k}
  /\ shift' = shift \ {Bit(k), "E0"}
  /\ off' = IF Pair(k) = {} THEN off \ {Bit(k)} ELSE off \union {Bit(k)}

\* Shift and left control send one code.
KeyShift(k) ==
  /\ second = None
  /\ k \in Keys
  /\ Press(k) \/ (k \in held /\ Release(k))
  /\ consoleintr("none") /\ UNCHANGED second

\* Right control sends 0xE0 first; the interrupts for the two codes are two.
KeyEscape ==
  /\ second = None
  /\ "rctl" \in Keys
  /\ second' = "make" \/ ("rctl" \in held /\ second' = "break")
  /\ shift' = shift \union {"E0"}
  /\ consoleintr("none") /\ UNCHANGED <<held, off>>

KeyControl ==
  /\ second # None /\ second' = None
  /\ IF second = "make" THEN Press("rctl") ELSE Release("rctl")
  /\ consoleintr("none")
-----------------------------------------------------------------------------
(***************************************************************************)
(* consoleread, consolewrite and kill.                                     *)
(***************************************************************************)
Goto(p, l) == pc' = [pc EXCEPT ![p] = l]

\* The call, which waits for cons.lock.
Call(p, k) ==
  /\ pc[p] = "user" /\ ~panicked
  /\ n' = [n EXCEPT ![p] = k]
  /\ Goto(p, "wait")
  /\ UNCHANGED <<kbd, input, pos, conslock, got, killed, panicked>>

\* acquire, on entry and when sleep returns.
Lock(p) ==
  /\ pc[p] = "wait" /\ conslock = None /\ ~panicked
  /\ conslock' = p /\ Goto(p, "read")
  /\ UNCHANGED <<kbd, input, pos, n, got, killed, panicked>>

\* The call returns; a process that has been killed exits, and its place is taken
\* by another one.
Done(p) ==
  /\ conslock' = None /\ Goto(p, "user")
  /\ n' = [n EXCEPT ![p] = 0] /\ got' = [got EXCEPT ![p] = 0]
  /\ killed' = [killed EXCEPT ![p] = FALSE]
More(p) ==
  /\ n' = [n EXCEPT ![p] = @ - 1] /\ got' = [got EXCEPT ![p] = @ + 1]
  /\ UNCHANGED <<conslock, pc, killed>>

\* A read of nothing returns at once.
ReadNone(p) ==
  /\ pc[p] = "read" /\ n[p] = 0
  /\ Done(p)
  /\ UNCHANGED <<kbd, input, pos, panicked>>

\* Faulty variant: the end-of-file mark is used up by the read it cuts short.
ReadEatsEof(p) ==
  /\ pc[p] = "read" /\ n[p] > 0 /\ r # w
  /\ r' = Plus(r, 1)
  /\ IF At(r) \in {"EOF", "nl"} \/ n[p] = 1 THEN Done(p) ELSE More(p)
  /\ UNCHANGED <<kbd, buf, w, e, pos, panicked>>

\* One character: an end-of-file mark ends the read and stays if the read has got
\* something; a newline, or the last character asked for, ends it.
ReadChar(p) ==
  /\ pc[p] = "read" /\ n[p] > 0 /\ r # w
  /\ r' = IF At(r) = "EOF" /\ got[p] > 0 THEN r ELSE Plus(r, 1)
  /\ IF At(r) \in {"EOF", "nl"} \/ n[p] = 1 THEN Done(p) ELSE More(p)
  /\ UNCHANGED <<kbd, buf, w, e, pos, panicked>>

\* Nothing to read: a killed process gives up, another goes to sleep.
ReadEmpty(p) ==
  /\ pc[p] = "read" /\ n[p] > 0 /\ r = w
  /\ IF killed[p] THEN Done(p) ELSE Goto(p, "doze") /\ UNCHANGED <<conslock, n, got, killed>>
  /\ UNCHANGED <<kbd, input, pos, panicked>>

Sleep(p) ==
  /\ pc[p] = "doze" /\ Goto(p, "asleep") /\ conslock' = None
  /\ UNCHANGED <<kbd, input, pos, n, got, killed, panicked>>

\* consolewrite, one character at a time.
Write(p, c) ==
  /\ ~panicked
  /\ \/ pc[p] = "user" /\ conslock = None /\ Goto(p, "write") /\ conslock' = p /\ UNCHANGED <<n, got, killed>>
     \/ pc[p] = "write" /\ UNCHANGED <<pc, conslock, n, got, killed>>
     \/ pc[p] = "write" /\ Done(p)
  /\ consputc(c, 1)
  /\ UNCHANGED <<kbd, input>>

\* kill wakes a sleeping process.
Kill(p) ==
  /\ pc[p] # "user" /\ ~killed[p] /\ killed' = [killed EXCEPT ![p] = TRUE]
  /\ Goto(p, IF pc[p] = "asleep" THEN "wait" ELSE pc[p])
  /\ UNCHANGED <<kbd, input, pos, conslock, n, got, panicked>>
-----------------------------------------------------------------------------
Interrupt ==
  \/ \E c \in {"x", "nl", "cr", "BS", "KILL", "EOF"} : uartintr(c)
  \/ \E k \in Letter \union {"enter", "caps"} : KeyTypes(k)
  \/ \E k \in {"lshift", "rshift", "lctl"} : KeyShift(k)
  \/ KeyEscape \/ KeyControl

Reader(p) == Lock(p) \/ ReadNone(p) \/ ReadChar(p) \/ ReadEmpty(p) \/ Sleep(p)

Next ==
  \/ Interrupt
  \/ \E p \in Procs :
       \/ Reader(p) \/ Kill(p)
       \/ \E k \in 0 .. MaxRead : Call(p, k)
       \/ \E c \in {"x", "nl"} : Write(p, c)

Spec == Init /\ [][Next]_vars
-----------------------------------------------------------------------------
(***************************************************************************)
(* Properties.                                                             *)
(***************************************************************************)
\* The ring buffer with its wrapping indices is a line editor and a queue of
\* complete lines: see LineInput.
Segment(i, j) == [k \in 1 .. Minus(j, i) |-> At(Plus(i, k - 1))]
Lines == INSTANCE LineInput WITH
  Chars <- Stored, Enders <- {"nl", "EOF"}, Limit <- INPUT_BUF,
  lines <- Segment(r, w), edit <- Segment(w, e)
ImplementsLineInput == Lines!Spec

\* No reader sleeps while there is a complete line: the wakeup of consoleintr is not
\* lost between the test and sleep.
NoReaderForgotten == \A p \in Procs : pc[p] \in {"doze", "asleep"} => r = w

\* No shift, control or escape gets stuck: between the interrupts of one key a
\* modifier is on exactly while a key of it is held, except after the other key of
\* its pair was let go, which clears the bit they share.
ModifiersExact ==
  second = None =>
    /\ \A m \in {"SHIFT", "CTL"} : m \in shift <=> m \notin off /\ \E k \in held : Bit(k) = m
    /\ "E0" \notin shift

\* The cursor stays on the screen: cgaputc never panics.
CursorOnScreen == ~panicked /\ pos \div COLS < ROWS - 1

\* What keyboard and screen remember between two interrupts is what the user did
\* and sees (shift in kbdgetc, pos in cgaputc).
DevicesExact == TypeOK /\ ModifiersExact /\ CursorOnScreen

\* An end-of-file mark is used up by a read that returns nothing, and by no other: a
\* mark that cuts a read short is left for the next one.  A read that asks for
\* something and finds a complete line returns nothing only for a mark.
EndOfFileSeen ==
  [][\A p \in Procs : pc[p] = "read" /\ pc'[p] = "user" =>
       /\ r' # r /\ At(r) = "EOF" => got[p] = 0
       /\ r' = r => got[p] > 0 \/ n[p] = 0 \/ r = w]_vars
=============================================================================
