---------------------------- MODULE ConsoleProofs ----------------------------
(***************************************************************************)
(* Proofs about the console, for every number of processes and every size  *)
(* of the ring buffer, of its indices and of the screen.                   *)
(*                                                                         *)
(* The argument: a reader that has found nothing to read keeps cons.lock   *)
(* until it sleeps (Locked), and only consoleintr, which wakes it, makes a *)
(* line complete; the three indices are in order on the circle (Ring), so  *)
(* a character is stored in a cell that no kept character uses.            *)
(***************************************************************************)
EXTENDS Console, FiniteSetTheorems, SequenceTheorems, WellFoundedInduction, TLAPS

\* cons.lock is held by the process at a label under it.
Locked == \A p \in Procs : conslock = p <=> pc[p] \in {"read", "doze", "write"}

\* What a reader asks for and has got stays within its call.
Asking ==
  \A p \in Procs : /\ n[p] + got[p] <= MaxRead
                   /\ pc[p] \in {"user", "write"} => got[p] = 0

\* Modifiers and keys agree; between the two codes of one key 0xE0 is remembered.
Modifiers ==
  /\ \A m \in {"SHIFT", "CTL"} : m \in shift <=> m \notin off /\ \E k \in held : Bit(k) = m
  /\ second = None => "E0" \notin shift

\* r, w and e are in this order on the circle, at most INPUT_BUF apart.
Ring ==
  /\ Minus(w, r) + Minus(e, w) = Minus(e, r)
  /\ Minus(e, r) <= INPUT_BUF

ConsInv == TypeOK /\ Locked /\ Asking /\ Modifiers /\ CursorOnScreen /\ NoReaderForgotten /\ Ring
-----------------------------------------------------------------------------
(***************************************************************************)
(* Arithmetic.                                                             *)
(***************************************************************************)
LEMMA LeastNat ==
  ASSUME NEW S \in SUBSET Nat, S # {}
  PROVE  \E k \in S : \A j \in S : k <= j
<1>1. PICK k \in S : \A j \in S : ~(<<j, k>> \in OpToRel(<, Nat))
  BY WFMin, NatLessThanWellFounded
<1>2. \A j \in S : ~(j < k)  BY <1>1 DEF OpToRel
<1> QED BY <1>2

LEMMA Small == ASSUME NEW m \in Nat \ {0}, NEW x \in 0 .. m - 1 PROVE x % m = x
OBVIOUS

LEMMA Division ==
  ASSUME NEW m \in Nat \ {0}, NEW x \in Int
  PROVE  x \div m \in Int /\ x % m \in 0 .. m - 1 /\ x = m * (x \div m) + (x % m)
OBVIOUS

LEMMA Multiples ==
  ASSUME NEW m \in Nat \ {0}, NEW d \in Int
  PROVE  m * d \in Int /\ (d >= 1 => m * d >= m) /\ (d <= -1 => m * d <= -m)
OBVIOUS

LEMMA Remainder ==
  ASSUME NEW m \in Nat \ {0}, NEW q \in Int, NEW t \in 0 .. m - 1
  PROVE  (m * q + t) % m = t
<1> DEFINE x == m * q + t
<1>1. x \in Int  BY Multiples
<1>2. x \div m \in Int /\ x % m \in 0 .. m - 1 /\ x = m * (x \div m) + (x % m)  BY <1>1, Division
<1> DEFINE d == q - (x \div m)
<1>3. d \in Int /\ m * d = m * q - m * (x \div m)  BY <1>2
<1>4. m * d = (x % m) - t  BY <1>2, <1>3, Multiples
<1>5. ~(d >= 1) /\ ~(d <= -1)  BY <1>2, <1>3, <1>4, Multiples
<1>6. d = 0  BY <1>3, <1>5
<1>7. m * d = 0  BY <1>6
<1> QED BY <1>2, <1>4, <1>7

\* Adding a multiple of the modulus changes nothing.
LEMMA Wraps ==
  ASSUME NEW m \in Nat \ {0}, NEW x \in Int, NEW k \in Int PROVE (x + m * k) % m = (x % m)
<1>1. PICK d \in Int, t \in 0 .. m - 1 : d = (x \div m) /\ t = (x % m) /\ x = m * d + t  BY Division
<1>2. PICK q \in Int : q = d + k  OBVIOUS
<1>3. m * q = m * d + m * k /\ m * d \in Int /\ m * k \in Int  BY <1>2, Multiples
<1>4. x + m * k = m * q + t  BY <1>1, <1>3
<1>5. (m * q + t) % m = t  BY Remainder
<1> QED BY <1>1, <1>4, <1>5

LEMMA WrapsOnce == ASSUME NEW m \in Nat \ {0}, NEW x \in Int PROVE (x + m) % m = (x % m)
<1>1. PICK k \in Int : k = 1  OBVIOUS
<1>2. (x + m * k) % m = (x % m)  BY Wraps
<1>3. m * k = m  BY <1>1
<1> QED BY <1>2, <1>3

LEMMA MinusIs ==
  ASSUME NEW i \in 0 .. UintMod - 1, NEW j \in 0 .. UintMod - 1
  PROVE  Minus(i, j) = IF j <= i THEN i - j ELSE i - j + UintMod
<1>1. PICK m \in Nat \ {0} : m = UintMod  BY ConsoleAssumption
<1>2. PICK x \in Int : x = i - j  BY <1>1
<1>3. CASE j <= i
  <2>1. x \in 0 .. m - 1  BY <1>1, <1>2, <1>3
  <2>2. x % m = x  BY <2>1, Small
  <2> QED BY <1>1, <1>2, <1>3, <2>2 DEF Minus
<1>4. CASE ~(j <= i)
  <2>1. x + m \in 0 .. m - 1  BY <1>1, <1>2, <1>4
  <2>2. (x + m) % m = x + m  BY <2>1, Small
  <2>3. (x + m) % m = (x % m)  BY WrapsOnce
  <2> QED BY <1>1, <1>2, <1>4, <2>2, <2>3 DEF Minus
<1> QED BY <1>3, <1>4

LEMMA PlusIs ==
  ASSUME NEW i \in 0 .. UintMod - 1, NEW k \in 0 .. UintMod - 1
  PROVE  Plus(i, k) = IF i + k < UintMod THEN i + k ELSE i + k - UintMod
<1>1. PICK m \in Nat \ {0} : m = UintMod  BY ConsoleAssumption
<1>3. CASE i + k < m
  <2>1. i + k \in 0 .. m - 1  BY <1>1, <1>3
  <2>2. (i + k) % m = i + k  BY <2>1, Small
  <2> QED BY <1>1, <1>3, <2>2 DEF Plus
<1>4. CASE ~(i + k < m)
  <2>1. PICK x \in 0 .. m - 1 : x = i + k - m  BY <1>1, <1>4
  <2>2. x % m = x  BY Small
  <2>3. (x + m) % m = (x % m)
    <3>1. x \in Int  BY <2>1
    <3> QED BY <3>1, WrapsOnce
  <2>4. x + m = i + k  BY <1>1, <2>1
  <2> QED BY <1>1, <1>4, <2>1, <2>2, <2>3, <2>4 DEF Plus
<1> QED BY <1>1, <1>3, <1>4

\* Cells of the ring buffer less than INPUT_BUF apart are different.
LEMMA CellsDiffer ==
  ASSUME NEW a \in Nat, NEW b \in Nat, a < b, b < a + INPUT_BUF
  PROVE  (a % INPUT_BUF) # (b % INPUT_BUF)
<1>0. PICK m \in Nat \ {0} : m = INPUT_BUF  BY ConsoleAssumption
<1> SUFFICES ASSUME (a % m) = (b % m) PROVE FALSE  BY <1>0
<1>1. PICK x \in Int, t \in 0 .. m - 1 : t = (a % m) /\ a = m * x + t
  <2>1. a \in Int  OBVIOUS
  <2> QED BY <2>1, Division
<1>2. PICK y \in Int, u \in 0 .. m - 1 : u = (b % m) /\ b = m * y + u
  <2>1. b \in Int  OBVIOUS
  <2> QED BY <2>1, Division
<1>3. PICK d \in Int : d = y - x  OBVIOUS
<1>4. m * d = m * y - m * x /\ m * x \in Int /\ m * y \in Int  BY <1>3, Multiples
<1>5. m * d = b - a  BY <1>1, <1>2, <1>4
<1>6. m * d \in Int /\ (d >= 1 => m * d >= m) /\ (d <= -1 => m * d <= -m)  BY Multiples
<1>7. d = 0  BY <1>0, <1>5, <1>6
<1>8. m * d = 0  BY <1>7
<1> QED BY <1>5, <1>8

LEMMA CellOfSum ==
  ASSUME NEW i \in 0 .. UintMod - 1, NEW k \in 0 .. UintMod - 1
  PROVE  (Plus(i, k) % INPUT_BUF) = ((i + k) % INPUT_BUF)
<1>0. PICK m \in Nat \ {0}, u \in Nat \ {0} : m = INPUT_BUF /\ u = UintMod /\ (u % m) = 0
  BY ConsoleAssumption
<1>1. CASE i + k < u
  <2>1. Plus(i, k) = i + k  BY <1>0, <1>1, PlusIs
  <2> QED BY <2>1
<1>2. CASE ~(i + k < u)
  <2>1. PICK h \in Int : u = m * h
    <3>1. u \in Int  OBVIOUS
    <3>2. PICK h \in Int, t \in 0 .. m - 1 : t = (u % m) /\ u = m * h + t  BY <3>1, Division
    <3>3. m * h \in Int  BY Multiples
    <3>4. u = m * h  BY <1>0, <3>2, <3>3
    <3> QED BY <3>4
  <2>2. PICK x \in Int : x = i + k - u  BY <1>0
  <2>3. (x + m * h) % m = (x % m)  BY Wraps
  <2>4. x + m * h = i + k  BY <1>0, <2>1, <2>2
  <2>5. Plus(i, k) = x  BY <1>0, <1>2, <2>2, PlusIs
  <2> QED BY <1>0, <2>3, <2>4, <2>5
<1> QED BY <1>1, <1>2

LEMMA Screen ==
  /\ COLS \in Nat \ {0} /\ ROWS \in Nat \ {0, 1}
  /\ COLS * ROWS \in Nat /\ (ROWS - 1) * COLS \in Nat /\ ROWS * COLS = (ROWS - 1) * COLS + COLS
  /\ COLS * ROWS = ROWS * COLS
  /\ \A q \in Nat : q \div COLS < ROWS - 1 <=> q < (ROWS - 1) * COLS
BY ConsoleAssumption
-----------------------------------------------------------------------------
(***************************************************************************)
(* The cursor (cgaputc).                                                   *)
(***************************************************************************)
\* The cells of the written rows.
Cells == 0 .. (ROWS - 1) * COLS - 1

\* One character moves the cursor at most to the start of the last row, and scrolling
\* brings it back.
LEMMA OneCharacter ==
  ASSUME NEW q \in Cells, NEW c
  PROVE  Moved(q, c) \in 0 .. ROWS * COLS /\ Scrolled(Moved(q, c)) \in Cells
<1>0. PICK m \in Nat \ {0}, b \in Nat, h \in Nat \ {0} : m = COLS /\ b = m * h /\ h = ROWS - 1
  BY ConsoleAssumption
<1>1. b = (ROWS - 1) * COLS /\ ROWS * COLS = b + m /\ q \in 0 .. b - 1  BY <1>0, Screen DEF Cells
<1>2. m <= b
  <2>1. h \in Int /\ h >= 1  OBVIOUS
  <2>2. m * h >= m  BY <2>1, Multiples
  <2> QED BY <1>0, <2>2
<1>3. Moved(q, c) \in 0 .. b
  <2>1. CASE c = "nl"
    <3>1. PICK d \in Int, t \in 0 .. m - 1 : t = (q % m) /\ q = m * d + t
      <4>1. q \in Int  BY <1>1
      <4> QED BY <4>1, Division
    <3>2. m * d \in Int  BY Multiples
    <3>3. m * h - m * d > 0 /\ m * (h - d) = m * h - m * d  BY <1>0, <1>1, <3>1, <3>2
    <3>4. PICK g \in Int : g = h - d  OBVIOUS
    <3>5. m * g > 0 /\ m * g = m * h - m * d  BY <3>3, <3>4
    <3>6. g >= 1  BY <3>5, Multiples
    <3>7. m * g >= m  BY <3>6, Multiples
    <3>8. q + m - (q % m) = m * d + m  BY <1>1, <3>1, <3>2
    <3>9. m * d + m \in 0 .. b  BY <1>0, <1>1, <3>1, <3>2, <3>5, <3>7
    <3> QED BY <1>0, <2>1, <3>8, <3>9 DEF Moved
  <2>2. CASE c # "nl"  BY <1>1, <2>2 DEF Moved
  <2> QED BY <2>1, <2>2
<1>4. PICK v \in 0 .. b : v = Moved(q, c)  BY <1>3
<1>5. v \div COLS < ROWS - 1 <=> v < b  BY <1>1, <1>4, Screen
<1>6. v \div COLS \in Int /\ ROWS - 1 \in Int  BY <1>0, <1>4, Screen
<1>7. Scrolled(v) = IF v < b THEN v ELSE v - m  BY <1>0, <1>5, <1>6 DEF Scrolled
<1>8. Scrolled(v) \in 0 .. b - 1  BY <1>1, <1>2, <1>7
<1> QED BY <1>0, <1>1, <1>3, <1>4, <1>8 DEF Cells

\* The recursive function of Cursor exists: least length without one.
LEMMA CursorIs ==
  ASSUME NEW c, NEW k \in Nat
  PROVE  Cursor(c, k) = [i \in 0 .. k |-> IF i = 0 THEN pos ELSE Scrolled(Moved(Cursor(c, k)[i - 1], c))]
<1> DEFINE Fits(f, j) == f = [i \in 0 .. j |-> IF i = 0 THEN pos ELSE Scrolled(Moved(f[i - 1], c))]
           S == {j \in Nat : ~\E f : Fits(f, j)}
<1>1. S = {}
  <2> SUFFICES ASSUME S # {} PROVE FALSE  OBVIOUS
  <2>1. PICK j \in S : \A l \in S : j <= l
    <3>1. S \in SUBSET Nat  OBVIOUS
    <3> HIDE DEF S
    <3> QED BY <3>1, LeastNat
  <2>2. CASE j = 0
    <3> DEFINE f == [i \in 0 .. 0 |-> pos]
    <3>1. Fits(f, 0)  OBVIOUS
    <3> QED BY <2>2, <3>1
  <2>3. CASE j # 0
    <3>0. j \in Nat  OBVIOUS
    <3>1. j - 1 \in Nat /\ j - 1 \notin S
      <4>1. j - 1 \in Nat /\ ~(j <= j - 1)  BY <2>3, <3>0
      <4> HIDE DEF S
      <4> QED BY <2>1, <4>1
    <3>2. PICK f : Fits(f, j - 1)  BY <3>1
    <3> DEFINE g == [i \in 0 .. j |-> IF i <= j - 1 THEN f[i] ELSE Scrolled(Moved(f[j - 1], c))]
    <3>3. \A i \in 0 .. j : g[i] = IF i = 0 THEN pos ELSE Scrolled(Moved(g[i - 1], c))
      <4> SUFFICES ASSUME NEW i \in 0 .. j
                   PROVE  g[i] = IF i = 0 THEN pos ELSE Scrolled(Moved(g[i - 1], c))  OBVIOUS
      <4>1. \A x \in 0 .. j - 1 : f[x] = IF x = 0 THEN pos ELSE Scrolled(Moved(f[x - 1], c))
        BY <3>1, <3>2
      <4>2. i # 0 => i - 1 \in 0 .. j - 1 /\ g[i - 1] = f[i - 1]  BY <3>1
      <4>3. CASE i <= j - 1  BY <3>1, <4>1, <4>2, <4>3
      <4>4. CASE i = j  BY <3>1, <4>2, <4>4
      <4> QED BY <3>1, <4>3, <4>4
    <3>4. Fits(g, j)
      <4>1. g = [i \in 0 .. j |-> g[i]]  OBVIOUS
      <4> HIDE DEF g
      <4> QED BY <3>3, <4>1
    <3> HIDE DEF g
    <3> QED BY <3>4
  <2> QED BY <2>2, <2>3
<1>2. PICK f : Fits(f, k)  BY <1>1
<1>3. Fits(Cursor(c, k), k)
  BY <1>2 DEF Cursor
<1> QED BY <1>3

LEMMA CursorStays ==
  ASSUME pos \in Cells, NEW c, NEW k \in Nat, consputc(c, k)
  PROVE  panicked' = FALSE /\ pos' \in Cells
<1> DEFINE f == Cursor(c, k)
           S == {i \in 0 .. k : f[i] \notin Cells}
<1>0. \A i \in 0 .. k : f[i] = IF i = 0 THEN pos ELSE Scrolled(Moved(f[i - 1], c))  BY CursorIs
<1> HIDE DEF f
<1>1. S = {}
  <2> SUFFICES ASSUME S # {} PROVE FALSE  OBVIOUS
  <2>1. PICK j \in S : \A l \in S : j <= l
    <3>1. S \in SUBSET Nat  OBVIOUS
    <3> HIDE DEF S
    <3> QED BY <3>1, LeastNat
  <2>2. j # 0  BY <1>0, <2>1
  <2>3. j - 1 \in 0 .. k /\ f[j - 1] \in Cells  BY <2>1, <2>2
  <2>4. Scrolled(Moved(f[j - 1], c)) \in Cells  BY <2>3, OneCharacter
  <2> QED BY <1>0, <2>1, <2>2, <2>4
<1>2. \A i \in 0 .. k : f[i] \in Cells  BY <1>1
<1>3. \A i \in 1 .. k : Moved(f[i - 1], c) \in 0 .. ROWS * COLS
  <2> SUFFICES ASSUME NEW i \in 1 .. k PROVE Moved(f[i - 1], c) \in 0 .. ROWS * COLS  OBVIOUS
  <2>1. i - 1 \in 0 .. k  OBVIOUS
  <2>2. f[i - 1] \in Cells  BY <1>2, <2>1
  <2> QED BY <2>2, OneCharacter
<1>4. panicked' = FALSE  BY <1>3 DEF consputc, f
<1>5. pos' = f[k]  BY <1>4 DEF consputc, f
<1> QED BY <1>2, <1>4, <1>5

LEMMA OnScreen ==
  ASSUME pos \in 0 .. COLS * ROWS - 1, panicked \in BOOLEAN
  PROVE  CursorOnScreen <=> panicked = FALSE /\ pos \in Cells
<1>1. pos \in Nat /\ COLS * ROWS \in Nat  BY Screen
<1>2. pos \div COLS < ROWS - 1 <=> pos < (ROWS - 1) * COLS  BY <1>1, Screen
<1>3. pos \in Cells <=> pos < (ROWS - 1) * COLS  BY <1>1, Screen DEF Cells
<1> QED BY <1>2, <1>3 DEF CursorOnScreen
-----------------------------------------------------------------------------
(***************************************************************************)
(* The indices of the ring buffer.                                         *)
(***************************************************************************)
Index == 0 .. UintMod - 1

LEMMA Consts ==
  /\ INPUT_BUF \in Nat /\ INPUT_BUF > 0 /\ UintMod \in Nat /\ UintMod > INPUT_BUF
  /\ MaxRead \in Nat /\ MaxRead > 0
  /\ None \notin Procs /\ None # "make" /\ None # "break"
BY ConsoleAssumption

\* k characters of the uncommitted line are taken back.
LEMMA RubbedOut ==
  ASSUME NEW r1 \in Index, NEW w1 \in Index, NEW e1 \in Index,
         Minus(w1, r1) + Minus(e1, w1) = Minus(e1, r1), Minus(e1, r1) <= INPUT_BUF,
         NEW k \in 0 .. Minus(e1, w1)
  PROVE  /\ Minus(e1, k) \in Index
         /\ Minus(Minus(e1, k), w1) = Minus(e1, w1) - k
         /\ Minus(Minus(e1, k), r1) = Minus(e1, r1) - k
<1>1. UintMod \in Nat /\ INPUT_BUF \in Nat /\ INPUT_BUF < UintMod  BY Consts
<1>2. Minus(e1, w1) = IF w1 <= e1 THEN e1 - w1 ELSE e1 - w1 + UintMod  BY MinusIs DEF Index
<1>3. Minus(w1, r1) = IF r1 <= w1 THEN w1 - r1 ELSE w1 - r1 + UintMod  BY MinusIs DEF Index
<1>4. Minus(e1, r1) = IF r1 <= e1 THEN e1 - r1 ELSE e1 - r1 + UintMod  BY MinusIs DEF Index
<1>5. k \in 0 .. UintMod - 1  BY <1>1, <1>2 DEF Index
<1>6. Minus(e1, k) = IF k <= e1 THEN e1 - k ELSE e1 - k + UintMod  BY <1>5, MinusIs DEF Index
<1>7. PICK f \in Index : f = Minus(e1, k)
  <2>1. CASE k <= e1  BY <1>1, <1>5, <1>6, <2>1 DEF Index
  <2>2. CASE ~(k <= e1)  BY <1>1, <1>5, <1>6, <2>2 DEF Index
  <2> QED BY <2>1, <2>2
<1>8. Minus(f, w1) = IF w1 <= f THEN f - w1 ELSE f - w1 + UintMod  BY MinusIs DEF Index
<1>9. Minus(f, r1) = IF r1 <= f THEN f - r1 ELSE f - r1 + UintMod  BY MinusIs DEF Index
<1>10. k \in Int /\ 0 <= k /\ k <= Minus(e1, w1)  BY <1>1, <1>2 DEF Index
<1>11. Minus(f, w1) = Minus(e1, w1) - k  BY <1>1, <1>2, <1>6, <1>7, <1>8, <1>10 DEF Index
<1>12. Minus(f, r1) = Minus(e1, r1) - k
  BY <1>1, <1>2, <1>3, <1>4, <1>6, <1>7, <1>9, <1>10 DEF Index
<1> QED BY <1>7, <1>11, <1>12

\* A character goes in where there is room.
LEMMA PutIn ==
  ASSUME NEW r1 \in Index, NEW w1 \in Index, NEW e1 \in Index,
         Minus(w1, r1) + Minus(e1, w1) = Minus(e1, r1), Minus(e1, r1) < INPUT_BUF
  PROVE  /\ Plus(e1, 1) \in Index
         /\ Minus(Plus(e1, 1), w1) = Minus(e1, w1) + 1
         /\ Minus(Plus(e1, 1), r1) = Minus(e1, r1) + 1
         /\ Plus(e1, 1) = Plus(r1, INPUT_BUF) <=> Minus(e1, r1) = INPUT_BUF - 1
<1>1. UintMod \in Nat /\ INPUT_BUF \in Nat /\ INPUT_BUF < UintMod /\ 1 <= INPUT_BUF  BY Consts
<1>2. Minus(e1, w1) = IF w1 <= e1 THEN e1 - w1 ELSE e1 - w1 + UintMod  BY MinusIs DEF Index
<1>3. Minus(w1, r1) = IF r1 <= w1 THEN w1 - r1 ELSE w1 - r1 + UintMod  BY MinusIs DEF Index
<1>4. Minus(e1, r1) = IF r1 <= e1 THEN e1 - r1 ELSE e1 - r1 + UintMod  BY MinusIs DEF Index
<1>5. Plus(e1, 1) = IF e1 + 1 < UintMod THEN e1 + 1 ELSE e1 + 1 - UintMod
  <2>1. 1 \in 0 .. UintMod - 1  BY <1>1
  <2> QED BY <2>1, PlusIs DEF Index
<1>6. Plus(r1, INPUT_BUF) = IF r1 + INPUT_BUF < UintMod THEN r1 + INPUT_BUF ELSE r1 + INPUT_BUF - UintMod
  <2>1. INPUT_BUF \in 0 .. UintMod - 1  BY <1>1
  <2> QED BY <2>1, PlusIs DEF Index
<1>7. PICK f \in Index : f = Plus(e1, 1)  BY <1>1, <1>5 DEF Index
<1>8. Minus(f, w1) = IF w1 <= f THEN f - w1 ELSE f - w1 + UintMod  BY MinusIs DEF Index
<1>9. Minus(f, r1) = IF r1 <= f THEN f - r1 ELSE f - r1 + UintMod  BY MinusIs DEF Index
<1>11. Minus(f, w1) = Minus(e1, w1) + 1  BY <1>1, <1>2, <1>3, <1>4, <1>5, <1>7, <1>8 DEF Index
<1>12. Minus(f, r1) = Minus(e1, r1) + 1  BY <1>1, <1>4, <1>5, <1>7, <1>9 DEF Index
<1>13. f = Plus(r1, INPUT_BUF) <=> Minus(e1, r1) = INPUT_BUF - 1  BY <1>1, <1>4, <1>5, <1>6, <1>7 DEF Index
<1> QED BY <1>7, <1>11, <1>12, <1>13

\* A character is read.
LEMMA TakenOut ==
  ASSUME NEW r1 \in Index, NEW w1 \in Index, NEW e1 \in Index, r1 # w1,
         Minus(w1, r1) + Minus(e1, w1) = Minus(e1, r1), Minus(e1, r1) <= INPUT_BUF
  PROVE  /\ Plus(r1, 1) \in Index /\ Plus(r1, 1) # r1
         /\ Minus(w1, Plus(r1, 1)) = Minus(w1, r1) - 1
         /\ Minus(e1, Plus(r1, 1)) = Minus(e1, r1) - 1
<1>1. UintMod \in Nat /\ INPUT_BUF \in Nat /\ INPUT_BUF < UintMod /\ 1 <= INPUT_BUF  BY Consts
<1>2. Minus(e1, w1) = IF w1 <= e1 THEN e1 - w1 ELSE e1 - w1 + UintMod  BY MinusIs DEF Index
<1>3. Minus(w1, r1) = IF r1 <= w1 THEN w1 - r1 ELSE w1 - r1 + UintMod  BY MinusIs DEF Index
<1>4. Minus(e1, r1) = IF r1 <= e1 THEN e1 - r1 ELSE e1 - r1 + UintMod  BY MinusIs DEF Index
<1>5. Plus(r1, 1) = IF r1 + 1 < UintMod THEN r1 + 1 ELSE r1 + 1 - UintMod
  <2>1. 1 \in 0 .. UintMod - 1  BY <1>1
  <2> QED BY <2>1, PlusIs DEF Index
<1>7. PICK f \in Index : f = Plus(r1, 1)  BY <1>1, <1>5 DEF Index
<1>8. Minus(w1, f) = IF f <= w1 THEN w1 - f ELSE w1 - f + UintMod  BY MinusIs DEF Index
<1>9. Minus(e1, f) = IF f <= e1 THEN e1 - f ELSE e1 - f + UintMod  BY MinusIs DEF Index
<1>10. f # r1  BY <1>1, <1>5, <1>7 DEF Index
<1>11. Minus(w1, f) = Minus(w1, r1) - 1  BY <1>1, <1>3, <1>5, <1>7, <1>8 DEF Index
<1>12. Minus(e1, f) = Minus(e1, r1) - 1  BY <1>1, <1>2, <1>3, <1>4, <1>5, <1>7, <1>9 DEF Index
<1> QED BY <1>7, <1>10, <1>11, <1>12

LEMMA Difference ==
  ASSUME NEW i \in Index, NEW j \in Index
  PROVE  Minus(i, j) \in Index /\ Minus(i, j) \in Nat /\ (Minus(i, j) = 0 <=> i = j)
<1>1. UintMod \in Nat /\ 0 < UintMod  BY Consts
<1>2. Minus(i, j) = IF j <= i THEN i - j ELSE i - j + UintMod  BY MinusIs DEF Index
<1> QED BY <1>1, <1>2 DEF Index
-----------------------------------------------------------------------------
(***************************************************************************)
(* The invariant in three parts: keyboard, screen, readers.                *)
(***************************************************************************)
ModKeys == {"lshift", "rshift", "lctl", "rctl"}

Keyboard ==
  /\ shift \subseteq {"SHIFT", "CTL", "CAPS", "E0"} /\ off \subseteq {"SHIFT", "CTL"}
  /\ held \subseteq ModKeys
  /\ second \in {None, "make", "break"}
  /\ Modifiers

OnCells == panicked = FALSE /\ pos \in Cells

Labels == {"user", "wait", "read", "doze", "asleep", "write"}

ReadTypes ==
  /\ buf \in [0 .. INPUT_BUF - 1 -> Stored \union {None}]
  /\ r \in Index /\ w \in Index /\ e \in Index
  /\ conslock \in Procs \union {None} /\ pc \in [Procs -> Labels]
  /\ n \in [Procs -> 0 .. MaxRead] /\ got \in [Procs -> 0 .. MaxRead] /\ killed \in [Procs -> BOOLEAN]

Readers == ReadTypes /\ Locked /\ Asking /\ NoReaderForgotten /\ Ring

LEMMA Parts == ConsInv <=> Keyboard /\ OnCells /\ Readers
<1>0. Cells \subseteq 0 .. COLS * ROWS - 1  BY Screen DEF Cells
<1>1. ASSUME ConsInv PROVE Keyboard /\ OnCells /\ Readers
  <2>1. OnCells  BY <1>1, OnScreen DEF ConsInv, TypeOK, OnCells
  <2>2. Keyboard  BY <1>1 DEF ConsInv, TypeOK, Keyboard, ModKeys
  <2>3. Readers  BY <1>1 DEF ConsInv, TypeOK, Readers, ReadTypes, Labels, Index
  <2> QED BY <2>1, <2>2, <2>3
<1>2. ASSUME Keyboard, OnCells, Readers PROVE ConsInv
  <2>1. pos \in 0 .. COLS * ROWS - 1 /\ panicked \in BOOLEAN  BY <1>0, <1>2 DEF OnCells
  <2>2. CursorOnScreen  BY <1>2, <2>1, OnScreen DEF OnCells
  <2>3. TypeOK  BY <1>2, <2>1 DEF TypeOK, Keyboard, ModKeys, Readers, ReadTypes, Labels, Index
  <2> QED BY <1>2, <2>2, <2>3 DEF ConsInv, Keyboard, Readers
<1> QED BY <1>1, <1>2

LEMMA InitInv == ASSUME Init PROVE ConsInv
<1>1. 0 \in Index /\ 0 \in 0 .. MaxRead  BY Consts DEF Index
<1>2. 0 \in Cells
  <2>1. PICK m \in Nat \ {0}, h \in Nat \ {0} : m = COLS /\ h = ROWS - 1  BY ConsoleAssumption
  <2>2. h \in Int /\ h >= 1  OBVIOUS
  <2>3. m * h >= m /\ m * h \in Int  BY <2>2, Multiples
  <2>4. m * h = (ROWS - 1) * COLS  BY <2>1
  <2> QED BY <2>3, <2>4 DEF Cells
<1>3. Keyboard  BY DEF Init, Keyboard, Modifiers
<1>4. OnCells  BY <1>2 DEF Init, OnCells
<1>5. ReadTypes  BY <1>1 DEF Init, ReadTypes, Labels
<1>6. Locked  BY Consts DEF Init, Locked
<1>7. Asking  BY Consts DEF Init, Asking
<1>8. NoReaderForgotten  BY DEF Init, NoReaderForgotten
<1>9. Ring
  <2>1. Minus(0, 0) = 0  BY <1>1, Difference
  <2> QED BY <2>1, Consts DEF Init, Ring
<1> QED BY <1>3, <1>4, <1>5, <1>6, <1>7, <1>8, <1>9, Parts DEF Readers
-----------------------------------------------------------------------------
(***************************************************************************)
(* consoleintr.                                                            *)
(***************************************************************************)
Aside == UNCHANGED <<r, conslock, n, got, killed>>

LEMMA IgnoredKeeps == ASSUME Readers, OnCells, Ignored, Aside PROVE Readers' /\ OnCells'
BY DEF Readers, OnCells, Ignored, Aside, ReadTypes, Locked, Asking, NoReaderForgotten, Ring, Minus

LEMMA RubKeeps ==
  ASSUME Readers, OnCells, NEW k \in 0 .. Minus(e, w), Rub(k), Aside
  PROVE  Readers' /\ OnCells'
<1>0. r \in Index /\ w \in Index /\ e \in Index  BY DEF Readers, ReadTypes
<1>1. /\ Minus(e, k) \in Index /\ Minus(Minus(e, k), w) = Minus(e, w) - k
      /\ Minus(Minus(e, k), r) = Minus(e, r) - k
  BY <1>0, RubbedOut DEF Readers, Ring
<1>2. /\ Minus(e, w) \in Nat /\ Minus(w, r) \in Nat /\ Minus(e, r) \in Nat /\ INPUT_BUF \in Nat
  BY <1>0, Difference, Consts
<1>3. k \in Nat  BY <1>2
<1>u. e' = Minus(e, k) /\ UNCHANGED <<buf, r, w, pc, conslock, n, got, killed>> /\ consputc("BS", k)
  BY DEF Rub, Aside
<1>4. OnCells'  BY <1>3, <1>u, CursorStays DEF OnCells, Cells
<1>5. Ring'
  <2>1. Minus(e', w') = Minus(e, w) - k /\ Minus(e', r') = Minus(e, r) - k /\ Minus(w', r') = Minus(w, r)
    BY <1>1, <1>u
  <2> QED BY <1>2, <1>3, <2>1 DEF Readers, Ring, Minus
<1>6. ReadTypes'  BY <1>1, <1>u DEF Readers, ReadTypes, Index
<1>7. Locked' /\ Asking' /\ NoReaderForgotten'
  BY <1>u DEF Readers, Locked, Asking, NoReaderForgotten
<1> QED BY <1>4, <1>5, <1>6, <1>7 DEF Readers

\* No process dozes or sleeps after the wakeup: a dozing one has the lock.
LEMMA StoreKeeps ==
  ASSUME Readers, OnCells, NEW c \in Stored, Store(c), Aside, conslock = None
  PROVE  Readers' /\ OnCells'
<1>a. CASE ~Room  BY <1>a, IgnoredKeeps DEF Store
<1>b. CASE Room
  <2>0. r \in Index /\ w \in Index /\ e \in Index  BY DEF Readers, ReadTypes
  <2>1. /\ Plus(e, 1) \in Index /\ Minus(Plus(e, 1), w) = Minus(e, w) + 1
        /\ Minus(Plus(e, 1), r) = Minus(e, r) + 1
    BY <1>b, <2>0, PutIn DEF Readers, Ring, Room
  <2>2. /\ Minus(e, w) \in Nat /\ Minus(w, r) \in Nat /\ Minus(e, r) \in Nat /\ INPUT_BUF \in Nat
        /\ INPUT_BUF > 0
    BY <2>0, Difference, Consts
  <2>u. /\ e' = Plus(e, 1) /\ UNCHANGED <<r, conslock, n, got, killed>> /\ consputc(c, 1)
        /\ buf' = [buf EXCEPT ![e % INPUT_BUF] = c]
        /\ (w' = e' /\ pc' = Woken) \/ UNCHANGED <<w, pc>>
    BY <1>b DEF Store, Aside
  <2>3. OnCells'
    <3>1. 1 \in Nat  OBVIOUS
    <3>2. panicked' = FALSE /\ pos' \in Cells  BY <2>u, <3>1, CursorStays DEF OnCells
    <3> QED BY <3>2 DEF OnCells, Cells
  <2>4. ReadTypes'
    <3>1. w' \in Index /\ e' \in Index /\ r' \in Index  BY <2>0, <2>1, <2>u
    <3>2. buf' \in [0 .. INPUT_BUF - 1 -> Stored \union {None}]  BY <2>u DEF Readers, ReadTypes
    <3>3. pc' \in [Procs -> Labels]  BY <2>u DEF Readers, ReadTypes, Woken, Labels
    <3> QED BY <2>u, <3>1, <3>2, <3>3 DEF Readers, ReadTypes, Index
  <2>5. \A p \in Procs : pc'[p] = pc[p] \/ (pc[p] = "asleep" /\ pc'[p] = "wait")
    BY <2>u DEF Woken
  <2>6. Locked'  BY <2>u, <2>5 DEF Readers, Locked
  <2>7. Asking'  BY <2>u, <2>5 DEF Readers, Asking
  <2>8. NoReaderForgotten'
    <3>1. CASE w' = e' /\ pc' = Woken
      <4>1. \A p \in Procs : pc'[p] # "asleep"  BY <3>1 DEF Woken
      <4>2. \A p \in Procs : pc[p] # "doze"  BY Consts DEF Readers, Locked
      <4>3. \A p \in Procs : pc'[p] # "doze"  BY <2>5, <4>2
      <4> QED BY <4>1, <4>3 DEF NoReaderForgotten
    <3>2. CASE UNCHANGED <<w, pc>>  BY <2>u, <3>2 DEF Readers, NoReaderForgotten
    <3> QED BY <2>u, <3>1, <3>2
  <2>9. Ring'
    <3>0. /\ Minus(e', w) = Minus(e, w) + 1 /\ Minus(e', r) = Minus(e, r) + 1 /\ r' = r
          /\ Minus(e, r) < INPUT_BUF /\ Minus(w, r) + Minus(e, w) = Minus(e, r)
      BY <1>b, <2>1, <2>u DEF Room, Readers, Ring
    <3>1. CASE w' = e'
      <4>1. Minus(e', w') = 0  BY <2>1, <2>u, <3>1, Difference
      <4>2. Minus(w', r') = Minus(e, r) + 1 /\ Minus(e', r') = Minus(e, r) + 1  BY <3>0, <3>1
      <4> QED BY <2>2, <3>0, <4>1, <4>2 DEF Ring, Minus
    <3>2. CASE w' = w
      <4>1. Minus(e', w') = Minus(e, w) + 1 /\ Minus(e', r') = Minus(e, r) + 1 /\ Minus(w', r') = Minus(w, r)
        BY <3>0, <3>2
      <4> QED BY <2>2, <3>0, <4>1 DEF Ring, Minus
    <3> QED BY <2>u, <3>1, <3>2
  <2> QED BY <2>3, <2>4, <2>6, <2>7, <2>8, <2>9 DEF Readers
<1> QED BY <1>a, <1>b
\* The characters kill-line takes back are in the uncommitted line.
LEMMA KillBound ==
  ASSUME ReadTypes
  PROVE  Cardinality({k \in 1 .. Minus(e, w) : \A j \in 1 .. k : At(Minus(e, j)) # "nl"}) \in 0 .. Minus(e, w)
<1> DEFINE S == {k \in 1 .. Minus(e, w) : \A j \in 1 .. k : At(Minus(e, j)) # "nl"}
<1>1. Minus(e, w) \in Nat  BY Difference DEF ReadTypes
<1>2. PICK d \in Nat : d = Minus(e, w)  BY <1>1
<1>3. IsFiniteSet(1 .. d) /\ Cardinality(1 .. d) = d
  <2>1. 1 \in Int /\ d \in Int  OBVIOUS
  <2>2. IsFiniteSet(1 .. d) /\ Cardinality(1 .. d) = IF 1 > d THEN 0 ELSE d - 1 + 1  BY <2>1, FS_Interval
  <2> QED BY <2>2
<1>4. S \subseteq 1 .. d  BY <1>2
<1> HIDE DEF S
<1>5. IsFiniteSet(S) /\ Cardinality(S) <= Cardinality(1 .. d)  BY <1>3, <1>4, FS_Subset
<1>6. Cardinality(S) \in Nat  BY <1>5, FS_CardinalityType
<1>7. Cardinality(S) \in 0 .. Minus(e, w)  BY <1>2, <1>3, <1>5, <1>6
<1> QED BY <1>7 DEF S

Typed == {"x", "X", "nl", "cr", "BS", "KILL", "EOF", "none"}

LEMMA IntrKeeps ==
  ASSUME Readers, OnCells, NEW c \in Typed, consoleintr(c)
  PROVE  Readers' /\ OnCells'
<1>u. Aside /\ conslock = None  BY DEF consoleintr, Aside
<1>1. CASE c = "BS"
  <2>1. Backspace  BY <1>1 DEF consoleintr
  <2>2. CASE e # w
    <3>1. Rub(1)  BY <2>1, <2>2 DEF Backspace
    <3>2. Minus(e, w) \in Nat /\ Minus(e, w) # 0  BY <2>2, Difference DEF Readers, ReadTypes
    <3>3. 1 \in 0 .. Minus(e, w)  BY <3>2
    <3> QED BY <1>u, <3>1, <3>3, RubKeeps
  <2>3. CASE e = w  BY <1>u, <2>1, <2>3, IgnoredKeeps DEF Backspace
  <2> QED BY <2>2, <2>3
<1>2. CASE c = "KILL"
  <2>1. KillLine  BY <1>2 DEF consoleintr
  <2>2. PICK k \in 0 .. Minus(e, w) : Rub(k)  BY <2>1, KillBound DEF KillLine, Readers
  <2> QED BY <1>u, <2>2, RubKeeps
<1>3. CASE c = "none"
  <2>1. Ignored  BY <1>3 DEF consoleintr
  <2> QED BY <1>u, <2>1, IgnoredKeeps
<1>4. CASE c \notin {"BS", "KILL", "none"}
  <2>1. PICK d \in Stored : Store(d)  BY <1>4 DEF consoleintr, Typed, Stored
  <2> QED BY <1>u, <2>1, StoreKeeps
<1> QED BY <1>1, <1>2, <1>3, <1>4

LEMMA PressKeeps ==
  ASSUME Keyboard, NEW k \in ModKeys, Press(k), second' = None PROVE Keyboard'
<1>u. /\ held' = held \union {k} /\ shift' = (shift \ {"E0"}) \union {Bit(k)}
      /\ off' = off \ {Bit(k)} /\ Bit(k) \in {"SHIFT", "CTL"}
  BY DEF Press, Bit
<1>1. ASSUME NEW m \in {"SHIFT", "CTL"}
      PROVE  m \in shift' <=> m \notin off' /\ \E j \in held' : Bit(j) = m
  <2>1. CASE m = Bit(k)  BY <1>u, <2>1
  <2>2. CASE m # Bit(k)
    <3>1. m \in shift' <=> m \in shift  BY <1>u, <2>2
    <3>2. (\E j \in held' : Bit(j) = m) <=> \E j \in held : Bit(j) = m  BY <1>u, <2>2
    <3>3. m \in off' <=> m \in off  BY <1>u, <2>2
    <3> QED BY <3>1, <3>2, <3>3 DEF Keyboard, Modifiers
  <2> QED BY <2>1, <2>2
<1>2. "E0" \notin shift'  BY <1>u
<1>3. \A m \in {"SHIFT", "CTL"} : m \in shift' <=> m \notin off' /\ \E j \in held' : Bit(j)' = m
  BY <1>1 DEF Bit
<1>4. Modifiers'  BY <1>2, <1>3 DEF Modifiers
<1> QED BY <1>u, <1>4 DEF Keyboard, ModKeys

\* The bit of a pair goes with the first key that is let go.
LEMMA ReleaseKeeps ==
  ASSUME Keyboard, NEW k \in ModKeys, Release(k), second' = None PROVE Keyboard'
<1>u. /\ held' = held \ {k} /\ shift' = shift \ {Bit(k), "E0"} /\ Bit(k) \in {"SHIFT", "CTL"}
      /\ off' = IF Pair(k) = {} THEN off \ {Bit(k)} ELSE off \union {Bit(k)}
  BY DEF Release, Bit
<1>1. ASSUME NEW m \in {"SHIFT", "CTL"}
      PROVE  m \in shift' <=> m \notin off' /\ \E j \in held' : Bit(j) = m
  <2>1. CASE m = Bit(k)  BY <1>u, <2>1 DEF Pair
  <2>2. CASE m # Bit(k)
    <3>1. m \in shift' <=> m \in shift  BY <1>u, <2>2
    <3>2. (\E j \in held' : Bit(j) = m) <=> \E j \in held : Bit(j) = m  BY <1>u, <2>2
    <3>3. m \in off' <=> m \in off  BY <1>u, <2>2
    <3> QED BY <3>1, <3>2, <3>3 DEF Keyboard, Modifiers
  <2> QED BY <2>1, <2>2
<1>2. "E0" \notin shift'  BY <1>u
<1>3. \A m \in {"SHIFT", "CTL"} : m \in shift' <=> m \notin off' /\ \E j \in held' : Bit(j)' = m
  BY <1>1 DEF Bit
<1>4. Modifiers'  BY <1>2, <1>3 DEF Modifiers
<1> QED BY <1>u, <1>4 DEF Keyboard, ModKeys

LEMMA InterruptKeeps == ASSUME ConsInv, Interrupt PROVE ConsInv'
<1>0. Keyboard /\ OnCells /\ Readers  BY Parts
<1> SUFFICES Keyboard' /\ OnCells' /\ Readers'
  <2>1. (Keyboard /\ OnCells /\ Readers => ConsInv)'  BY Parts, PTL
  <2> QED BY <2>1
<1>1. ASSUME NEW c \in {"x", "nl", "cr", "BS", "KILL", "EOF"}, uartintr(c) PROVE Keyboard' /\ OnCells' /\ Readers'
  <2>1. c \in Typed /\ consoleintr(c)  BY <1>1 DEF uartintr, Typed
  <2>2. OnCells' /\ Readers'  BY <1>0, <2>1, IntrKeeps
  <2>3. Keyboard'  BY <1>0, <1>1 DEF uartintr, kbd, Keyboard, Modifiers, Bit
  <2> QED BY <2>2, <2>3
<1>2. ASSUME NEW k \in Letter \union {"enter", "caps"}, KeyTypes(k) PROVE Keyboard' /\ OnCells' /\ Readers'
  <2>1. PICK c \in Typed : consoleintr(c)  BY <1>2 DEF KeyTypes, Typed, Mapped, Letter
  <2>2. OnCells' /\ Readers'  BY <1>0, <2>1, IntrKeeps
  <2>3. Keyboard'
    <3>1. CASE k = "caps"
      <4>1. shift' = (shift \ {"CAPS"}) \union ({"CAPS"} \ shift) /\ UNCHANGED <<held, second, off>>
        BY <1>2, <3>1 DEF KeyTypes
      <4>2. \A x \in {"SHIFT", "CTL", "E0"} : x \in shift' <=> x \in shift  BY <4>1
      <4>3. shift' \subseteq {"SHIFT", "CTL", "CAPS", "E0"}  BY <1>0, <4>1 DEF Keyboard
      <4> QED BY <1>0, <4>1, <4>2, <4>3 DEF Keyboard, Modifiers, Bit
    <3>2. CASE k # "caps"  BY <1>0, <1>2, <3>2 DEF KeyTypes, Keyboard, Modifiers, Bit
    <3> QED BY <3>1, <3>2
  <2> QED BY <2>2, <2>3
<1>3. ASSUME NEW k \in {"lshift", "rshift", "lctl"}, KeyShift(k) PROVE Keyboard' /\ OnCells' /\ Readers'
  <2>1. OnCells' /\ Readers'  BY <1>0, <1>3, IntrKeeps DEF KeyShift, Typed
  <2>2. k \in ModKeys /\ second' = None /\ (Press(k) \/ Release(k))  BY <1>3 DEF KeyShift, ModKeys
  <2>3. Keyboard'  BY <1>0, <2>2, PressKeeps, ReleaseKeeps
  <2> QED BY <2>1, <2>3
<1>4. ASSUME KeyEscape PROVE Keyboard' /\ OnCells' /\ Readers'
  <2>1. OnCells' /\ Readers'  BY <1>0, <1>4, IntrKeeps DEF KeyEscape, Typed
  <2>2. second' \in {"make", "break"} /\ second' # None /\ shift' = shift \union {"E0"} /\ UNCHANGED <<held, off>>
    BY <1>4, Consts DEF KeyEscape
  <2>3. Keyboard'  BY <1>0, <2>2 DEF Keyboard, Modifiers, Bit
  <2> QED BY <2>1, <2>3
<1>5. ASSUME KeyControl PROVE Keyboard' /\ OnCells' /\ Readers'
  <2>1. OnCells' /\ Readers'  BY <1>0, <1>5, IntrKeeps DEF KeyControl, Typed
  <2>2. "rctl" \in ModKeys /\ second' = None /\ (Press("rctl") \/ Release("rctl"))
    BY <1>5 DEF KeyControl, ModKeys
  <2>3. Keyboard'  BY <1>0, <2>2, PressKeeps, ReleaseKeeps
  <2> QED BY <2>1, <2>3
<1> QED BY <1>1, <1>2, <1>3, <1>4, <1>5 DEF Interrupt
-----------------------------------------------------------------------------
(***************************************************************************)
(* The steps of processes.                                                 *)
(***************************************************************************)
LEMMA KeyboardKept == ASSUME Keyboard, UNCHANGED kbd PROVE Keyboard'
BY DEF Keyboard, Modifiers, Bit, kbd

LEMMA CellsKept == ASSUME OnCells, UNCHANGED <<pos, panicked>> PROVE OnCells'
BY DEF OnCells, Cells

LEMMA RingKept == ASSUME Ring, UNCHANGED <<r, w, e>> PROVE Ring'
BY DEF Ring, Minus

LEMMA CallKeeps ==
  ASSUME Readers, NEW p \in Procs, NEW k \in 0 .. MaxRead, Call(p, k) PROVE Readers'
<1>u. /\ pc[p] = "user" /\ pc' = [pc EXCEPT ![p] = "wait"]
      /\ n' = [n EXCEPT ![p] = k]
      /\ UNCHANGED <<buf, r, w, e, conslock, got, killed>>
  BY DEF Call, Goto, input
<1>0. MaxRead \in Nat /\ k + 0 <= MaxRead  BY Consts
<1>1. ReadTypes'  BY <1>u, <1>0 DEF Readers, ReadTypes, Labels, Index
<1>2. Locked'  BY <1>u DEF Readers, ReadTypes, Locked
<1>3. Asking'  BY <1>u, <1>0 DEF Readers, ReadTypes, Asking
<1>4. NoReaderForgotten'  BY <1>u DEF Readers, ReadTypes, NoReaderForgotten
<1>5. Ring'  BY <1>u, RingKept DEF Readers
<1> QED BY <1>1, <1>2, <1>3, <1>4, <1>5 DEF Readers

LEMMA LockKeeps == ASSUME Readers, NEW p \in Procs, Lock(p) PROVE Readers'
<1>u. /\ pc[p] = "wait" /\ pc' = [pc EXCEPT ![p] = "read"] /\ conslock = None /\ conslock' = p
      /\ UNCHANGED <<buf, r, w, e, n, got, killed>>
  BY DEF Lock, Goto, input
<1>1. ReadTypes'  BY <1>u DEF Readers, ReadTypes, Labels, Index
<1>2. Locked'  BY <1>u, Consts DEF Readers, ReadTypes, Locked
<1>3. Asking'  BY <1>u DEF Readers, ReadTypes, Asking
<1>4. NoReaderForgotten'  BY <1>u DEF Readers, ReadTypes, NoReaderForgotten
<1>5. Ring'  BY <1>u, RingKept DEF Readers
<1> QED BY <1>1, <1>2, <1>3, <1>4, <1>5 DEF Readers

LEMMA SleepKeeps == ASSUME Readers, NEW p \in Procs, Sleep(p) PROVE Readers'
<1>u. /\ pc[p] = "doze" /\ pc' = [pc EXCEPT ![p] = "asleep"] /\ conslock' = None
      /\ UNCHANGED <<buf, r, w, e, n, got, killed>>
  BY DEF Sleep, Goto, input
<1>1. ReadTypes'  BY <1>u DEF Readers, ReadTypes, Labels, Index
<1>2. Locked'
  <2>1. conslock = p  BY <1>u DEF Readers, Locked
  <2> QED BY <1>u, <2>1, Consts DEF Readers, ReadTypes, Locked
<1>3. Asking'  BY <1>u DEF Readers, ReadTypes, Asking
<1>4. NoReaderForgotten'  BY <1>u DEF Readers, ReadTypes, NoReaderForgotten
<1>5. Ring'  BY <1>u, RingKept DEF Readers
<1> QED BY <1>1, <1>2, <1>3, <1>4, <1>5 DEF Readers

LEMMA KillKeeps == ASSUME Readers, NEW p \in Procs, Kill(p) PROVE Readers'
<1>u. /\ pc[p] # "user" /\ pc' = [pc EXCEPT ![p] = IF pc[p] = "asleep" THEN "wait" ELSE pc[p]]
      /\ killed' = [killed EXCEPT ![p] = TRUE]
      /\ UNCHANGED <<buf, r, w, e, conslock, n, got>>
  BY DEF Kill, Goto, input
<1>0. \A q \in Procs : pc'[q] = pc[q] \/ (pc[q] = "asleep" /\ pc'[q] = "wait")
  BY <1>u DEF Readers, ReadTypes
<1>1. ReadTypes'  BY <1>u DEF Readers, ReadTypes, Labels, Index
<1>2. Locked'  BY <1>u, <1>0 DEF Readers, Locked
<1>3. Asking'  BY <1>u, <1>0 DEF Readers, Asking
<1>4. NoReaderForgotten'  BY <1>u, <1>0 DEF Readers, NoReaderForgotten
<1>5. Ring'  BY <1>u, RingKept DEF Readers
<1> QED BY <1>1, <1>2, <1>3, <1>4, <1>5 DEF Readers

\* The call returns: the indices are left to the caller.
LEMMA DoneKeeps ==
  ASSUME Readers, NEW p \in Procs, pc[p] \in {"read", "write"}, Done(p)
  PROVE  /\ Locked'
         /\ conslock' \in Procs \union {None} /\ pc' \in [Procs -> Labels]
         /\ n' \in [Procs -> 0 .. MaxRead] /\ killed' \in [Procs -> BOOLEAN]
         /\ got' \in [Procs -> 0 .. MaxRead] /\ Asking'
         /\ \A q \in Procs : pc'[q] # "user" => q # p /\ pc'[q] = pc[q]
<1>u. /\ pc' = [pc EXCEPT ![p] = "user"] /\ conslock' = None
      /\ n' = [n EXCEPT ![p] = 0] /\ got' = [got EXCEPT ![p] = 0] /\ killed' = [killed EXCEPT ![p] = FALSE]
  BY DEF Done, Goto
<1>1. conslock = p  BY DEF Readers, Locked
<1>2. Locked'  BY <1>u, <1>1, Consts DEF Readers, ReadTypes, Locked
<1>3. n' \in [Procs -> 0 .. MaxRead] /\ got' \in [Procs -> 0 .. MaxRead]
  <2>1. 0 \in 0 .. MaxRead  BY Consts
  <2> QED BY <1>u, <2>1 DEF Readers, ReadTypes
<1>4. conslock' \in Procs \union {None} /\ pc' \in [Procs -> Labels] /\ killed' \in [Procs -> BOOLEAN]
  BY <1>u DEF Readers, ReadTypes, Labels
<1>5. \A q \in Procs : pc'[q] # "user" => q # p /\ pc'[q] = pc[q]
  BY <1>u DEF Readers, ReadTypes
<1>6. Asking'
  <2>1. MaxRead \in Nat /\ n'[p] = 0 /\ got'[p] = 0  BY <1>u, Consts DEF Readers, ReadTypes
  <2>2. \A q \in Procs : q # p => n'[q] = n[q] /\ got'[q] = got[q] /\ pc'[q] = pc[q]
    BY <1>u DEF Readers, ReadTypes
  <2> QED BY <2>1, <2>2 DEF Readers, Asking
<1> QED BY <1>2, <1>3, <1>4, <1>5, <1>6

LEMMA ReadNoneKeeps == ASSUME Readers, NEW p \in Procs, ReadNone(p) PROVE Readers'
<1>u. pc[p] = "read" /\ Done(p) /\ UNCHANGED <<buf, r, w, e>>  BY DEF ReadNone, input
<1>2. /\ Locked' /\ Asking'
      /\ conslock' \in Procs \union {None} /\ pc' \in [Procs -> Labels]
      /\ n' \in [Procs -> 0 .. MaxRead] /\ got' \in [Procs -> 0 .. MaxRead] /\ killed' \in [Procs -> BOOLEAN]
      /\ \A q \in Procs : pc'[q] # "user" => q # p /\ pc'[q] = pc[q]
  BY <1>u, DoneKeeps
<1>3. ReadTypes'  BY <1>u, <1>2 DEF Readers, ReadTypes, Index, Labels
<1>4. NoReaderForgotten'  BY <1>u, <1>2 DEF Readers, NoReaderForgotten
<1>5. Ring'  BY <1>u, RingKept DEF Readers
<1> QED BY <1>2, <1>3, <1>4, <1>5 DEF Readers

LEMMA ReadEmptyKeeps == ASSUME Readers, NEW p \in Procs, ReadEmpty(p) PROVE Readers'
<1>u. pc[p] = "read" /\ r = w /\ UNCHANGED <<buf, r, w, e>>  BY DEF ReadEmpty, input
<1>5. Ring'  BY <1>u, RingKept DEF Readers
<1>a. CASE killed[p]
  <2>1. Done(p)  BY <1>a DEF ReadEmpty
  <2>2. /\ Locked' /\ Asking'
        /\ conslock' \in Procs \union {None} /\ pc' \in [Procs -> Labels]
        /\ n' \in [Procs -> 0 .. MaxRead] /\ got' \in [Procs -> 0 .. MaxRead] /\ killed' \in [Procs -> BOOLEAN]
        /\ \A q \in Procs : pc'[q] # "user" => q # p /\ pc'[q] = pc[q]
    BY <1>u, <2>1, DoneKeeps
  <2>3. ReadTypes'  BY <1>u, <2>2 DEF Readers, ReadTypes, Index, Labels
  <2>5. NoReaderForgotten'  BY <1>u, <2>2 DEF Readers, NoReaderForgotten
  <2> QED BY <1>5, <2>2, <2>3, <2>5 DEF Readers
<1>b. CASE ~killed[p]
  <2>1. pc' = [pc EXCEPT ![p] = "doze"] /\ UNCHANGED <<conslock, n, got, killed>>  BY <1>b DEF ReadEmpty, Goto
  <2>2. ReadTypes'  BY <1>u, <2>1 DEF Readers, ReadTypes, Index, Labels
  <2>3. Locked'  BY <1>u, <2>1 DEF Readers, ReadTypes, Locked
  <2>4. Asking'  BY <1>u, <2>1 DEF Readers, ReadTypes, Asking
  <2>5. NoReaderForgotten'  BY <1>u, <2>1 DEF Readers, ReadTypes, NoReaderForgotten
  <2> QED BY <1>5, <2>2, <2>3, <2>4, <2>5 DEF Readers
<1> QED BY <1>a, <1>b

LEMMA ReadCharKeeps == ASSUME Readers, NEW p \in Procs, ReadChar(p) PROVE Readers'
<1>u. pc[p] = "read" /\ r # w /\ UNCHANGED <<buf, w, e>> /\ (r' = r \/ r' = Plus(r, 1))
  BY DEF ReadChar
<1>0. r \in Index /\ w \in Index /\ e \in Index /\ conslock = p  BY <1>u DEF Readers, ReadTypes, Locked
<1>1. /\ Plus(r, 1) \in Index /\ Minus(w, Plus(r, 1)) = Minus(w, r) - 1
      /\ Minus(e, Plus(r, 1)) = Minus(e, r) - 1
  BY <1>u, <1>0, TakenOut DEF Readers, Ring
<1>2. /\ Minus(e, w) \in Nat /\ Minus(w, r) \in Nat /\ Minus(e, r) \in Nat /\ INPUT_BUF \in Nat
      /\ MaxRead \in Nat
  BY <1>0, Difference, Consts
<1>3. Ring'
  <2>1. CASE r' = r  BY <1>u, <2>1, RingKept DEF Readers
  <2>2. CASE r' = Plus(r, 1)
    <3>1. Minus(w', r') = Minus(w, r) - 1 /\ Minus(e', r') = Minus(e, r) - 1 /\ Minus(e', w') = Minus(e, w)
      BY <1>u, <1>1, <2>2
    <3> QED BY <1>2, <3>1 DEF Readers, Ring, Minus
  <2> QED BY <1>u, <2>1, <2>2
<1>4. r' \in Index  BY <1>u, <1>0, <1>1
<1>5. \A q \in Procs : pc[q] \notin {"doze", "asleep"}  BY <1>u DEF Readers, NoReaderForgotten
<1>6. n[p] \in Nat /\ got[p] \in Nat /\ n[p] >= 1 /\ n[p] + got[p] <= MaxRead
  BY <1>u DEF Readers, ReadTypes, Asking, ReadChar
<1>a. CASE Done(p)
  <2>2. /\ Locked' /\ Asking'
        /\ conslock' \in Procs \union {None} /\ pc' \in [Procs -> Labels]
        /\ n' \in [Procs -> 0 .. MaxRead] /\ got' \in [Procs -> 0 .. MaxRead] /\ killed' \in [Procs -> BOOLEAN]
        /\ \A q \in Procs : pc'[q] # "user" => q # p /\ pc'[q] = pc[q]
    BY <1>u, <1>a, DoneKeeps
  <2>3. ReadTypes'  BY <1>u, <1>0, <1>4, <2>2 DEF Readers, ReadTypes, Index, Labels
  <2>5. NoReaderForgotten'  BY <1>5, <2>2 DEF NoReaderForgotten
  <2> QED BY <1>3, <2>2, <2>3, <2>5 DEF Readers
<1>b. CASE ~Done(p)
  <2>1. /\ got' = [got EXCEPT ![p] = @ + 1] /\ n[p] # 1
        /\ n' = [n EXCEPT ![p] = @ - 1] /\ UNCHANGED <<conslock, pc, killed>>
    BY <1>b DEF ReadChar, More
  <2>2. n[p] - 1 \in 0 .. MaxRead /\ got[p] + 1 \in 0 .. MaxRead  BY <1>2, <1>6, <2>1
  <2>3. ReadTypes'  BY <1>u, <1>0, <1>4, <2>1, <2>2 DEF Readers, ReadTypes, Index, Labels
  <2>4. Asking'
    <3>1. n'[p] = n[p] - 1 /\ got'[p] = got[p] + 1  BY <2>1 DEF Readers, ReadTypes
    <3>2. n'[p] + got'[p] <= MaxRead  BY <1>2, <1>6, <2>1, <3>1
    <3>3. \A q \in Procs : q # p => n'[q] = n[q] /\ got'[q] = got[q]  BY <2>1 DEF Readers, ReadTypes
    <3> QED BY <1>u, <2>1, <3>2, <3>3 DEF Readers, Asking
  <2>5. NoReaderForgotten'  BY <1>5, <2>1 DEF NoReaderForgotten
  <2>6. Locked'  BY <2>1 DEF Readers, Locked
  <2> QED BY <1>3, <2>3, <2>4, <2>5, <2>6 DEF Readers
<1> QED BY <1>a, <1>b

LEMMA WriteKeeps ==
  ASSUME Readers, OnCells, NEW p \in Procs, NEW c \in {"x", "nl"}, Write(p, c) PROVE Readers' /\ OnCells'
<1>u. UNCHANGED <<buf, r, w, e>> /\ consputc(c, 1)  BY DEF Write, input
<1>1. OnCells'
  <2>1. 1 \in Nat  OBVIOUS
  <2>2. panicked' = FALSE /\ pos' \in Cells  BY <1>u, <2>1, CursorStays DEF OnCells
  <2> QED BY <2>2 DEF OnCells, Cells
<1>5. Ring'  BY <1>u, RingKept DEF Readers
<1>a. CASE pc[p] = "user" /\ conslock = None /\ Goto(p, "write") /\ conslock' = p /\ UNCHANGED <<n, got, killed>>
  <2>1. pc' = [pc EXCEPT ![p] = "write"]  BY <1>a DEF Goto
  <2>2. ReadTypes'  BY <1>u, <1>a, <2>1 DEF Readers, ReadTypes, Index, Labels
  <2>3. Locked'  BY <1>a, <2>1, Consts DEF Readers, ReadTypes, Locked
  <2>4. Asking'  BY <1>u, <1>a, <2>1 DEF Readers, ReadTypes, Asking
  <2>5. NoReaderForgotten'  BY <1>u, <2>1 DEF Readers, ReadTypes, NoReaderForgotten
  <2> QED BY <1>1, <1>5, <2>2, <2>3, <2>4, <2>5 DEF Readers
<1>b. CASE UNCHANGED <<pc, conslock, n, got, killed>>
  BY <1>u, <1>1, <1>5, <1>b DEF Readers, ReadTypes, Locked, Asking, NoReaderForgotten, Index
<1>c. CASE pc[p] = "write" /\ Done(p)
  <2>2. /\ Locked' /\ Asking'
        /\ conslock' \in Procs \union {None} /\ pc' \in [Procs -> Labels]
        /\ n' \in [Procs -> 0 .. MaxRead] /\ got' \in [Procs -> 0 .. MaxRead] /\ killed' \in [Procs -> BOOLEAN]
        /\ \A q \in Procs : pc'[q] # "user" => q # p /\ pc'[q] = pc[q]
    BY <1>c, DoneKeeps
  <2>3. ReadTypes'  BY <1>u, <2>2 DEF Readers, ReadTypes, Index, Labels
  <2>5. NoReaderForgotten'  BY <1>u, <2>2 DEF Readers, NoReaderForgotten
  <2> QED BY <1>1, <1>5, <2>2, <2>3, <2>5 DEF Readers
<1> QED BY <1>a, <1>b, <1>c DEF Write
-----------------------------------------------------------------------------
LEMMA NextInv == ASSUME ConsInv, [Next]_vars PROVE ConsInv'
<1>0. Keyboard /\ OnCells /\ Readers  BY Parts
<1>q. ASSUME Keyboard', OnCells', Readers' PROVE ConsInv'
  <2>1. (Keyboard /\ OnCells /\ Readers => ConsInv)'  BY Parts, PTL
  <2> QED BY <1>q, <2>1
<1>1. CASE Interrupt  BY <1>1, InterruptKeeps
<1>2. ASSUME NEW p \in Procs, Reader(p) \/ Kill(p) \/ \E k \in 0 .. MaxRead : Call(p, k) PROVE ConsInv'
  <2>1. UNCHANGED <<kbd, pos, panicked>>
    BY <1>2 DEF Reader, Lock, ReadNone, ReadChar, ReadEmpty, Sleep, Kill, Call
  <2>2. Keyboard'  BY <1>0, <2>1, KeyboardKept
  <2>3. OnCells'  BY <1>0, <2>1, CellsKept
  <2>4. Readers'
    BY <1>0, <1>2, LockKeeps, ReadNoneKeeps, ReadCharKeeps, ReadEmptyKeeps, SleepKeeps, KillKeeps, CallKeeps DEF Reader
  <2> QED BY <1>q, <2>2, <2>3, <2>4
<1>3. ASSUME NEW p \in Procs, NEW c \in {"x", "nl"}, Write(p, c) PROVE ConsInv'
  <2>1. Keyboard'
    <3>1. UNCHANGED kbd  BY <1>3 DEF Write
    <3> QED BY <1>0, <3>1, KeyboardKept
  <2>2. OnCells' /\ Readers'  BY <1>0, <1>3, WriteKeeps
  <2> QED BY <1>q, <2>1, <2>2
<1>4. CASE UNCHANGED vars
  <2>1. UNCHANGED kbd /\ UNCHANGED <<buf, r, w, e, pos, conslock, pc, n, got, killed, panicked>>
    BY <1>4 DEF vars, kbd, input, proc
  <2>2. Keyboard'  BY <1>0, <2>1, KeyboardKept
  <2>3. OnCells'  BY <1>0, <2>1, CellsKept
  <2>4. Readers'
    BY <1>0, <2>1 DEF Readers, ReadTypes, Locked, Asking, NoReaderForgotten, Ring, Minus, Index, Labels
  <2> QED BY <1>q, <2>2, <2>3, <2>4
<1> QED BY <1>1, <1>2, <1>3, <1>4 DEF Next

LEMMA Invariance == Spec => []ConsInv
BY InitInv, NextInv, PTL DEF Spec

\* A reader that dozes or sleeps has nothing to read: between the test of r and w and the
\* sleep no line is completed without a wakeup (consoleread, consoleintr).
THEOREM ReadersCorrect == Spec => []NoReaderForgotten
<1>1. ConsInv => NoReaderForgotten  BY DEF ConsInv
<1> QED BY <1>1, Invariance, PTL

\* The modifiers kbdgetc remembers are those of the keys held down, less those that the
\* release of the other key of a pair switched off, and cgaputc never finds the
\* cursor off the screen, for every size of the screen.
THEOREM DevicesCorrect == Spec => []DevicesExact
<1>1. ConsInv => DevicesExact
  BY DEF ConsInv, DevicesExact, Modifiers, ModifiersExact
<1> QED BY <1>1, Invariance, PTL
-----------------------------------------------------------------------------
\* A read ends in ReadNone, ReadChar or ReadEmpty: an interrupt needs the lock the reader holds.
LEMMA ReadEnds ==
  ASSUME Readers, [Next]_vars, NEW p \in Procs, pc[p] = "read", pc'[p] = "user"
  PROVE  ReadNone(p) \/ ReadChar(p) \/ ReadEmpty(p)
<1>0. conslock = p /\ conslock # None /\ pc \in [Procs -> Labels]
  BY Consts DEF Readers, ReadTypes, Locked
<1>1. CASE Interrupt
  BY <1>0, <1>1 DEF Interrupt, uartintr, KeyTypes, KeyShift, KeyEscape, KeyControl, consoleintr
<1>2. ASSUME NEW q \in Procs, Reader(q) PROVE ReadNone(p) \/ ReadChar(p) \/ ReadEmpty(p)
  <2>1. CASE q = p  BY <1>2, <2>1 DEF Reader, Lock, Sleep
  <2>2. CASE q # p
    <3>1. pc'[p] = pc[p]
      BY <1>0, <1>2, <2>2 DEF Reader, Lock, Sleep, ReadNone, ReadChar, ReadEmpty, Done, More, Goto
    <3> QED BY <3>1
  <2> QED BY <2>1, <2>2
<1>3. ASSUME NEW q \in Procs, Kill(q) PROVE FALSE  BY <1>0, <1>3 DEF Kill, Goto
<1>4. ASSUME NEW q \in Procs, NEW k \in 0 .. MaxRead, Call(q, k) PROVE FALSE  BY <1>0, <1>4 DEF Call, Goto
<1>5. ASSUME NEW q \in Procs, NEW c \in {"x", "nl"}, Write(q, c) PROVE FALSE
  BY <1>0, <1>5 DEF Write, Goto, Done
<1>6. CASE UNCHANGED vars  BY <1>6 DEF vars, proc
<1> QED BY <1>1, <1>2, <1>3, <1>4, <1>5, <1>6 DEF Next

\* An end-of-file mark that cuts a read short stays in the buffer, and it is a read that
\* returns nothing that uses the mark up (consoleread); an index that has wrapped around
\* is never taken for one that has not moved.
THEOREM EndOfFileCorrect == Spec => EndOfFileSeen
<1>1. ASSUME ConsInv, [Next]_vars
      PROVE  \A p \in Procs : pc[p] = "read" /\ pc'[p] = "user" =>
               /\ r' # r /\ At(r) = "EOF" => got[p] = 0
               /\ r' = r => got[p] > 0 \/ n[p] = 0 \/ r = w
  <2> SUFFICES ASSUME NEW p \in Procs, pc[p] = "read", pc'[p] = "user"
               PROVE  /\ r' # r /\ At(r) = "EOF" => got[p] = 0
                      /\ r' = r => got[p] > 0 \/ n[p] = 0 \/ r = w
    OBVIOUS
  <2>0. Readers  BY <1>1, Parts
  <2>1. got[p] \in Nat  BY <2>0 DEF Readers, ReadTypes
  <2>2. CASE ReadNone(p)  BY <2>2 DEF ReadNone, input
  <2>3. CASE ReadEmpty(p)  BY <2>3 DEF ReadEmpty, input
  <2>4. CASE ReadChar(p)
    <3>1. r # w /\ Plus(r, 1) # r
      BY <2>0, <2>4, TakenOut DEF ReadChar, Readers, ReadTypes, Ring
    <3>2. r' = IF At(r) = "EOF" /\ got[p] > 0 THEN r ELSE Plus(r, 1)  BY <2>4 DEF ReadChar
    <3> QED BY <2>1, <3>1, <3>2
  <2> QED BY <1>1, <2>0, <2>2, <2>3, <2>4, ReadEnds
<1> QED BY <1>1, Invariance, PTL DEF Spec, EndOfFileSeen
-----------------------------------------------------------------------------
(***************************************************************************)
(* The ring buffer as two sequences.                                       *)
(***************************************************************************)
Values == Stored \union {None}
Buffers == [0 .. INPUT_BUF - 1 -> Values]

\* The characters from index i up to j in the buffer b.
Seg(b, i, j) == [k \in 1 .. Minus(j, i) |-> b[Plus(i, k - 1) % INPUT_BUF]]

LEMMA SegAt ==
  ASSUME NEW b \in Buffers, NEW i \in Index, NEW j \in Index
  PROVE  /\ Seg(b, i, j) \in Seq(Values) /\ Len(Seg(b, i, j)) = Minus(j, i)
         /\ \A k \in 1 .. Minus(j, i) : Seg(b, i, j)[k] = b[(i + (k - 1)) % INPUT_BUF]
<1>1. PICK d \in Nat : d = Minus(j, i) /\ d < UintMod
  <2>1. Minus(j, i) \in Nat /\ Minus(j, i) \in Index  BY Difference
  <2> QED BY <2>1, Consts DEF Index
<1>2. ASSUME NEW k \in 1 .. d
      PROVE  b[Plus(i, k - 1) % INPUT_BUF] = b[(i + (k - 1)) % INPUT_BUF] /\ b[Plus(i, k - 1) % INPUT_BUF] \in Values
  <2>1. PICK l \in 0 .. UintMod - 1 : l = k - 1  BY <1>1, <1>2, Consts
  <2>2. (Plus(i, l) % INPUT_BUF) = ((i + l) % INPUT_BUF)  BY CellOfSum DEF Index
  <2>3. ((i + l) % INPUT_BUF) \in 0 .. INPUT_BUF - 1
    <3>1. PICK x \in Int : x = i + l  BY <1>1, Consts DEF Index
    <3>2. PICK m \in Nat \ {0} : m = INPUT_BUF  BY Consts
    <3>3. (x % m) \in 0 .. m - 1  BY Division
    <3> QED BY <3>1, <3>2, <3>3
  <2> QED BY <2>1, <2>2, <2>3 DEF Buffers
<1>3. Seg(b, i, j) = [k \in 1 .. d |-> b[Plus(i, k - 1) % INPUT_BUF]]  BY <1>1 DEF Seg
<1>4. PICK s : s = Seg(b, i, j)  OBVIOUS
<1>5. s \in [1 .. d -> Values] /\ \A k \in 1 .. d : s[k] = b[(i + (k - 1)) % INPUT_BUF]  BY <1>2, <1>3, <1>4
<1>6. s \in Seq(Values) /\ Len(s) = d  BY <1>5
<1> QED BY <1>1, <1>4, <1>5, <1>6

\* Going on from w is going on from r.
LEMMA SegJoin ==
  ASSUME NEW b \in Buffers, NEW i \in Index, NEW j \in Index, NEW l \in Index,
         Minus(j, i) + Minus(l, j) = Minus(l, i)
  PROVE  Seg(b, i, l) = Seg(b, i, j) \o Seg(b, j, l)
<1>1. PICK s \in Seq(Values) : s = Seg(b, i, j) /\ Len(s) = Minus(j, i)  BY SegAt
<1>2. PICK t \in Seq(Values) : t = Seg(b, j, l) /\ Len(t) = Minus(l, j)  BY SegAt
<1>3. PICK v \in Seq(Values) : v = Seg(b, i, l) /\ Len(v) = Minus(l, i)  BY SegAt
<1>4. /\ s \o t \in Seq(Values) /\ Len(s \o t) = Len(s) + Len(t)
      /\ \A k \in 1 .. Len(s) + Len(t) : (s \o t)[k] = IF k <= Len(s) THEN s[k] ELSE t[k - Len(s)]
  BY ConcatProperties
<1>5. Minus(j, i) \in Nat /\ Minus(l, j) \in Nat /\ Minus(l, i) \in Nat /\ Minus(l, i) < UintMod
  BY Difference, Consts DEF Index
<1>6. ASSUME NEW k \in 1 .. Len(v) PROVE v[k] = (s \o t)[k]
  <2>1. CASE k <= Len(s)
    <3>1. v[k] = b[Plus(i, k - 1) % INPUT_BUF] /\ s[k] = b[Plus(i, k - 1) % INPUT_BUF]
      BY <1>1, <1>3, <1>5, <1>6, <2>1 DEF Seg
    <3> QED BY <1>1, <1>2, <1>3, <1>4, <1>5, <1>6, <2>1, <3>1
  <2>2. CASE ~(k <= Len(s))
    <3>0. PICK h \in Nat : h = Minus(j, i)  BY <1>5
    <3>1. v[k] = b[Plus(i, k - 1) % INPUT_BUF]  BY <1>3, <1>5, <1>6 DEF Seg
    <3>2. k - h \in 1 .. Minus(l, j)  BY <1>1, <1>3, <1>5, <1>6, <2>2, <3>0
    <3>3. t[k - h] = b[Plus(j, k - h - 1) % INPUT_BUF]  BY <1>2, <1>5, <3>2 DEF Seg
    <3>4. k - 1 \in 0 .. UintMod - 1 /\ k - h - 1 \in 0 .. UintMod - 1
      BY <1>1, <1>3, <1>5, <1>6, <2>2, <3>0, Consts
    <3>5. Plus(i, k - 1) = Plus(j, k - h - 1)
      <4>1. Plus(i, k - 1) = IF i + (k - 1) < UintMod THEN i + (k - 1) ELSE i + (k - 1) - UintMod
        BY <3>4, PlusIs DEF Index
      <4>2. Plus(j, k - h - 1) = IF j + (k - h - 1) < UintMod THEN j + (k - h - 1) ELSE j + (k - h - 1) - UintMod
        BY <3>4, PlusIs DEF Index
      <4>3. Minus(j, i) = IF i <= j THEN j - i ELSE j - i + UintMod  BY MinusIs DEF Index
      <4> QED BY <3>0, <3>4, <4>1, <4>2, <4>3, Consts DEF Index
    <3> QED BY <1>1, <1>2, <1>3, <1>4, <1>5, <1>6, <2>2, <3>0, <3>1, <3>3, <3>5
  <2> QED BY <2>1, <2>2
<1>7. Len(v) = Len(s \o t)  BY <1>1, <1>2, <1>3, <1>4
<1>8. v = s \o t  BY <1>4, <1>6, <1>7, SeqEqual
<1> QED BY <1>1, <1>2, <1>3, <1>8

\* Cells before e, counted from i, are not the cell of e.
LEMMA OtherCell ==
  ASSUME NEW i \in Index, NEW j \in Index, Minus(j, i) < INPUT_BUF, NEW k \in 1 .. Minus(j, i)
  PROVE  ((i + (k - 1)) % INPUT_BUF) # (j % INPUT_BUF)
<1>1. Minus(j, i) \in Nat /\ Minus(j, i) \in 0 .. UintMod - 1 /\ UintMod \in Nat /\ INPUT_BUF \in Nat
  BY Difference, Consts DEF Index
<1>2. PICK d \in 0 .. UintMod - 1 : d = Minus(j, i)  BY <1>1
<1>3. Plus(i, d) = j
  <2>1. Plus(i, d) = IF i + d < UintMod THEN i + d ELSE i + d - UintMod  BY PlusIs DEF Index
  <2>2. d = IF i <= j THEN j - i ELSE j - i + UintMod  BY <1>2, MinusIs DEF Index
  <2> QED BY <1>1, <2>1, <2>2 DEF Index
<1>4. ((i + d) % INPUT_BUF) = (j % INPUT_BUF)
  <2>1. (Plus(i, d) % INPUT_BUF) = ((i + d) % INPUT_BUF)  BY CellOfSum DEF Index
  <2> QED BY <1>3, <2>1
<1>a. i \in Nat /\ d \in Nat /\ k \in Nat /\ k >= 1 /\ k <= d  BY <1>1, <1>2 DEF Index
<1>5. PICK x \in Nat, y \in Nat : x = i + (k - 1) /\ y = i + d
  <2>1. i + (k - 1) \in Nat /\ i + d \in Nat  BY <1>a
  <2> QED BY <2>1
<1>6. x < y /\ y < x + INPUT_BUF  BY <1>1, <1>2, <1>5 DEF Index
<1>7. (x % INPUT_BUF) # (y % INPUT_BUF)  BY <1>6, CellsDiffer
<1> QED BY <1>4, <1>5, <1>7
\* The buffer with c stored at index j.
Put(b, j, c) == [b EXCEPT ![j % INPUT_BUF] = c]

\* A character stored at e is appended to what precedes it from i, and changes nothing else.
LEMMA SegStore ==
  ASSUME NEW b \in Buffers, NEW i \in Index, NEW j \in Index, Minus(j, i) < INPUT_BUF, NEW c \in Stored,
         Plus(j, 1) \in Index, Minus(Plus(j, 1), i) = Minus(j, i) + 1
  PROVE  /\ Put(b, j, c) \in Buffers
         /\ Seg(Put(b, j, c), i, Plus(j, 1)) = Append(Seg(b, i, j), c)
<1>b. PICK b2 : b2 = [b EXCEPT ![j % INPUT_BUF] = c] /\ b2 = Put(b, j, c)  BY DEF Put
<1>0. Minus(j, i) \in Nat /\ UintMod \in Nat /\ INPUT_BUF \in Nat /\ INPUT_BUF > 0  BY Difference, Consts
<1>1. (j % INPUT_BUF) \in 0 .. INPUT_BUF - 1
  <2>1. j \in Int  BY <1>0 DEF Index
  <2>2. PICK m \in Nat \ {0} : m = INPUT_BUF  BY <1>0
  <2>3. (j % m) \in 0 .. m - 1  BY <2>1, Division
  <2> QED BY <2>2, <2>3
<1>2. b2 \in Buffers  BY <1>b, <1>1 DEF Buffers, Values
<1>3. PICK s \in Seq(Values) : s = Seg(b, i, j) /\ Len(s) = Minus(j, i)  BY SegAt
<1>4. PICK v \in Seq(Values) : v = Seg(b2, i, Plus(j, 1)) /\ Len(v) = Minus(j, i) + 1  BY <1>2, SegAt
<1>5. c \in Values  BY DEF Values
<1>6. /\ Append(s, c) \in Seq(Values) /\ Len(Append(s, c)) = Len(s) + 1
      /\ \A k \in 1 .. Len(s) : Append(s, c)[k] = s[k]
      /\ Append(s, c)[Len(s) + 1] = c
  BY <1>5, AppendProperties
<1>7. \A k \in 1 .. Minus(j, i) + 1 : v[k] = b2[(i + (k - 1)) % INPUT_BUF]
  <2>1. PICK f \in Index : f = Plus(j, 1)  OBVIOUS
  <2>2. \A k \in 1 .. Minus(f, i) : Seg(b2, i, f)[k] = b2[(i + (k - 1)) % INPUT_BUF]  BY <1>2, SegAt
  <2> QED BY <1>4, <2>1, <2>2
<1>8. \A k \in 1 .. Minus(j, i) : s[k] = b[(i + (k - 1)) % INPUT_BUF]  BY <1>3, SegAt
<1>9. ASSUME NEW k \in 1 .. Len(v) PROVE v[k] = Append(s, c)[k]
  <2>1. CASE k <= Len(s)
    <3>1. k \in 1 .. Minus(j, i)  BY <1>0, <1>3, <1>4, <2>1
    <3>2. ((i + (k - 1)) % INPUT_BUF) # (j % INPUT_BUF)  BY <3>1, OtherCell
    <3>3. ((i + (k - 1)) % INPUT_BUF) \in 0 .. INPUT_BUF - 1
      <4>1. PICK x \in Int : x = i + (k - 1)  BY <1>0, <3>1 DEF Index
      <4>2. PICK m \in Nat \ {0} : m = INPUT_BUF  BY <1>0
      <4>3. (x % m) \in 0 .. m - 1  BY Division
      <4> QED BY <4>1, <4>2, <4>3
    <3>4. b2[(i + (k - 1)) % INPUT_BUF] = b[(i + (k - 1)) % INPUT_BUF]  BY <1>b, <3>2, <3>3 DEF Buffers
    <3>5. v[k] = b2[(i + (k - 1)) % INPUT_BUF]  BY <1>4, <1>7
    <3>6. s[k] = b[(i + (k - 1)) % INPUT_BUF]  BY <1>8, <3>1
    <3>7. Append(s, c)[k] = s[k]  BY <1>3, <1>6, <3>1
    <3> QED BY <3>4, <3>5, <3>6, <3>7
  <2>2. CASE ~(k <= Len(s))
    <3>1. k = Minus(j, i) + 1 /\ k = Len(s) + 1  BY <1>0, <1>3, <1>4, <2>2
    <3>2. PICK d \in 0 .. UintMod - 1 : d = Minus(j, i)  BY Difference DEF Index
    <3>3. Plus(i, d) = j
      <4>1. Plus(i, d) = IF i + d < UintMod THEN i + d ELSE i + d - UintMod  BY PlusIs DEF Index
      <4>2. d = IF i <= j THEN j - i ELSE j - i + UintMod  BY <3>2, MinusIs DEF Index
      <4> QED BY <1>0, <4>1, <4>2 DEF Index
    <3>4. (j % INPUT_BUF) = ((i + d) % INPUT_BUF)
      <4>1. (Plus(i, d) % INPUT_BUF) = ((i + d) % INPUT_BUF)  BY CellOfSum DEF Index
      <4> QED BY <3>3, <4>1
    <3>5. k - 1 = d  BY <1>0, <3>1, <3>2
    <3>6. v[k] = b2[(i + (k - 1)) % INPUT_BUF]  BY <1>4, <1>7
    <3>7. v[k] = b2[j % INPUT_BUF]  BY <3>4, <3>5, <3>6
    <3>8. b2[j % INPUT_BUF] = c  BY <1>b, <1>1 DEF Buffers
    <3> QED BY <1>6, <3>1, <3>7, <3>8
  <2> QED BY <2>1, <2>2
<1>10. Len(v) = Len(Append(s, c))  BY <1>3, <1>4, <1>6
<1>11. v = Append(s, c)  BY <1>6, <1>9, <1>10, SeqEqual
<1> QED BY <1>b, <1>2, <1>3, <1>4, <1>11

LEMMA SegKept ==
  ASSUME NEW b \in Buffers, NEW i \in Index, NEW l \in Index, NEW j \in Index, Minus(j, i) < INPUT_BUF,
         Minus(l, i) <= Minus(j, i), NEW c \in Stored, Put(b, j, c) \in Buffers
  PROVE  Seg(Put(b, j, c), i, l) = Seg(b, i, l)
<1>b. PICK b2 \in Buffers : b2 = [b EXCEPT ![j % INPUT_BUF] = c] /\ b2 = Put(b, j, c)  BY DEF Put
<1>0. Minus(j, i) \in Nat /\ Minus(l, i) \in Nat /\ UintMod \in Nat /\ INPUT_BUF \in Nat /\ INPUT_BUF > 0
  BY Difference, Consts
<1>1. PICK s \in Seq(Values) : s = Seg(b, i, l) /\ Len(s) = Minus(l, i)  BY SegAt
<1>2. PICK v \in Seq(Values) : v = Seg(b2, i, l) /\ Len(v) = Minus(l, i)  BY SegAt
<1>3. ASSUME NEW k \in 1 .. Len(v) PROVE v[k] = s[k]
  <2>1. k \in 1 .. Minus(j, i) /\ k \in 1 .. Minus(l, i)  BY <1>0, <1>2, <1>3
  <2>2. ((i + (k - 1)) % INPUT_BUF) # (j % INPUT_BUF)  BY <2>1, OtherCell
  <2>3. ((i + (k - 1)) % INPUT_BUF) \in 0 .. INPUT_BUF - 1
    <3>1. PICK x \in Int : x = i + (k - 1)  BY <1>0, <2>1 DEF Index
    <3>2. PICK m \in Nat \ {0} : m = INPUT_BUF  BY <1>0
    <3>3. (x % m) \in 0 .. m - 1  BY Division
    <3> QED BY <3>1, <3>2, <3>3
  <2>4. b2[(i + (k - 1)) % INPUT_BUF] = b[(i + (k - 1)) % INPUT_BUF]  BY <1>b, <2>2, <2>3 DEF Buffers
  <2>5. s[k] = b[(i + (k - 1)) % INPUT_BUF]
    <3>1. \A x \in 1 .. Minus(l, i) : Seg(b, i, l)[x] = b[(i + (x - 1)) % INPUT_BUF]  BY SegAt
    <3> QED BY <1>1, <2>1, <3>1
  <2>6. v[k] = b2[(i + (k - 1)) % INPUT_BUF]
    <3>1. \A x \in 1 .. Minus(l, i) : Seg(b2, i, l)[x] = b2[(i + (x - 1)) % INPUT_BUF]  BY SegAt
    <3> QED BY <1>2, <2>1, <3>1
  <2> QED BY <2>4, <2>5, <2>6
<1>4. Len(v) = Len(s)  BY <1>1, <1>2
<1>5. v = s  BY <1>3, <1>4, SeqEqual
<1> QED BY <1>b, <1>1, <1>2, <1>5

LEMMA SegEmpty == ASSUME NEW b \in Buffers, NEW i \in Index PROVE Seg(b, i, i) = <<>>
<1>1. Minus(i, i) = 0  BY Difference
<1>2. Seg(b, i, i) \in Seq(Values) /\ Len(Seg(b, i, i)) = 0  BY <1>1, SegAt
<1>3. PICK s \in Seq(Values) : s = Seg(b, i, i) /\ Len(s) = 0  BY <1>2
<1> QED BY <1>3, EmptySeq

\* Reading takes the first character.
LEMMA SegTail ==
  ASSUME NEW b \in Buffers, NEW i \in Index, NEW j \in Index, i # j,
         Plus(i, 1) \in Index, Minus(j, Plus(i, 1)) = Minus(j, i) - 1
  PROVE  Seg(b, i, j) # <<>> /\ Seg(b, Plus(i, 1), j) = Tail(Seg(b, i, j))
<1>0. Minus(j, i) \in Nat /\ Minus(j, i) # 0 /\ Minus(j, i) < UintMod /\ UintMod \in Nat /\ INPUT_BUF \in Nat
  BY Difference, Consts DEF Index
<1>1. PICK s \in Seq(Values) : s = Seg(b, i, j) /\ Len(s) = Minus(j, i)  BY SegAt
<1>2. PICK v \in Seq(Values) : v = Seg(b, Plus(i, 1), j) /\ Len(v) = Minus(j, i) - 1  BY SegAt
<1>3. s # <<>>  BY <1>0, <1>1, EmptySeq
<1>4. /\ Tail(s) \in Seq(Values) /\ Len(Tail(s)) = Len(s) - 1
      /\ \A k \in 1 .. Len(Tail(s)) : Tail(s)[k] = s[k + 1]
  BY <1>3, HeadTailProperties
<1>5. ASSUME NEW k \in 1 .. Len(v) PROVE v[k] = Tail(s)[k]
  <2>1. k \in Nat /\ k >= 1 /\ k <= Minus(j, i) - 1 /\ k < UintMod  BY <1>0, <1>2, <1>5
  <2>2. v[k] = b[Plus(Plus(i, 1), k - 1) % INPUT_BUF]  BY <1>2, <1>5 DEF Seg
  <2>3. k + 1 \in 1 .. Minus(j, i) /\ (k + 1) - 1 = k  BY <1>0, <2>1
  <2>4. s[k + 1] = b[Plus(i, k) % INPUT_BUF]  BY <1>1, <2>3 DEF Seg
  <2>5. Plus(Plus(i, 1), k - 1) = Plus(i, k)
    <3>0. 1 \in 0 .. UintMod - 1 /\ k \in 0 .. UintMod - 1 /\ k - 1 \in 0 .. UintMod - 1  BY <1>0, <2>1
    <3>1. PICK f \in Index : f = Plus(i, 1)  OBVIOUS
    <3>2. f = IF i + 1 < UintMod THEN i + 1 ELSE i + 1 - UintMod  BY <3>0, <3>1, PlusIs DEF Index
    <3>3. Plus(f, k - 1) = IF f + (k - 1) < UintMod THEN f + (k - 1) ELSE f + (k - 1) - UintMod
      BY <3>0, PlusIs DEF Index
    <3>4. Plus(i, k) = IF i + k < UintMod THEN i + k ELSE i + k - UintMod  BY <3>0, PlusIs DEF Index
    <3>5. Plus(f, k - 1) = Plus(i, k)  BY <1>0, <2>1, <3>2, <3>3, <3>4 DEF Index
    <3> QED BY <3>1, <3>5
  <2>6. Tail(s)[k] = s[k + 1]  BY <1>1, <1>2, <1>4, <1>5
  <2> QED BY <2>2, <2>4, <2>5, <2>6
<1>6. Len(v) = Len(Tail(s))  BY <1>1, <1>2, <1>4
<1>7. v = Tail(s)  BY <1>4, <1>5, <1>6, SeqEqual
<1> QED BY <1>1, <1>2, <1>3, <1>7

\* Rubbing out shortens the line.
LEMMA SegShorter ==
  ASSUME NEW b \in Buffers, NEW i \in Index, NEW j \in Index, NEW l \in Index, NEW k \in 1 .. Minus(j, i),
         Minus(l, i) = Minus(j, i) - k
  PROVE  Seg(b, i, l) = SubSeq(Seg(b, i, j), 1, Minus(j, i) - k)
<1>0. Minus(j, i) \in Nat /\ UintMod \in Nat /\ INPUT_BUF \in Nat  BY Difference, Consts
<1>a. PICK h \in Nat : h = Minus(j, i) - k /\ h <= Minus(j, i)  BY <1>0
<1>1. PICK s \in Seq(Values) : s = Seg(b, i, j) /\ Len(s) = Minus(j, i)  BY SegAt
<1>2. PICK v \in Seq(Values) : v = Seg(b, i, l) /\ Len(v) = h  BY <1>a, SegAt
<1>3. \A x \in 1 .. h : s[x] \in Values  BY <1>0, <1>a, <1>1
<1>4. /\ SubSeq(s, 1, h) \in Seq(Values) /\ Len(SubSeq(s, 1, h)) = IF 1 <= h THEN h - 1 + 1 ELSE 0
      /\ \A x \in 1 .. h - 1 + 1 : SubSeq(s, 1, h)[x] = s[1 + x - 1]
  <2>1. 1 \in Int /\ h \in Int  OBVIOUS
  <2> QED BY <1>3, <2>1, SubSeqProperties
<1>5. Len(v) = Len(SubSeq(s, 1, h))  BY <1>2, <1>4
<1>6. ASSUME NEW x \in 1 .. Len(v) PROVE v[x] = SubSeq(s, 1, h)[x]
  <2>1. x \in 1 .. h /\ x \in 1 .. Minus(j, i) /\ x \in 1 .. Minus(l, i) /\ x \in Int  BY <1>0, <1>a, <1>2, <1>6
  <2>2. v[x] = s[x]  BY <1>1, <1>2, <2>1 DEF Seg
  <2>3. SubSeq(s, 1, h)[x] = s[1 + x - 1]  BY <1>4, <2>1
  <2>4. 1 + x - 1 = x  BY <2>1
  <2> QED BY <2>2, <2>3, <2>4
<1>7. v = SubSeq(s, 1, h)  BY <1>4, <1>5, <1>6, SeqEqual
<1> QED BY <1>a, <1>1, <1>2, <1>7
-----------------------------------------------------------------------------
(***************************************************************************)
(* Every step of the console is a step of the line editor, or none.        *)
(***************************************************************************)
LEMMA Maps == Segment(r, w) = Seg(buf, r, w) /\ Segment(w, e) = Seg(buf, w, e)
BY DEF Segment, Seg, At

LEMMA SegsAre ==
  ASSUME Readers
  PROVE  /\ buf \in Buffers /\ r \in Index /\ w \in Index /\ e \in Index
         /\ Seg(buf, r, w) \in Seq(Values) /\ Len(Seg(buf, r, w)) = Minus(w, r)
         /\ Seg(buf, w, e) \in Seq(Values) /\ Len(Seg(buf, w, e)) = Minus(e, w)
         /\ Minus(w, r) \in Nat /\ Minus(e, w) \in Nat /\ Minus(e, r) \in Nat /\ INPUT_BUF \in Nat
         /\ Minus(w, r) + Minus(e, w) = Minus(e, r) /\ Minus(e, r) <= INPUT_BUF
<1>1. buf \in Buffers /\ r \in Index /\ w \in Index /\ e \in Index  BY DEF Readers, ReadTypes, Buffers, Values
<1>2. Seg(buf, r, w) \in Seq(Values) /\ Len(Seg(buf, r, w)) = Minus(w, r)  BY <1>1, SegAt
<1>3. Seg(buf, w, e) \in Seq(Values) /\ Len(Seg(buf, w, e)) = Minus(e, w)  BY <1>1, SegAt
<1>4. Minus(w, r) \in Nat /\ Minus(e, w) \in Nat /\ Minus(e, r) \in Nat /\ INPUT_BUF \in Nat
  BY <1>1, Difference, Consts
<1> QED BY <1>1, <1>2, <1>3, <1>4 DEF Readers, Ring

LEMMA MapsNext ==
  /\ Segment(r, w)' = Seg(buf', r', w') /\ Segment(w, e)' = Seg(buf', w', e')
BY DEF Segment, Seg, At, Minus, Plus

LEMMA StutterStep == ASSUME UNCHANGED <<buf, r, w, e>> PROVE UNCHANGED Lines!vars
<1>1. Segment(r, w)' = Segment(r, w) /\ Segment(w, e)' = Segment(w, e)  BY Maps, MapsNext
<1> QED BY <1>1 DEF Lines!vars

LEMMA EraseStep ==
  ASSUME Readers, NEW k \in 0 .. Minus(e, w), Rub(k), UNCHANGED r
  PROVE  [Lines!Next]_(Lines!vars)
<1>u. e' = Minus(e, k) /\ UNCHANGED <<buf, r, w>>  BY DEF Rub
<1>0. /\ buf \in Buffers /\ r \in Index /\ w \in Index /\ e \in Index
      /\ Seg(buf, w, e) \in Seq(Values) /\ Len(Seg(buf, w, e)) = Minus(e, w)
      /\ Minus(w, r) \in Nat /\ Minus(e, w) \in Nat /\ Minus(e, r) \in Nat /\ INPUT_BUF \in Nat
      /\ Minus(w, r) + Minus(e, w) = Minus(e, r) /\ Minus(e, r) <= INPUT_BUF
  BY SegsAre
<1>1. Minus(e, k) \in Index /\ Minus(Minus(e, k), w) = Minus(e, w) - k  BY <1>0, RubbedOut
<1>2. CASE k = 0
  <2>1. Minus(e, 0) = e
    <3>1. 0 \in 0 .. UintMod - 1  BY Consts
    <3>2. Minus(e, 0) = IF 0 <= e THEN e - 0 ELSE e - 0 + UintMod  BY <1>0, <3>1, MinusIs DEF Index
    <3> QED BY <1>0, <3>2 DEF Index
  <2> QED BY <1>u, <1>2, <2>1, StutterStep
<1>3. CASE k # 0
  <2>1. k \in 1 .. Minus(e, w) /\ k \in 1 .. INPUT_BUF  BY <1>0, <1>3
  <2>2. Seg(buf, w, e') = SubSeq(Seg(buf, w, e), 1, Minus(e, w) - k)
    <3>1. PICK f \in Index : f = Minus(e, k) /\ Minus(f, w) = Minus(e, w) - k  BY <1>1
    <3>2. Seg(buf, w, f) = SubSeq(Seg(buf, w, e), 1, Minus(e, w) - k)  BY <1>0, <2>1, <3>1, SegShorter
    <3> QED BY <1>u, <3>1, <3>2
  <2>3. Segment(w, e)' = SubSeq(Segment(w, e), 1, Len(Segment(w, e)) - k)  BY <1>0, <1>u, <2>2, Maps, MapsNext
  <2>4. Segment(r, w)' = Segment(r, w)  BY <1>u, Maps, MapsNext
  <2>5. k \in 1 .. Len(Segment(w, e))  BY <1>0, <2>1, Maps
  <2>6. Lines!Erase(k)  BY <2>3, <2>4, <2>5 DEF Lines!Erase
  <2> QED BY <2>1, <2>6 DEF Lines!Next
<1> QED BY <1>2, <1>3

LEMMA TypeStep ==
  ASSUME Readers, NEW c \in Stored, Store(c), UNCHANGED r
  PROVE  [Lines!Next]_(Lines!vars)
<1>0. /\ buf \in Buffers /\ r \in Index /\ w \in Index /\ e \in Index
      /\ Seg(buf, r, w) \in Seq(Values) /\ Len(Seg(buf, r, w)) = Minus(w, r)
      /\ Seg(buf, w, e) \in Seq(Values) /\ Len(Seg(buf, w, e)) = Minus(e, w)
      /\ Minus(w, r) \in Nat /\ Minus(e, w) \in Nat /\ Minus(e, r) \in Nat /\ INPUT_BUF \in Nat
      /\ Minus(w, r) + Minus(e, w) = Minus(e, r) /\ Minus(e, r) <= INPUT_BUF
  BY SegsAre
<1>1. CASE ~Room  BY <1>1, StutterStep DEF Store, Ignored
<1>2. CASE Room
  <2>0. Minus(e, r) < INPUT_BUF /\ Minus(e, w) < INPUT_BUF /\ Minus(w, r) <= Minus(e, r)
    BY <1>0, <1>2 DEF Room
  <2>1. /\ Plus(e, 1) \in Index
        /\ Minus(Plus(e, 1), w) = Minus(e, w) + 1
        /\ Minus(Plus(e, 1), r) = Minus(e, r) + 1
        /\ Plus(e, 1) = Plus(r, INPUT_BUF) <=> Minus(e, r) = INPUT_BUF - 1
    BY <1>0, <2>0, PutIn
  <2>u. /\ e' = Plus(e, 1) /\ r' = r /\ buf' = [buf EXCEPT ![e % INPUT_BUF] = c]
        /\ IF c \in {"nl", "EOF"} \/ e' = Plus(r, INPUT_BUF) THEN w' = e' ELSE w' = w
    BY <1>2 DEF Store
  <2>2. PICK b2 : b2 = buf'  OBVIOUS
  <2>a. b2 = Put(buf, e, c)  BY <2>u, <2>2 DEF Put
  <2>b. buf \in Buffers /\ r \in Index /\ w \in Index /\ e \in Index  BY <1>0
  <2>c. Minus(e, r) < INPUT_BUF /\ Minus(Plus(e, 1), r) = Minus(e, r) + 1 /\ Plus(e, 1) \in Index  BY <2>0, <2>1
  <2>d. Minus(e, w) < INPUT_BUF /\ Minus(Plus(e, 1), w) = Minus(e, w) + 1  BY <2>0, <2>1
  <2>3. b2 \in Buffers /\ Seg(b2, r, Plus(e, 1)) = Append(Seg(buf, r, e), c)
    BY <2>a, <2>b, <2>c, SegStore
  <2>4. Seg(b2, w, Plus(e, 1)) = Append(Seg(buf, w, e), c)
    BY <2>a, <2>b, <2>c, <2>d, SegStore
  <2>5. Seg(b2, r, w) = Seg(buf, r, w)
    <3>1. Minus(w, r) <= Minus(e, r)  BY <2>0
    <3> QED BY <2>a, <2>b, <2>c, <2>3, <3>1, SegKept
  <2>6. Len(Segment(r, w)) + Len(Segment(w, e)) = Minus(e, r)  BY <1>0, Maps
  <2>7. c \in {"nl", "EOF"} \/ e' = Plus(r, INPUT_BUF) <=>
        c \in {"nl", "EOF"} \/ Len(Segment(r, w)) + Len(Segment(w, e)) = INPUT_BUF - 1
    BY <2>1, <2>u, <2>6
  <2>8. CASE c \in {"nl", "EOF"} \/ e' = Plus(r, INPUT_BUF)
    <3>1. Segment(w, e)' = <<>>
      <4>1. w' = e' /\ e' \in Index  BY <2>1, <2>u, <2>8
      <4>2. PICK f \in Index : f = e'  BY <4>1
      <4>3. Seg(b2, f, f) = <<>>  BY <2>3, SegEmpty
      <4> QED BY <2>2, <4>1, <4>2, <4>3, MapsNext
    <3>2. Seg(buf, r, e) = Seg(buf, r, w) \o Seg(buf, w, e)  BY <1>0, SegJoin
    <3>3. Segment(r, w)' = Append(Segment(r, w) \o Segment(w, e), c)
      BY <2>2, <2>3, <2>u, <2>8, <3>2, Maps, MapsNext
    <3>4. Append(Segment(r, w) \o Segment(w, e), c) = Segment(r, w) \o Append(Segment(w, e), c)
      <4>1. PICK s \in Seq(Values), t \in Seq(Values) : s = Segment(r, w) /\ t = Segment(w, e)  BY <1>0, Maps
      <4>2. c \in Values /\ <<c>> \in Seq(Values)  BY DEF Values
      <4>3. Append(s \o t, c) = (s \o t) \o <<c>>
        <5>1. s \o t \in Seq(Values)  BY ConcatProperties
        <5> QED BY <4>2, <5>1, AppendIsConcat
      <4>4. Append(t, c) = t \o <<c>>  BY <4>2, AppendIsConcat
      <4>5. (s \o t) \o <<c>> = s \o (t \o <<c>>)  BY <4>2, ConcatAssociative
      <4> QED BY <4>1, <4>3, <4>4, <4>5
    <3>5. Lines!Type(c)  BY <1>0, <2>0, <2>6, <2>7, <2>8, <3>1, <3>3, <3>4 DEF Lines!Type
    <3> QED BY <3>5 DEF Lines!Next
  <2>9. CASE ~(c \in {"nl", "EOF"} \/ e' = Plus(r, INPUT_BUF))
    <3>1. w' = w  BY <2>u, <2>9
    <3>2. Segment(w, e)' = Append(Segment(w, e), c)  BY <2>2, <2>4, <2>u, <3>1, Maps, MapsNext
    <3>3. Segment(r, w)' = Segment(r, w)  BY <2>2, <2>5, <2>u, <3>1, Maps, MapsNext
    <3>4. Lines!Type(c)  BY <1>0, <2>0, <2>6, <2>7, <2>9, <3>2, <3>3 DEF Lines!Type
    <3> QED BY <3>4 DEF Lines!Next
  <2> QED BY <2>8, <2>9
<1> QED BY <1>1, <1>2

LEMMA ReadStep ==
  ASSUME Readers, NEW p \in Procs, ReadChar(p) PROVE [Lines!Next]_(Lines!vars)
<1>u. r # w /\ UNCHANGED <<buf, w, e>> /\ (r' = r \/ r' = Plus(r, 1))  BY DEF ReadChar
<1>1. CASE r' = r  BY <1>u, <1>1, StutterStep
<1>2. CASE r' = Plus(r, 1)
  <2>0. /\ buf \in Buffers /\ r \in Index /\ w \in Index /\ e \in Index
        /\ Minus(w, r) + Minus(e, w) = Minus(e, r) /\ Minus(e, r) <= INPUT_BUF
    BY SegsAre
  <2>1. Plus(r, 1) \in Index /\ Minus(w, Plus(r, 1)) = Minus(w, r) - 1  BY <1>u, <2>0, TakenOut
  <2>2. Seg(buf, r, w) # <<>> /\ Seg(buf, Plus(r, 1), w) = Tail(Seg(buf, r, w))  BY <1>u, <2>0, <2>1, SegTail
  <2>3. Segment(r, w) # <<>> /\ Segment(r, w)' = Tail(Segment(r, w)) /\ Segment(w, e)' = Segment(w, e)
    BY <1>u, <1>2, <2>2, Maps, MapsNext
  <2>4. Lines!Read  BY <2>3 DEF Lines!Read
  <2> QED BY <2>4 DEF Lines!Next
<1> QED BY <1>u, <1>1, <1>2

LEMMA IntrStep ==
  ASSUME Readers, NEW c \in Typed, consoleintr(c) PROVE [Lines!Next]_(Lines!vars)
<1>u. UNCHANGED r  BY DEF consoleintr
<1>i. ASSUME Ignored PROVE [Lines!Next]_(Lines!vars)  BY <1>u, <1>i, StutterStep DEF Ignored
<1>1. CASE c = "BS"
  <2>1. Backspace  BY <1>1 DEF consoleintr
  <2>2. CASE e # w
    <3>1. Rub(1)  BY <2>1, <2>2 DEF Backspace
    <3>2. Minus(e, w) \in Nat /\ Minus(e, w) # 0  BY <2>2, Difference DEF Readers, ReadTypes
    <3>3. 1 \in 0 .. Minus(e, w)  BY <3>2
    <3> QED BY <1>u, <3>1, <3>3, EraseStep
  <2>3. CASE e = w  BY <1>i, <2>1, <2>3 DEF Backspace
  <2> QED BY <2>2, <2>3
<1>2. CASE c = "KILL"
  <2>1. KillLine  BY <1>2 DEF consoleintr
  <2>2. PICK k \in 0 .. Minus(e, w) : Rub(k)  BY <2>1, KillBound DEF KillLine, Readers
  <2> QED BY <1>u, <2>2, EraseStep
<1>3. CASE c = "none"  BY <1>i, <1>3 DEF consoleintr
<1>4. CASE c \notin {"BS", "KILL", "none"}
  <2>1. PICK d \in Stored : Store(d)  BY <1>4 DEF consoleintr, Typed, Stored
  <2> QED BY <1>u, <2>1, TypeStep
<1> QED BY <1>1, <1>2, <1>3, <1>4

LEMMA NextStep == ASSUME ConsInv, [Next]_vars PROVE [Lines!Next]_(Lines!vars)
<1>0. Readers  BY Parts
<1>1. CASE Interrupt
  <2>1. PICK c \in Typed : consoleintr(c)
    <3>1. ASSUME NEW c \in {"x", "nl", "cr", "BS", "KILL", "EOF"}, uartintr(c) PROVE \E d \in Typed : consoleintr(d)
      BY <3>1 DEF uartintr, Typed
    <3>2. ASSUME NEW k \in Letter \union {"enter", "caps"}, KeyTypes(k) PROVE \E d \in Typed : consoleintr(d)
      BY <3>2 DEF KeyTypes, Typed, Mapped, Letter
    <3>3. ASSUME (\E k \in {"lshift", "rshift", "lctl"} : KeyShift(k)) \/ KeyEscape \/ KeyControl PROVE \E d \in Typed : consoleintr(d)
      BY <3>3 DEF KeyShift, KeyEscape, KeyControl, Typed
    <3> QED BY <1>1, <3>1, <3>2, <3>3 DEF Interrupt
  <2> QED BY <1>0, <2>1, IntrStep
<1>2. ASSUME NEW p \in Procs, ReadChar(p) PROVE [Lines!Next]_(Lines!vars)  BY <1>0, <1>2, ReadStep
<1>3. ASSUME NEW p \in Procs,
             \/ Lock(p) \/ ReadNone(p) \/ ReadEmpty(p) \/ Sleep(p) \/ Kill(p)
             \/ \E k \in 0 .. MaxRead : Call(p, k)
             \/ \E c \in {"x", "nl"} : Write(p, c)
      PROVE  [Lines!Next]_(Lines!vars)
  <2>1. UNCHANGED <<buf, r, w, e>>  BY <1>3 DEF Lock, ReadNone, ReadEmpty, Sleep, Kill, Call, Write, input
  <2> QED BY <2>1, StutterStep
<1>4. CASE UNCHANGED vars
  <2>1. UNCHANGED <<buf, r, w, e>>  BY <1>4 DEF vars, input
  <2> QED BY <2>1, StutterStep
<1> QED BY <1>1, <1>2, <1>3, <1>4 DEF Next, Reader

LEMMA InitStep == ASSUME Init PROVE Lines!Init
<1>1. Readers  BY InitInv, Parts
<1>2. buf \in Buffers /\ r \in Index /\ r = w /\ w = e  BY <1>1, SegsAre DEF Init
<1>3. Seg(buf, r, w) = <<>> /\ Seg(buf, w, e) = <<>>  BY <1>2, SegEmpty
<1> QED BY <1>3, Maps DEF Lines!Init

\* The ring buffer whose indices wrap around is the line editor of LineInput: characters can
\* be taken back until their line is complete, and complete lines are read in order, each
\* character once (consoleintr, consoleread), for every size of the buffer and of the indices.
THEOREM LineInputImplemented == Spec => ImplementsLineInput
<1>1. Init => Lines!Init  BY InitStep
<1>2. ConsInv /\ [Next]_vars => [Lines!Next]_(Lines!vars)  BY NextStep
<1> QED BY <1>1, <1>2, Invariance, PTL DEF Spec, ImplementsLineInput, Lines!Spec
=============================================================================
