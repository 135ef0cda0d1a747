--------------------------- MODULE TerminalProofs ---------------------------
(***************************************************************************)
(* Proofs about the terminal, for screens of any size and lines of any     *)
(* length: as long as nothing unusual happens, the text on the screen is   *)
(* the text the user typed, and the cursor is at its place in it.          *)
(***************************************************************************)
EXTENDS Terminal, SequenceLemmas

-----------------------------------------------------------------------------
(* Rows and columns *)

(* Facts about products and quotients that the provers use one at a time. *)
LEMMA TimesNat ==
    ASSUME NEW a \in Nat, NEW b \in Nat
    PROVE  a * b \in Nat
  OBVIOUS

(* One factor more, one factor less. *)
LEMMA TimesNext ==
    ASSUME NEW a \in Int, NEW w \in Nat
    PROVE  (a + 1) * w = a * w + w /\ (a - 1) * w = a * w - w
  OBVIOUS

(* A product grows with its factor. *)
LEMMA TimesMono ==
    ASSUME NEW a \in Nat, NEW b \in Nat, NEW w \in Nat, a <= b
    PROVE  a * w <= b * w
  OBVIOUS

(* Division with remainder. *)
LEMMA DivMod ==
    ASSUME NEW n \in Nat, NEW w \in Nat, w >= 1
    PROVE  /\ n \div w \in Nat /\ n % w \in Nat /\ n % w < w
           /\ n = (n \div w) * w + (n % w)
<1>1. n \div w \in Nat /\ n % w \in Nat /\ n % w < w
  OBVIOUS
<1>2. n \in Int /\ w \in Int /\ w > 0
  OBVIOUS
<1>3. n = w * (n \div w) + (n % w)
  BY <1>2, Z3
<1> DEFINE d == n \div w
           m == n % w
<1>4. d \in Nat /\ m \in Nat /\ m < w /\ n = w * d + m
  BY <1>1, <1>3
<1> HIDE DEF d, m
<1>5. n = d * w + m
  BY <1>4
<1> QED
  BY <1>4, <1>5 DEF d, m

(* A place on the screen. *)
On(x, y) == x \in 0..(VGA_WIDTH - 1) /\ y \in 0..VGA_HEIGHT

(* The screen has at least one cell, and a row more than the line may take. *)
LEMMA Sizes ==
    /\ VGA_WIDTH \in Nat /\ VGA_WIDTH >= 1 /\ VGA_HEIGHT \in Nat /\ VGA_HEIGHT >= 1
    /\ TERMINAL_MAX_LINE_LEN \in Nat /\ Cells \in Nat
    /\ TERMINAL_MAX_LINE_LEN >= VGA_WIDTH
    /\ Cells = TERMINAL_MAX_LINE_LEN + VGA_WIDTH
    /\ TERMINAL_MAX_LINE_LEN = VGA_HEIGHT * VGA_WIDTH
<1>1. VGA_WIDTH \in Nat /\ VGA_WIDTH >= 1 /\ VGA_HEIGHT \in Nat /\ VGA_HEIGHT >= 1
  BY TerminalAssumption
<1>2. VGA_WIDTH * (VGA_HEIGHT + 1) = VGA_WIDTH * VGA_HEIGHT + VGA_WIDTH
  BY <1>1
<1>3. VGA_WIDTH * VGA_HEIGHT = VGA_HEIGHT * VGA_WIDTH
  BY <1>1
<1>4. 1 * VGA_WIDTH <= VGA_HEIGHT * VGA_WIDTH /\ VGA_HEIGHT * VGA_WIDTH \in Nat
  BY <1>1, TimesMono, TimesNat
<1>5. 1 * VGA_WIDTH = VGA_WIDTH
  BY <1>1
<1> QED
  BY <1>1, <1>2, <1>3, <1>4, <1>5 DEF TERMINAL_MAX_LINE_LEN, Cells

(* The cells of the screen are numbered row by row. *)
LEMMA Places ==
    ASSUME NEW x, NEW y, On(x, y)
    PROVE  /\ x \in Nat /\ y \in Nat /\ x < VGA_WIDTH /\ y <= VGA_HEIGHT
           /\ Index(x, y) \in Nat /\ Index(x, y) < Cells /\ Index(x, y) >= x
           /\ y # VGA_HEIGHT => Index(x, y) < TERMINAL_MAX_LINE_LEN
           /\ y = VGA_HEIGHT => Index(x, y) = TERMINAL_MAX_LINE_LEN + x
           /\ y = 0 => Index(x, y) = x
           /\ y > 0 => Index(x, y) >= VGA_WIDTH /\ Index(x, y - 1) = Index(x, y) - VGA_WIDTH
<1>1. x \in Nat /\ y \in Nat /\ x < VGA_WIDTH /\ y <= VGA_HEIGHT
  BY Sizes DEF On
<1> DEFINE m == y * VGA_WIDTH
<1>2. m \in Nat /\ Index(x, y) = m + x
  BY <1>1, Sizes, TimesNat DEF Index
<1>3. y = VGA_HEIGHT => m = TERMINAL_MAX_LINE_LEN
  BY Sizes
<1>4. y # VGA_HEIGHT => m + VGA_WIDTH <= TERMINAL_MAX_LINE_LEN
  <2> SUFFICES ASSUME y # VGA_HEIGHT PROVE m + VGA_WIDTH <= TERMINAL_MAX_LINE_LEN
    OBVIOUS
  <2>1. y + 1 <= VGA_HEIGHT /\ y + 1 \in Nat
    BY <1>1, Sizes
  <2>2. (y + 1) * VGA_WIDTH <= VGA_HEIGHT * VGA_WIDTH
    BY <2>1, Sizes, TimesMono
  <2>3. (y + 1) * VGA_WIDTH = m + VGA_WIDTH
    BY <1>1, Sizes, TimesNext
  <2> HIDE DEF m
  <2> QED
    BY <2>2, <2>3, Sizes
<1>5. y = 0 => m = 0
  BY Sizes
<1>6. y > 0 => m >= VGA_WIDTH
  <2> SUFFICES ASSUME y > 0 PROVE m >= VGA_WIDTH
    OBVIOUS
  <2>1. 1 * VGA_WIDTH <= y * VGA_WIDTH
    BY <1>1, Sizes, TimesMono
  <2>2. 1 * VGA_WIDTH = VGA_WIDTH
    BY Sizes
  <2> QED
    BY <2>1, <2>2
<1>7. Index(x, y - 1) = (m - VGA_WIDTH) + x
  BY <1>1, Sizes, TimesNext DEF Index
<1> HIDE DEF m
<1> QED
  BY <1>1, <1>2, <1>3, <1>4, <1>5, <1>6, <1>7, Sizes

(* The next and the previous cell. *)
LEMMA Neighbours ==
    ASSUME NEW x, NEW y, On(x, y)
    PROVE  /\ Index(x + 1, y) = Index(x, y) + 1
           /\ Index(x - 1, y) = Index(x, y) - 1
           /\ x = VGA_WIDTH - 1 => Index(0, y + 1) = Index(x, y) + 1
           /\ x = 0 => Index(VGA_WIDTH - 1, y - 1) = Index(x, y) - 1
<1>1. x \in Nat /\ y \in Nat /\ VGA_WIDTH \in Nat
  BY Places, Sizes
<1> DEFINE m == y * VGA_WIDTH
<1>2. m \in Nat /\ (y + 1) * VGA_WIDTH = m + VGA_WIDTH /\ (y - 1) * VGA_WIDTH = m - VGA_WIDTH
  BY <1>1, TimesNat, TimesNext
<1>3. /\ Index(x + 1, y) = m + (x + 1) /\ Index(x - 1, y) = m + (x - 1) /\ Index(x, y) = m + x
      /\ Index(0, y + 1) = (m + VGA_WIDTH) + 0
      /\ Index(VGA_WIDTH - 1, y - 1) = (m - VGA_WIDTH) + (VGA_WIDTH - 1)
  BY <1>2 DEF Index
<1> HIDE DEF m
<1> QED
  BY <1>1, <1>2, <1>3

-----------------------------------------------------------------------------
(* The cursor *)

Cursors == [x : Int, y : Int, line_x : Int, line_y : Int, position_ctr : Int, chars_ctr : Int]

(* The fields of a cursor, one by one. *)
Is(d, x, y, line_x, line_y, position_ctr, chars_ctr) ==
    /\ d \in Cursors /\ d.x = x /\ d.y = y /\ d.line_x = line_x /\ d.line_y = line_y
    /\ d.position_ctr = position_ctr /\ d.chars_ctr = chars_ctr

(* Assignments to some of the fields. *)
WithXYP(c, a, b, q) == [c EXCEPT !.x = a, !.y = b, !.position_ctr = q]
WithXP(c, a, q) == [c EXCEPT !.x = a, !.position_ctr = q]
WithXY(c, a, b) == [c EXCEPT !.x = a, !.y = b]
WithX(c, a) == [c EXCEPT !.x = a]
WithLine(c, a, b) == [c EXCEPT !.line_x = a, !.line_y = b]
WithLineY(c, b) == [c EXCEPT !.line_y = b]
WithCounts(c, m, q) == [c EXCEPT !.chars_ctr = m, !.position_ctr = q]

(* What each of these assignments leaves in the fields. *)
LEMMA AssignedXYP ==
    ASSUME NEW c \in Cursors, NEW a \in Int, NEW b \in Int, NEW q \in Int
    PROVE  Is(WithXYP(c, a, b, q), a, b, c.line_x, c.line_y, q, c.chars_ctr)
  BY DEF Is, WithXYP, Cursors

(* The column and the position. *)
LEMMA AssignedXP ==
    ASSUME NEW c \in Cursors, NEW a \in Int, NEW q \in Int
    PROVE  Is(WithXP(c, a, q), a, c.y, c.line_x, c.line_y, q, c.chars_ctr)
  BY DEF Is, WithXP, Cursors

(* The column and the row. *)
LEMMA AssignedXY ==
    ASSUME NEW c \in Cursors, NEW a \in Int, NEW b \in Int
    PROVE  Is(WithXY(c, a, b), a, b, c.line_x, c.line_y, c.position_ctr, c.chars_ctr)
  BY DEF Is, WithXY, Cursors

(* The column alone. *)
LEMMA AssignedX ==
    ASSUME NEW c \in Cursors, NEW a \in Int
    PROVE  Is(WithX(c, a), a, c.y, c.line_x, c.line_y, c.position_ctr, c.chars_ctr)
  BY DEF Is, WithX, Cursors

(* The place where the line begins. *)
LEMMA AssignedLine ==
    ASSUME NEW c \in Cursors, NEW a \in Int, NEW b \in Int
    PROVE  Is(WithLine(c, a, b), c.x, c.y, a, b, c.position_ctr, c.chars_ctr)
  BY DEF Is, WithLine, Cursors

(* The row in which the line begins. *)
LEMMA AssignedLineY ==
    ASSUME NEW c \in Cursors, NEW b \in Int
    PROVE  Is(WithLineY(c, b), c.x, c.y, c.line_x, b, c.position_ctr, c.chars_ctr)
  BY DEF Is, WithLineY, Cursors

(* The two counters. *)
LEMMA AssignedCounts ==
    ASSUME NEW c \in Cursors, NEW m \in Int, NEW q \in Int
    PROVE  Is(WithCounts(c, m, q), c.x, c.y, c.line_x, c.line_y, q, m)
  BY DEF Is, WithCounts, Cursors

Begin(c) == Index(c.line_x, c.line_y)

(* The cursor c is at position p of a line of n characters: the line and the cell
   behind it are on the screen, and a line that begins in the first row is not
   too long for vga_copy_line. *)
Placed(c, n, p) ==
    /\ c \in Cursors /\ n \in Nat /\ p \in 0..n
    /\ On(c.x, c.y) /\ On(c.line_x, c.line_y)
    /\ c.chars_ctr = n /\ c.position_ctr = p
    /\ Index(c.x, c.y) = Begin(c) + p
    /\ Begin(c) + n < Cells
    /\ c.line_y = 0 => c.line_x + n <= TERMINAL_MAX_LINE_LEN

(* The whole line can be copied. *)
LEMMA PlacedInside ==
    ASSUME NEW c, NEW n, NEW p, Placed(c, n, p)
    PROVE  ~Outside(c.line_x, c.line_y, n)
<1>1. On(c.line_x, c.line_y) /\ n \in Nat
  BY DEF Placed
<1>2. CASE c.line_y = 0
  BY <1>2, Places, <1>1, Sizes DEF Placed, Outside
<1>3. CASE c.line_y # 0
  <2>1. c.line_y > 0
    BY <1>1, <1>3, Places
  <2>2. Index(c.line_x, c.line_y - 1) = Begin(c) - VGA_WIDTH /\ Begin(c) \in Nat
    BY <1>1, <2>1, Places DEF Begin
  <2>3. Begin(c) + n < Cells
    BY DEF Placed
  <2> QED
    BY <1>1, <2>1, <2>2, <2>3, Sizes DEF Outside
<1> QED
  BY <1>2, <1>3

(* A cursor at position q of the same line. *)
LEMMA MovedPlaced ==
    ASSUME NEW c, NEW n, NEW p, Placed(c, n, p), NEW q \in 0..n,
           NEW d, NEW a, NEW b, Is(d, a, b, c.line_x, c.line_y, q, n),
           On(a, b), Index(a, b) = Begin(c) + q
    PROVE  Placed(d, n, q)
  BY DEF Placed, Is, Begin

(* cursor_left moves one position back, or stays at the beginning. *)
LEMMA LeftPlaced ==
    ASSUME NEW c, NEW n, NEW p, Placed(c, n, p), NEW q, q = (IF p = 0 THEN 0 ELSE p - 1)
    PROVE  Placed(cursor_left(c), n, q)
<1>1. CASE p = 0
  BY <1>1 DEF Placed, cursor_left
<1>2. CASE p # 0
  <2> DEFINE d == cursor_left(c)
  <2>1. /\ c \in Cursors /\ n \in Nat /\ p \in 1..n /\ q = p - 1 /\ q \in 0..n
        /\ On(c.x, c.y) /\ On(c.line_x, c.line_y)
        /\ c.chars_ctr = n /\ c.position_ctr = p
        /\ Index(c.x, c.y) = Begin(c) + p
    BY <1>2 DEF Placed
  <2>2. /\ c.x \in Nat /\ c.y \in Nat /\ c.x < VGA_WIDTH /\ c.y <= VGA_HEIGHT
        /\ Begin(c) \in Nat /\ (c.y = 0 => Index(c.x, c.y) = c.x)
    BY <2>1, Places DEF Begin
  <2>3. CASE c.x = 0 /\ c.y > 0
    <3>1. d = WithXYP(c, VGA_WIDTH - 1, c.y - 1, q)
      BY <1>2, <2>1, <2>3 DEF cursor_left, WithXYP
    <3>2. Is(d, VGA_WIDTH - 1, c.y - 1, c.line_x, c.line_y, q, n)
      <4>1. VGA_WIDTH - 1 \in Int /\ c.y - 1 \in Int /\ q \in Int
        BY <2>1, <2>2, Sizes
      <4> QED
        BY <2>1, <3>1, <4>1, AssignedXYP
    <3>3. On(VGA_WIDTH - 1, c.y - 1)
      BY <2>2, <2>3, Sizes DEF On
    <3>4. Index(VGA_WIDTH - 1, c.y - 1) = Begin(c) + q
      BY <2>1, <2>2, <2>3, Neighbours
    <3> QED
      BY <2>1, <3>2, <3>3, <3>4, MovedPlaced
  <2>4. CASE ~(c.x = 0 /\ c.y > 0)
    <3>1. d = WithXP(c, c.x - 1, q)
      BY <1>2, <2>1, <2>4 DEF cursor_left, WithXP
    <3>2. Is(d, c.x - 1, c.y, c.line_x, c.line_y, q, n)
      <4>1. c.x - 1 \in Int /\ q \in Int
        BY <2>1, <2>2
      <4> QED
        BY <2>1, <3>1, <4>1, AssignedXP
    <3>3. On(c.x - 1, c.y)
      BY <2>1, <2>2, <2>4, Sizes DEF On
    <3>4. Index(c.x - 1, c.y) = Begin(c) + q
      BY <2>1, <2>2, Neighbours
    <3> QED
      BY <2>1, <3>2, <3>3, <3>4, MovedPlaced
  <2> QED
    BY <2>3, <2>4
<1> QED
  BY <1>1, <1>2

(* cursor_right moves one position on, or stays at the end. *)
LEMMA RightPlaced ==
    ASSUME NEW c, NEW n, NEW p, Placed(c, n, p), NEW q, q = (IF p = n THEN n ELSE p + 1)
    PROVE  Placed(cursor_right(c), n, q)
<1>1. CASE p = n
  BY <1>1 DEF Placed, cursor_right
<1>2. CASE p # n
  <2> DEFINE d == cursor_right(c)
  <2>1. /\ c \in Cursors /\ n \in Nat /\ p \in 0..n /\ q = p + 1 /\ q \in 0..n /\ p < n
        /\ On(c.x, c.y) /\ On(c.line_x, c.line_y)
        /\ c.chars_ctr = n /\ c.position_ctr = p
        /\ Index(c.x, c.y) = Begin(c) + p
        /\ Begin(c) + n < Cells
    BY <1>2 DEF Placed
  <2>2. /\ c.x \in Nat /\ c.y \in Nat /\ c.x < VGA_WIDTH /\ c.y <= VGA_HEIGHT
        /\ Begin(c) \in Nat
        /\ c.y = VGA_HEIGHT => Index(c.x, c.y) = TERMINAL_MAX_LINE_LEN + c.x
    BY <2>1, Places DEF Begin
  <2>3. CASE c.x = VGA_WIDTH - 1
    <3>1. d = WithXYP(c, 0, c.y + 1, q)
      BY <1>2, <2>1, <2>3 DEF cursor_right, WithXYP
    <3>2. Is(d, 0, c.y + 1, c.line_x, c.line_y, q, n)
      <4>1. 0 \in Int /\ c.y + 1 \in Int /\ q \in Int
        BY <2>1, <2>2
      <4> QED
        BY <2>1, <3>1, <4>1, AssignedXYP
    <3>3. c.y # VGA_HEIGHT
      BY <2>1, <2>2, <2>3, Sizes
    <3>4. On(0, c.y + 1)
      BY <2>2, <3>3, Sizes DEF On
    <3>5. Index(0, c.y + 1) = Begin(c) + q
      BY <2>1, <2>2, <2>3, Neighbours
    <3> QED
      BY <2>1, <3>2, <3>4, <3>5, MovedPlaced
  <2>4. CASE c.x # VGA_WIDTH - 1
    <3>1. d = WithXP(c, c.x + 1, q)
      BY <1>2, <2>1, <2>4 DEF cursor_right, WithXP
    <3>2. Is(d, c.x + 1, c.y, c.line_x, c.line_y, q, n)
      <4>1. c.x + 1 \in Int /\ q \in Int
        BY <2>1, <2>2
      <4> QED
        BY <2>1, <3>1, <4>1, AssignedXP
    <3>3. On(c.x + 1, c.y)
      BY <2>2, <2>4, Sizes DEF On
    <3>4. Index(c.x + 1, c.y) = Begin(c) + q
      BY <2>1, <2>2, Neighbours
    <3> QED
      BY <2>1, <3>2, <3>3, <3>4, MovedPlaced
  <2> QED
    BY <2>3, <2>4
<1> QED
  BY <1>1, <1>2

(* cursor_home moves to the beginning of the line. *)
LEMMA HomePlaced ==
    ASSUME NEW c, NEW n, NEW p, Placed(c, n, p)
    PROVE  Placed(cursor_home(c), n, 0)
<1>1. CASE p = 0
  BY <1>1 DEF Placed, cursor_home
<1>2. CASE p # 0
  <2>1. /\ c \in Cursors /\ n \in Nat /\ On(c.line_x, c.line_y)
        /\ c.chars_ctr = n /\ c.position_ctr = p
    BY DEF Placed
  <2>2. c.line_x \in Int /\ c.line_y \in Int /\ Begin(c) \in Nat
    BY <2>1, Places DEF Begin
  <2>3. cursor_home(c) = WithXYP(c, c.line_x, c.line_y, 0)
    BY <1>2, <2>1 DEF cursor_home, WithXYP
  <2>4. Is(cursor_home(c), c.line_x, c.line_y, c.line_x, c.line_y, 0, n)
    BY <2>1, <2>2, <2>3, AssignedXYP
  <2>5. Index(c.line_x, c.line_y) = Begin(c) + 0 /\ 0 \in 0..n
    BY <2>1, <2>2 DEF Begin
  <2> QED
    BY <2>1, <2>4, <2>5, MovedPlaced
<1> QED
  BY <1>1, <1>2

(* END goes where the line ends, unless it would pass the right margin. *)
LEMMA EndPlaced ==
    ASSUME NEW c, NEW n, NEW p, Placed(c, n, p), ~(cursor_end(c).x >= VGA_WIDTH)
    PROVE  Placed(cursor_end(c), n, n)
<1>1. CASE p = n
  BY <1>1 DEF Placed, cursor_end
<1>2. CASE p # n
  <2> DEFINE a == c.line_x + (n % VGA_WIDTH)
             b == c.line_y + (n \div VGA_WIDTH)
  <2>1. /\ c \in Cursors /\ n \in Nat /\ On(c.line_x, c.line_y)
        /\ c.chars_ctr = n /\ c.position_ctr = p
        /\ Begin(c) + n < Cells
    BY DEF Placed
  <2>2. /\ n \div VGA_WIDTH \in Nat /\ n % VGA_WIDTH \in Nat
        /\ n = (n \div VGA_WIDTH) * VGA_WIDTH + (n % VGA_WIDTH)
    BY <2>1, DivMod, Sizes
  <2>3. c.line_x \in Nat /\ c.line_y \in Nat /\ Begin(c) \in Nat
    BY <2>1, Places DEF Begin
  <2>4. a \in Nat /\ b \in Nat
    BY <2>2, <2>3
  <2>5. cursor_end(c) = WithXYP(c, a, b, n)
    BY <1>2, <2>1 DEF cursor_end, WithXYP
  <2>6. Index(a, b) = Begin(c) + n
    <3> DEFINE e == n \div VGA_WIDTH
               f == n % VGA_WIDTH
    <3>1. e \in Nat /\ f \in Nat /\ n = e * VGA_WIDTH + f
      BY <2>2
    <3> HIDE DEF e, f
    <3>2. (c.line_y + e) * VGA_WIDTH = c.line_y * VGA_WIDTH + e * VGA_WIDTH
      BY <2>3, <3>1, Sizes
    <3> DEFINE g == c.line_y * VGA_WIDTH
               h == e * VGA_WIDTH
    <3>3. g \in Nat /\ h \in Nat
      BY <2>3, <3>1, Sizes, TimesNat
    <3>4. Index(a, b) = (g + h) + (c.line_x + f) /\ Begin(c) = g + c.line_x /\ n = h + f
      BY <3>1, <3>2 DEF Index, Begin, e, f
    <3> HIDE DEF g, h
    <3> QED
      BY <2>3, <3>1, <3>3, <3>4
  <2> HIDE DEF a, b
  <2>7. Is(cursor_end(c), a, b, c.line_x, c.line_y, n, n)
    <3>1. a \in Int /\ b \in Int /\ n \in Int
      BY <2>1, <2>4
    <3> QED
      BY <2>1, <2>5, <3>1, AssignedXYP
  <2>8. a < VGA_WIDTH
    BY <2>4, <2>7, Sizes DEF Is
  <2>9. b <= VGA_HEIGHT
    <3> SUFFICES ASSUME b > VGA_HEIGHT PROVE FALSE
      BY <2>4, Sizes
    <3>1. VGA_HEIGHT + 1 <= b
      BY <2>4, Sizes
    <3>2. (VGA_HEIGHT + 1) * VGA_WIDTH <= b * VGA_WIDTH
      BY <2>4, <3>1, Sizes, TimesMono
    <3>3. (VGA_HEIGHT + 1) * VGA_WIDTH = Cells
      BY Sizes, TimesNext
    <3>4. Index(a, b) = b * VGA_WIDTH + a /\ b * VGA_WIDTH \in Nat
      BY <2>4, Sizes, TimesNat DEF Index
    <3> QED
      BY <2>1, <2>4, <2>6, <3>2, <3>3, <3>4, Sizes
  <2>10. On(a, b) /\ n \in 0..n
    BY <2>1, <2>4, <2>8, <2>9, Sizes DEF On
  <2> QED
    BY <2>1, <2>6, <2>7, <2>10, MovedPlaced
<1> QED
  BY <1>1, <1>2

(* The keys that move the cursor leave the beginning of the line. *)
LEMMA BeginKept ==
    ASSUME NEW c \in Cursors
    PROVE  /\ Begin(cursor_left(c)) = Begin(c) /\ Begin(cursor_right(c)) = Begin(c)
           /\ Begin(cursor_home(c)) = Begin(c) /\ Begin(cursor_end(c)) = Begin(c)
           /\ Begin(cursor_remove_char(c)) = Begin(c)
  BY DEF Begin, Cursors, cursor_left, cursor_right, cursor_home, cursor_end, cursor_remove_char

(* One character less, behind the cursor or under it. *)
LEMMA RemovedPlaced ==
    ASSUME NEW c, NEW n, NEW p, Placed(c, n, p), p < n
    PROVE  Placed(cursor_remove_char(c), n - 1, p)
<1>1. c \in Cursors /\ n \in Nat /\ p \in 0..n /\ c.chars_ctr = n /\ c.position_ctr = p
  BY DEF Placed
<1>2. cursor_remove_char(c) = WithCounts(c, n - 1, p)
  <2> DEFINE left == IF c.chars_ctr > 0 THEN c.chars_ctr - 1 ELSE 0
             at_ == IF c.position_ctr > left THEN left ELSE c.position_ctr
  <2>1. left = n - 1
    BY <1>1
  <2>2. at_ = p
    BY <1>1, <2>1
  <2>3. cursor_remove_char(c) = WithCounts(c, left, at_)
    BY DEF cursor_remove_char, WithCounts
  <2> HIDE DEF left, at_
  <2> QED
    BY <2>1, <2>2, <2>3
<1>3. n - 1 \in Int /\ p \in Int /\ n - 1 \in Nat /\ p \in 0..(n - 1)
  BY <1>1
<1>4. Is(cursor_remove_char(c), c.x, c.y, c.line_x, c.line_y, p, n - 1)
  BY <1>1, <1>2, <1>3, AssignedCounts
<1>5. Begin(c) \in Nat /\ c.line_x \in Nat
  BY Places DEF Placed, Begin
<1>6. Begin(c) + (n - 1) < Cells /\ (c.line_y = 0 => c.line_x + (n - 1) <= TERMINAL_MAX_LINE_LEN)
  BY <1>1, <1>5, Sizes DEF Placed
<1> QED
  BY <1>3, <1>4, <1>6 DEF Placed, Is, Begin

(* A character of output, or one more of the line, that does not fill the screen. *)
LEMMA NextOn ==
    ASSUME NEW c \in Cursors, On(c.x, c.y), NEW m, m = cursor_nextchar(c)
    PROVE  \/ /\ m.full /\ Index(c.x, c.y) = Cells - 1
              /\ Is(m.cursor, 0, VGA_HEIGHT, c.line_x, c.line_y, c.position_ctr, c.chars_ctr)
           \/ /\ ~m.full
              /\ \E a, b : /\ On(a, b) /\ Index(a, b) = Index(c.x, c.y) + 1
                           /\ Is(m.cursor, a, b, c.line_x, c.line_y, c.position_ctr, c.chars_ctr)
<1>1. /\ c.x \in Nat /\ c.y \in Nat /\ c.x < VGA_WIDTH /\ c.y <= VGA_HEIGHT
      /\ c.y = VGA_HEIGHT => Index(c.x, c.y) = TERMINAL_MAX_LINE_LEN + c.x
  BY Places
<1>2. CASE c.x = VGA_WIDTH - 1 /\ c.y = VGA_HEIGHT
  <2>1. m.full /\ m.cursor = WithX(c, 0)
    BY <1>2 DEF cursor_nextchar, cursor_newline, Moved, WithX
  <2>2. 0 \in Int
    OBVIOUS
  <2>3. Is(m.cursor, 0, VGA_HEIGHT, c.line_x, c.line_y, c.position_ctr, c.chars_ctr)
    BY <1>2, <2>1, <2>2, AssignedX
  <2>4. Index(c.x, c.y) = Cells - 1
    BY <1>1, <1>2, Sizes
  <2> QED
    BY <2>1, <2>3, <2>4
<1>3. CASE c.x = VGA_WIDTH - 1 /\ c.y # VGA_HEIGHT
  <2>1. m.full = FALSE /\ m.cursor = WithXY(c, 0, c.y + 1)
    BY <1>3 DEF cursor_nextchar, cursor_newline, Moved, WithXY
  <2>2. 0 \in Int /\ c.y + 1 \in Int
    BY <1>1
  <2>3. Is(m.cursor, 0, c.y + 1, c.line_x, c.line_y, c.position_ctr, c.chars_ctr)
    BY <2>1, <2>2, AssignedXY
  <2>4. On(0, c.y + 1)
    BY <1>1, <1>3, Sizes DEF On
  <2>5. Index(0, c.y + 1) = Index(c.x, c.y) + 1
    BY <1>3, Neighbours
  <2> QED
    BY <2>1, <2>3, <2>4, <2>5
<1>4. CASE c.x # VGA_WIDTH - 1
  <2>1. m.full = FALSE /\ m.cursor = WithX(c, c.x + 1)
    BY <1>4 DEF cursor_nextchar, Moved, WithX
  <2>2. c.x + 1 \in Int
    BY <1>1
  <2>3. Is(m.cursor, c.x + 1, c.y, c.line_x, c.line_y, c.position_ctr, c.chars_ctr)
    BY <2>1, <2>2, AssignedX
  <2>4. On(c.x + 1, c.y)
    BY <1>1, <1>4, Sizes DEF On
  <2>5. Index(c.x + 1, c.y) = Index(c.x, c.y) + 1
    BY Neighbours
  <2> QED
    BY <2>1, <2>3, <2>4, <2>5
<1> QED
  BY <1>2, <1>3, <1>4

(* What printable does to the cursor of a line when it notes nothing unusual. *)
Typed(c, n, p) ==
    LET next == cursor_nextchar_kbd(c)
        d == IF next.full THEN [next.cursor EXCEPT !.line_y = @ - 1] ELSE next.cursor
    IN /\ Placed(d, n + 1, p + 1)
       /\ next.full => p = n /\ Begin(c) + n = Cells - 1 /\ Begin(c) >= VGA_WIDTH
       /\ Begin(d) = IF next.full THEN Begin(c) - VGA_WIDTH ELSE Begin(c)

Usual(c, n, p) ==
    /\ ~(p < n /\ (Begin(c) + n) + 1 >= Cells)
    /\ ~(cursor_nextchar_kbd(c).full /\ c.line_y = 0)
    /\ ~(c.line_y = 0 /\ (Begin(c) + n) + 1 > TERMINAL_MAX_LINE_LEN)

(* A typed character puts the cursor behind itself, scrolling or not. *)
LEMMA TypedPlaced ==
    ASSUME NEW c, NEW n, NEW p, Placed(c, n, p), Usual(c, n, p)
    PROVE  Typed(c, n, p)
<1> DEFINE e == [c EXCEPT !.chars_ctr = @ + 1, !.position_ctr = @ + 1]
           next == cursor_nextchar_kbd(c)
           d == IF next.full THEN [next.cursor EXCEPT !.line_y = @ - 1] ELSE next.cursor
<1>1. /\ c \in Cursors /\ n \in Nat /\ p \in 0..n /\ c.chars_ctr = n /\ c.position_ctr = p
      /\ On(c.x, c.y) /\ On(c.line_x, c.line_y)
      /\ Index(c.x, c.y) = Begin(c) + p
      /\ Begin(c) + n < Cells
  BY DEF Placed
<1>2. /\ Begin(c) \in Nat /\ c.line_x \in Nat /\ c.line_y \in Nat
      /\ c.line_x < VGA_WIDTH /\ c.line_y <= VGA_HEIGHT
      /\ c.line_y = 0 => Begin(c) = c.line_x
      /\ c.line_y > 0 => /\ Begin(c) >= VGA_WIDTH
                         /\ Index(c.line_x, c.line_y - 1) = Begin(c) - VGA_WIDTH
  BY <1>1, Places DEF Begin
<1>3. Is(e, c.x, c.y, c.line_x, c.line_y, p + 1, n + 1)
  <2>1. n + 1 \in Int /\ p + 1 \in Int /\ e = WithCounts(c, n + 1, p + 1)
    BY <1>1 DEF WithCounts
  <2> QED
    BY <1>1, <2>1, AssignedCounts
<1>4. next = cursor_nextchar(e)
  BY DEF cursor_nextchar_kbd
<1> HIDE DEF e, next
<1>5. e \in Cursors /\ On(e.x, e.y)
  BY <1>1, <1>3 DEF Is
<1>6. CASE next.full
  <2>1. /\ Index(c.x, c.y) = Cells - 1
        /\ Is(next.cursor, 0, VGA_HEIGHT, c.line_x, c.line_y, p + 1, n + 1)
    BY <1>3, <1>4, <1>5, <1>6, NextOn DEF Is
  <2>2. p = n /\ Begin(c) + n = Cells - 1 /\ c.line_y # 0
    <3>1. c.line_y # 0
      BY <1>6 DEF Usual, next
    <3> QED
      BY <1>1, <1>2, <2>1, <3>1, Sizes
  <2>3. c.line_y > 0 /\ c.line_y - 1 \in Int
    BY <1>2, <2>2
  <2>4. d = WithLineY(next.cursor, c.line_y - 1)
    BY <1>6, <2>1 DEF Is, WithLineY
  <2>5. Is(d, 0, VGA_HEIGHT, c.line_x, c.line_y - 1, p + 1, n + 1)
    <3>1. next.cursor \in Cursors
      BY <2>1 DEF Is
    <3>2. Is(WithLineY(next.cursor, c.line_y - 1), next.cursor.x, next.cursor.y, next.cursor.line_x,
             c.line_y - 1, next.cursor.position_ctr, next.cursor.chars_ctr)
      BY <2>3, <3>1, AssignedLineY
    <3> HIDE DEF d
    <3> QED
      BY <2>1, <2>4, <3>2 DEF Is
  <2> HIDE DEF d
  <2>6. On(0, VGA_HEIGHT) /\ On(c.line_x, c.line_y - 1)
    BY <1>2, <2>3, Sizes DEF On
  <2>7. Begin(d) = Begin(c) - VGA_WIDTH
    BY <1>2, <2>3, <2>5 DEF Begin, Is
  <2>8. Index(0, VGA_HEIGHT) = TERMINAL_MAX_LINE_LEN
    BY <2>6, Places, Sizes
  <2>9. /\ Index(0, VGA_HEIGHT) = Begin(d) + (p + 1)
        /\ Begin(d) + (n + 1) < Cells
    BY <1>1, <1>2, <2>2, <2>7, <2>8, Sizes
  <2>10. c.line_y - 1 = 0 => c.line_x + (n + 1) <= TERMINAL_MAX_LINE_LEN
    <3> SUFFICES ASSUME c.line_y - 1 = 0 PROVE c.line_x + (n + 1) <= TERMINAL_MAX_LINE_LEN
      OBVIOUS
    <3>1. Index(c.line_x, c.line_y - 1) = c.line_x
      BY <2>6, Places
    <3> QED
      BY <1>1, <1>2, <2>2, <2>3, <3>1, Sizes
  <2>11. n + 1 \in Nat /\ p + 1 \in 0..(n + 1)
    BY <1>1
  <2>12. Placed(d, n + 1, p + 1)
    BY <2>5, <2>6, <2>9, <2>10, <2>11 DEF Placed, Is
  <2> QED
    BY <1>2, <1>6, <2>2, <2>3, <2>7, <2>12 DEF Typed, d, next
<1>7. CASE ~next.full
  <2>1. PICK a, b : /\ On(a, b) /\ Index(a, b) = Index(c.x, c.y) + 1
                    /\ Is(next.cursor, a, b, c.line_x, c.line_y, p + 1, n + 1)
    BY <1>3, <1>4, <1>5, <1>7, NextOn DEF Is
  <2>2. d = next.cursor
    BY <1>7
  <2> HIDE DEF d
  <2>3. Begin(d) = Begin(c)
    BY <2>1, <2>2 DEF Is, Begin
  <2>4. Index(a, b) \in Nat /\ Index(a, b) < Cells
    BY <2>1, Places
  <2>5. Begin(c) + (n + 1) < Cells /\ Index(a, b) = Begin(c) + (p + 1)
    <3>1. ~(p < n /\ (Begin(c) + n) + 1 >= Cells)
      BY DEF Usual
    <3> QED
      BY <1>1, <1>2, <2>1, <2>4, <3>1, Sizes
  <2>6. c.line_y = 0 => c.line_x + (n + 1) <= TERMINAL_MAX_LINE_LEN
    <3>1. ~(c.line_y = 0 /\ (Begin(c) + n) + 1 > TERMINAL_MAX_LINE_LEN)
      BY DEF Usual
    <3> QED
      BY <1>1, <1>2, <3>1, Sizes
  <2>7. n + 1 \in Nat /\ p + 1 \in 0..(n + 1)
    BY <1>1
  <2>8. Placed(d, n + 1, p + 1)
    BY <1>1, <2>1, <2>2, <2>3, <2>5, <2>6, <2>7 DEF Placed, Is
  <2> QED
    BY <1>7, <2>3, <2>8 DEF Typed, d, next
<1> QED
  BY <1>6, <1>7

(* The rest of the line can be pasted behind a character that is inserted into it. *)
LEMMA RestInside ==
    ASSUME NEW c, NEW n, NEW p, Placed(c, n, p), Usual(c, n, p), p < n
    PROVE  ~Outside((p + c.line_x) + 1, c.line_y, n - p)
<1>1. On(c.line_x, c.line_y) /\ n \in Nat /\ p \in 0..n
  BY DEF Placed
<1>2. /\ Begin(c) \in Nat /\ c.line_x \in Nat /\ c.line_y \in Nat
      /\ c.line_y = 0 => Begin(c) = c.line_x
      /\ c.line_y > 0 => Index(c.line_x, c.line_y - 1) = Begin(c) - VGA_WIDTH
  BY <1>1, Places DEF Begin
<1>3. CASE c.line_y = 0
  <2>1. ~((Begin(c) + n) + 1 > TERMINAL_MAX_LINE_LEN)
    BY <1>3 DEF Usual
  <2> QED
    BY <1>1, <1>2, <1>3, <2>1, Sizes DEF Outside
<1>4. CASE c.line_y > 0
  <2>1. ~((Begin(c) + n) + 1 >= Cells)
    BY DEF Usual
  <2> DEFINE m == (c.line_y - 1) * VGA_WIDTH
  <2>2. Index((p + c.line_x) + 1, c.line_y - 1) = m + ((p + c.line_x) + 1)
    BY DEF Index
  <2>3. Index(c.line_x, c.line_y - 1) = m + c.line_x
    BY DEF Index
  <2>4. m \in Nat
    <3>1. c.line_y - 1 \in Nat
      BY <1>2, <1>4
    <3> QED
      BY <3>1, Sizes, TimesNat
  <2> HIDE DEF m
  <2> QED
    BY <1>1, <1>2, <1>4, <2>1, <2>2, <2>3, <2>4, Sizes DEF Outside
<1> QED
  BY <1>2, <1>3, <1>4

-----------------------------------------------------------------------------
(* The screen *)

(* The cells of the screen, and what is typed into them. *)
IsScreen(scr) == DOMAIN scr = 0..(Cells - 1)
Letters == {"a", "A"}

(* The text s is on the screen from cell start on. *)
Shows(scr, start, s) ==
    /\ IsScreen(scr) /\ s \in Seq(Letters) /\ start \in Nat /\ start + Len(s) <= Cells
    /\ \A k \in 1..Len(s) : scr[start + k - 1] = s[k]

(* The line is copied as it is shown. *)
LEMMA CopyShows ==
    ASSUME NEW scr, NEW start, NEW s, Shows(scr, start, s)
    PROVE  vga_copy_line(scr, start, Len(s)) = s
<1>1. IsScreen(scr) /\ s \in Seq(Letters) /\ start \in Nat /\ start + Len(s) <= Cells /\ Len(s) \in Nat
  BY DEF Shows
<1>2. ASSUME NEW k \in 1..Len(s)
      PROVE  (IF start + k - 1 \in DOMAIN scr THEN scr[start + k - 1] ELSE " ") = s[k]
  <2>1. start + k - 1 \in DOMAIN scr
    BY <1>1, Sizes DEF IsScreen
  <2> QED
    BY <2>1 DEF Shows
<1>3. s = [k \in 1..Len(s) |-> s[k]]
  BY <1>1
<1> QED
  BY <1>2, <1>3 DEF vga_copy_line

(* vga_put_entry changes one cell. *)
LEMMA PutShows ==
    ASSUME NEW scr, NEW i \in Nat, NEW c, IsScreen(scr), i < Cells, NEW j \in 0..(Cells - 1)
    PROVE  /\ IsScreen(vga_put_entry(scr, i, c))
           /\ vga_put_entry(scr, i, c)[j] = IF j = i THEN c ELSE scr[j]
  BY Sizes DEF IsScreen, vga_put_entry

(* t is s with c inserted behind its first p characters. *)
IsInsertion(t, s, p, c) ==
    /\ t \in Seq(Letters) /\ Len(t) = Len(s) + 1
    /\ \A k \in 1..(Len(s) + 1) :
          t[k] = IF k < p + 1 THEN s[k] ELSE IF k = p + 1 THEN c ELSE s[k - 1]

(* What the reference line holds after an insertion. *)
LEMMA InsertFacts ==
    ASSUME NEW s \in Seq(Letters), NEW p \in 0..Len(s), NEW c \in Letters
    PROVE  IsInsertion(InsertAt(s, p, c), s, p, c)
<1> DEFINE q == p + 1
<1>1. q \in 1..(Len(s) + 1) /\ q - 1 = p
  OBVIOUS
<1>2. InsertAt(s, p, c) = With(s, q, c)
  BY <1>1 DEF InsertAt, With
<1> HIDE DEF q
<1>3. /\ With(s, q, c) \in Seq(Letters) /\ Len(With(s, q, c)) = Len(s) + 1
      /\ \A k \in 1..(Len(s) + 1) :
            With(s, q, c)[k] = IF k < q THEN s[k] ELSE IF k = q THEN c ELSE s[k - 1]
  BY <1>1, WithFacts
<1> QED
  BY <1>2, <1>3 DEF q, IsInsertion

(* What the reference line holds after a deletion. *)
LEMMA DeleteFacts ==
    ASSUME NEW s \in Seq(Letters), NEW q \in 1..Len(s)
    PROVE  /\ DeleteAt(s, q) \in Seq(Letters) /\ Len(DeleteAt(s, q)) = Len(s) - 1
           /\ \A k \in 1..(Len(s) - 1) : DeleteAt(s, q)[k] = IF k < q THEN s[k] ELSE s[k + 1]
<1>1. DeleteAt(s, q) = Without(s, q)
  BY DEF DeleteAt, Without
<1> QED
  BY <1>1, WithoutFacts

(* A character typed at the end of the line. *)
LEMMA AppendShows ==
    ASSUME NEW scr, NEW start, NEW s, Shows(scr, start, s), start + Len(s) < Cells, NEW c \in Letters
    PROVE  Shows(vga_put_entry(scr, start + Len(s), c), start, InsertAt(s, Len(s), c))
<1> DEFINE n == Len(s)
           t == InsertAt(s, n, c)
           new == vga_put_entry(scr, start + n, c)
<1>1. IsScreen(scr) /\ s \in Seq(Letters) /\ start \in Nat /\ n \in Nat /\ n \in 0..Len(s)
  BY DEF Shows
<1>2. /\ t \in Seq(Letters) /\ Len(t) = n + 1
      /\ \A k \in 1..(n + 1) : t[k] = IF k < n + 1 THEN s[k] ELSE IF k = n + 1 THEN c ELSE s[k - 1]
  <2>1. IsInsertion(t, s, n, c)
    BY <1>1, InsertFacts, Zenon
  <2> QED
    BY <2>1 DEF IsInsertion
<1>3. start + n \in Nat /\ start + n < Cells
  BY <1>1
<1>4. IsScreen(new) /\ \A j \in 0..(Cells - 1) : new[j] = IF j = start + n THEN c ELSE scr[j]
  <2>1. 0 \in 0..(Cells - 1)
    BY <1>1, <1>3, Sizes
  <2> QED
    BY <1>1, <1>3, <2>1, PutShows
<1> HIDE DEF t, new
<1>5. ASSUME NEW k \in 1..(n + 1) PROVE new[start + k - 1] = t[k]
  <2>1. start + k - 1 \in 0..(Cells - 1)
    BY <1>1, <1>3, Sizes
  <2>2. CASE k = n + 1
    <3>1. start + k - 1 = start + n
      BY <1>1, <2>2
    <3> QED
      BY <1>1, <1>2, <1>4, <2>1, <2>2, <3>1
  <2>3. CASE k # n + 1
    <3>1. start + k - 1 # start + n /\ k \in 1..n /\ k < n + 1
      BY <1>1, <2>3
    <3>2. new[start + k - 1] = scr[start + k - 1]
      BY <1>4, <2>1, <3>1
    <3>3. scr[start + k - 1] = s[k]
      BY <3>1 DEF Shows
    <3> QED
      BY <1>2, <3>1, <3>2, <3>3
  <2> QED
    BY <2>2, <2>3
<1>6. start + (n + 1) <= Cells
  BY <1>1, <1>3, Sizes
<1> QED
  BY <1>1, <1>2, <1>4, <1>5, <1>6 DEF Shows, t, new

(* A character typed inside the line: the rest moves on by one cell. *)
LEMMA InsertShows ==
    ASSUME NEW scr, NEW cur, NEW s, NEW p, Placed(cur, Len(s), p), Shows(scr, Begin(cur), s),
           p < Len(s), (Begin(cur) + Len(s)) + 1 < Cells, NEW c \in Letters
    PROVE  Shows(Inserted(scr, cur, c), Begin(cur), InsertAt(s, p, c))
<1> DEFINE n == Len(s)
           start == Begin(cur)
           t == InsertAt(s, p, c)
           rest == SubSeq(s, p + 1, n)
           put == vga_put_entry(scr, start + p, c)
           from == (start + p) + 1
           new == vga_paste_line(put, from, rest)
<1>1. IsScreen(scr) /\ s \in Seq(Letters) /\ start \in Nat /\ n \in Nat /\ p \in 0..n /\ p < n
  BY DEF Shows, Placed
<1>2. Inserted(scr, cur, c) = new
  <2>1. /\ cur.chars_ctr = n /\ cur.position_ctr = p /\ Index(cur.x, cur.y) = start + p
        /\ start = Index(cur.line_x, cur.line_y)
    BY DEF Placed, Begin
  <2>2. vga_copy_line(scr, start, n) = s
    BY CopyShows
  <2> HIDE DEF n, start
  <2> QED
    BY <2>1, <2>2 DEF Inserted
<1>3. /\ t \in Seq(Letters) /\ Len(t) = n + 1
      /\ \A k \in 1..(n + 1) : t[k] = IF k < p + 1 THEN s[k] ELSE IF k = p + 1 THEN c ELSE s[k - 1]
  <2>1. s \in Seq(Letters) /\ p \in 0..Len(s) /\ c \in Letters
    BY <1>1
  <2>2. IsInsertion(t, s, p, c)
    BY <2>1, InsertFacts, Zenon
  <2> HIDE DEF t
  <2> QED
    BY <2>2 DEF IsInsertion
<1>4. Len(rest) = n - p /\ \A k \in 1..(n - p) : rest[k] = s[p + k]
  <2>1. p + 1 \in 1..n
    BY <1>1
  <2>2. /\ Len(rest) = (n - (p + 1)) + 1
        /\ \A k \in 1..((n - (p + 1)) + 1) : rest[k] = s[((p + 1) + k) - 1]
    BY <1>1, <2>1, SubSeqProperties
  <2>3. (n - (p + 1)) + 1 = n - p /\ \A k \in 1..(n - p) : ((p + 1) + k) - 1 = p + k
    BY <1>1
  <2> QED
    BY <2>2, <2>3
<1>5. IsScreen(put) /\ \A j \in 0..(Cells - 1) : put[j] = IF j = start + p THEN c ELSE scr[j]
  <2>1. 0 \in 0..(Cells - 1) /\ start + p \in Nat /\ start + p < Cells
    BY <1>1, Sizes
  <2> QED
    BY <1>1, <2>1, PutShows
<1> HIDE DEF t, rest, put
<1>6. /\ IsScreen(new)
      /\ \A j \in 0..(Cells - 1) :
            new[j] = IF j \in from..(from + Len(rest) - 1) THEN rest[j - from + 1] ELSE put[j]
  BY <1>5 DEF vga_paste_line, IsScreen
<1> HIDE DEF new
<1>7. ASSUME NEW k \in 1..(n + 1) PROVE new[start + k - 1] = t[k]
  <2> DEFINE j == start + k - 1
  <2>1. j \in 0..(Cells - 1) /\ j \in Int
    BY <1>1, Sizes
  <2>2. CASE k < p + 1
    <3>1. ~(j \in from..(from + Len(rest) - 1)) /\ j # start + p /\ k \in 1..n
      BY <1>1, <2>2
    <3>2. new[j] = scr[j]
      BY <1>5, <1>6, <2>1, <3>1
    <3>3. scr[j] = s[k]
      BY <3>1 DEF Shows
    <3> QED
      BY <1>3, <2>2, <3>2, <3>3
  <2>3. CASE k = p + 1
    <3>1. ~(j \in from..(from + Len(rest) - 1)) /\ j = start + p
      BY <1>1, <2>3
    <3>2. new[j] = c
      BY <1>5, <1>6, <2>1, <3>1
    <3> QED
      BY <1>1, <1>3, <2>3, <3>2
  <2>4. CASE k > p + 1
    <3>1. /\ j \in from..(from + Len(rest) - 1) /\ j - from + 1 = k - (p + 1)
          /\ k - (p + 1) \in 1..(n - p) /\ p + (k - (p + 1)) = k - 1
      BY <1>1, <1>4, <2>4
    <3>2. new[j] = rest[k - (p + 1)]
      BY <1>6, <2>1, <3>1
    <3>3. rest[k - (p + 1)] = s[k - 1]
      BY <1>4, <3>1
    <3> QED
      BY <1>1, <1>3, <2>4, <3>2, <3>3
  <2>5. k < p + 1 \/ k = p + 1 \/ k > p + 1
    BY <1>1
  <2> QED
    BY <2>2, <2>3, <2>4, <2>5
<1>8. start + (n + 1) <= Cells
  BY <1>1, Sizes
<1> QED
  BY <1>1, <1>2, <1>3, <1>6, <1>7, <1>8 DEF Shows, t

(* Backspace and Delete: the rest moves back by one cell. *)
LEMMA RemoveShows ==
    ASSUME NEW scr, NEW cur, NEW s, Shows(scr, Begin(cur), s), cur.chars_ctr = Len(s),
           NEW i, NEW q \in 1..Len(s), i + 1 = q
    PROVE  Shows(Removed(scr, cur, i), Begin(cur), DeleteAt(s, q))
<1> DEFINE n == Len(s)
           start == Begin(cur)
           t == DeleteAt(s, q)
           blank == " "
           text == Append(t, blank)
           new == vga_paste_line(scr, start, text)
<1>1. IsScreen(scr) /\ s \in Seq(Letters) /\ start \in Nat /\ n \in Nat /\ q \in 1..n /\ start + n <= Cells
  BY DEF Shows
<1>2. Removed(scr, cur, i) = new
  <2>1. start = Index(cur.line_x, cur.line_y) /\ cur.chars_ctr = n
    BY DEF Begin
  <2>2. vga_copy_line(scr, start, n) = s
    BY CopyShows
  <2> HIDE DEF n, start
  <2> QED
    BY <2>1, <2>2 DEF Removed
<1>3. /\ t \in Seq(Letters) /\ Len(t) = n - 1
  BY <1>1, DeleteFacts
<1> HIDE DEF t, blank
<1>4. Len(text) = n /\ \A k \in 1..(n - 1) : text[k] = t[k]
  <2>1. t \in Seq(Letters \cup {blank}) /\ blank \in Letters \cup {blank}
    BY <1>3
  <2>2. Len(text) = Len(t) + 1 /\ \A k \in 1..Len(t) : text[k] = t[k]
    BY <2>1, AppendProperties
  <2> QED
    BY <1>1, <1>3, <2>2
<1> HIDE DEF text
<1>5. /\ IsScreen(new)
      /\ \A j \in 0..(Cells - 1) :
            new[j] = IF j \in start..(start + Len(text) - 1) THEN text[j - start + 1] ELSE scr[j]
  BY <1>1 DEF vga_paste_line, IsScreen
<1> HIDE DEF new
<1>6. ASSUME NEW k \in 1..(n - 1) PROVE new[start + k - 1] = t[k]
  <2> DEFINE j == start + k - 1
  <2>1. /\ j \in 0..(Cells - 1) /\ j \in start..(start + Len(text) - 1)
        /\ j - start + 1 = k
    <3>1. start \in Nat /\ n \in Nat /\ start + n <= Cells /\ Len(text) = n /\ Cells \in Nat
      BY <1>1, <1>4, Sizes
    <3> HIDE DEF start, n
    <3> QED
      BY <3>1
  <2> QED
    BY <1>4, <1>5, <2>1
<1>7. start + (n - 1) <= Cells
  BY <1>1, Sizes
<1> QED
  BY <1>1, <1>2, <1>3, <1>5, <1>6, <1>7 DEF Shows, t

(* A line that does not begin in the first row moves up by one row. *)
LEMMA ScrollShows ==
    ASSUME NEW scr, NEW start, NEW s, Shows(scr, start, s), start >= VGA_WIDTH
    PROVE  Shows(Scrolled(scr), start - VGA_WIDTH, s)
<1>1. IsScreen(scr) /\ s \in Seq(Letters) /\ start \in Nat /\ Len(s) \in Nat /\ start + Len(s) <= Cells
  BY DEF Shows
<1>2. start - VGA_WIDTH \in Nat /\ (start - VGA_WIDTH) + Len(s) <= Cells
  BY <1>1, Sizes
<1>3. /\ IsScreen(Scrolled(scr))
      /\ \A j \in 0..(Cells - 1) :
            Scrolled(scr)[j] = IF j + VGA_WIDTH \in 0..(Cells - 1) THEN scr[j + VGA_WIDTH] ELSE " "
  BY <1>1 DEF Scrolled, IsScreen
<1>4. ASSUME NEW k \in 1..Len(s) PROVE Scrolled(scr)[(start - VGA_WIDTH) + k - 1] = s[k]
  <2>1. /\ (start - VGA_WIDTH) + k - 1 \in 0..(Cells - 1)
        /\ ((start - VGA_WIDTH) + k - 1) + VGA_WIDTH = start + k - 1
        /\ start + k - 1 \in 0..(Cells - 1)
    BY <1>1, <1>2, Sizes
  <2>2. scr[start + k - 1] = s[k]
    BY DEF Shows
  <2> QED
    BY <1>3, <2>1, <2>2
<1> QED
  BY <1>1, <1>2, <1>3, <1>4 DEF Shows

-----------------------------------------------------------------------------
(* The inductive invariant *)

(* The user edits a line: it is shown, and the cursor is at the user's place in it. *)
OnLine(c, scr, s, p) == Placed(c, Len(s), p) /\ Shows(scr, Begin(c), s)

(* No line has begun since the last output. *)
Idle(c, scr, s, p) ==
    /\ c \in Cursors /\ On(c.x, c.y) /\ c.line_x = -1 /\ c.line_y = -1
    /\ c.position_ctr = 0 /\ c.chars_ctr = 0
    /\ IsScreen(scr) /\ s = <<>> /\ p = 0

Good == status = "running" /\ (OnLine(cursor, screen, typed, at) \/ Idle(cursor, screen, typed, at))

(* The inductive invariant: until something unusual happens, all is well. *)
TerminalInv == odd = {} => Good

(* An empty line is shown anywhere. *)
LEMMA EmptyShows ==
    ASSUME NEW scr, NEW start \in Nat, start <= Cells, IsScreen(scr)
    PROVE  Shows(scr, start, <<>>)
<1>1. <<>> \in Seq(Letters) /\ Len(<<>>) = 0
  OBVIOUS
<1> QED
  BY <1>1, Sizes DEF Shows

(* The first key of a line makes the cursor's place the beginning of the line. *)
LEMMA StartedOnLine ==
    ASSUME Good
    PROVE  OnLine(Started, screen, typed, at)
<1>1. CASE OnLine(cursor, screen, typed, at)
  <2>1. cursor.line_x \in Nat
    BY <1>1, Places DEF OnLine, Placed
  <2>2. Started = cursor
    BY <2>1 DEF Started
  <2> QED
    BY <1>1, <2>2
<1>2. CASE Idle(cursor, screen, typed, at)
  <2>1. /\ cursor \in Cursors /\ On(cursor.x, cursor.y) /\ cursor.position_ctr = 0
        /\ cursor.chars_ctr = 0 /\ IsScreen(screen) /\ typed = <<>> /\ at = 0
    BY <1>2 DEF Idle
  <2>2. Started = WithLine(cursor, cursor.x, cursor.y)
    BY <1>2 DEF Idle, Started, WithLine
  <2>3. /\ cursor.x \in Nat /\ cursor.y \in Nat /\ cursor.x < VGA_WIDTH
        /\ Index(cursor.x, cursor.y) \in Nat /\ Index(cursor.x, cursor.y) < Cells
    BY <2>1, Places
  <2>4. cursor.x \in Int /\ cursor.y \in Int
    BY <2>3
  <2>5. Is(Started, cursor.x, cursor.y, cursor.x, cursor.y, 0, 0)
    BY <2>1, <2>2, <2>4, AssignedLine
  <2> HIDE DEF Started
  <2>6. Begin(Started) = Index(cursor.x, cursor.y)
    BY <2>5 DEF Is, Begin
  <2>7. Placed(Started, 0, 0)
    <3>1. 0 \in Nat /\ 0 \in 0..0
      OBVIOUS
    <3>2. /\ Index(cursor.x, cursor.y) = Index(cursor.x, cursor.y) + 0
          /\ Index(cursor.x, cursor.y) + 0 < Cells
          /\ cursor.x + 0 <= TERMINAL_MAX_LINE_LEN
      BY <2>3, Sizes
    <3> QED
      BY <2>1, <2>5, <2>6, <3>1, <3>2 DEF Placed, Is
  <2>8. Shows(screen, Begin(Started), <<>>)
    BY <2>1, <2>3, <2>6, EmptyShows, Sizes
  <2>9. Len(<<>>) = 0
    OBVIOUS
  <2> QED
    BY <2>1, <2>7, <2>8, <2>9 DEF OnLine
<1> QED
  BY <1>1, <1>2 DEF Good

(* A step that leaves the cursor on its line keeps the invariant. *)
LEMMA OnLineGood ==
    ASSUME status' = "running", OnLine(cursor', screen', typed', at')
    PROVE  Good'
  BY DEF Good

(* Unusual things are not forgotten. *)
LEMMA NotedKept ==
    ASSUME NEW what, Noted(what), odd' = {}
    PROVE  odd = {} /\ what = {}
  BY DEF Noted

(* A printable character. *)
LEMMA PrintableStep ==
    ASSUME TerminalInv, NEW c \in Letters, printable(c), odd' = {}
    PROVE  Good'
<1> DEFINE cur == Started
           n == Len(typed)
           p == at
           start == Begin(cur)
           next == cursor_nextchar_kbd(cur)
           inner == cur.position_ctr < cur.chars_ctr
           scr == IF inner THEN Inserted(screen, cur, c)
                  ELSE vga_put_entry(screen, Index(cur.x, cur.y), c)
           outside == inner /\ \/ Outside(cur.line_x, cur.line_y, cur.chars_ctr)
                               \/ Outside(cur.position_ctr + cur.line_x + 1, cur.line_y,
                                          cur.chars_ctr - cur.position_ctr)
           ends == Index(cur.line_x, cur.line_y) + cur.chars_ctr + 1
           d == IF next.full THEN [next.cursor EXCEPT !.line_y = @ - 1] ELSE next.cursor
<1>1. /\ typed' = InsertAt(typed, at, c) /\ at' = at + 1
      /\ Noted({x \in {"edit at the bottom", "screen full", "too long from the top"} :
                    \/ x = "edit at the bottom" /\ inner /\ ends >= Cells
                    \/ x = "screen full" /\ next.full /\ cur.line_y = 0
                    \/ /\ x = "too long from the top" /\ cur.line_y = 0
                       /\ ends > TERMINAL_MAX_LINE_LEN})
      /\ ~outside => /\ screen' = IF next.full THEN Scrolled(scr) ELSE scr
                     /\ cursor' = d
                     /\ UNCHANGED status
  BY Zenon DEF printable
<1>2. /\ odd = {} /\ ~(inner /\ ends >= Cells) /\ ~(next.full /\ cur.line_y = 0)
      /\ ~(cur.line_y = 0 /\ ends > TERMINAL_MAX_LINE_LEN)
  <2>1. /\ odd = {}
        /\ {x \in {"edit at the bottom", "screen full", "too long from the top"} :
                    \/ x = "edit at the bottom" /\ inner /\ ends >= Cells
                    \/ x = "screen full" /\ next.full /\ cur.line_y = 0
                    \/ /\ x = "too long from the top" /\ cur.line_y = 0
                       /\ ends > TERMINAL_MAX_LINE_LEN} = {}
    BY <1>1, NotedKept, Zenon
  <2> HIDE DEF cur, next, inner, ends
  <2> QED
    BY <2>1, Zenon
<1>3. status = "running" /\ OnLine(cur, screen, typed, at)
  BY <1>2, StartedOnLine DEF TerminalInv, Good
<1>4. Placed(cur, n, p) /\ Shows(screen, start, typed)
  BY <1>3 DEF OnLine
<1>5. /\ n \in Nat /\ p \in 0..n /\ cur.chars_ctr = n /\ cur.position_ctr = p
      /\ Index(cur.x, cur.y) = start + p /\ start = Index(cur.line_x, cur.line_y)
      /\ start \in Nat /\ start + n < Cells /\ cur.line_x \in Nat
  BY <1>4, Places DEF Placed, Begin
<1> HIDE DEF cur, n, p, start
<1>6. inner <=> p < n
  BY <1>5
<1>7. ends = (start + n) + 1
  BY <1>5
<1>8. Usual(cur, n, p)
  BY <1>2, <1>5, <1>6, <1>7 DEF Usual, start
<1>9. Typed(cur, n, p)
  BY <1>4, <1>8, TypedPlaced
<1>10. ~outside
  <2> SUFFICES ASSUME p < n
               PROVE  /\ ~Outside(cur.line_x, cur.line_y, n)
                      /\ ~Outside(p + cur.line_x + 1, cur.line_y, n - p)
    BY <1>5, <1>6
  <2>1. ~Outside(cur.line_x, cur.line_y, n)
    BY <1>4, PlacedInside
  <2>2. ~Outside((p + cur.line_x) + 1, cur.line_y, n - p)
    BY <1>4, <1>8, RestInside
  <2> QED
    BY <2>1, <2>2
<1> DEFINE t == InsertAt(typed, p, c)
<1>11. Shows(scr, start, t)
  <2>1. CASE p < n
    <3>1. scr = Inserted(screen, cur, c)
      BY <1>6, <2>1
    <3>2. (start + n) + 1 < Cells
      BY <1>2, <1>5, <1>6, <1>7, <2>1, Sizes
    <3>3. Shows(Inserted(screen, cur, c), start, t)
      BY <1>4, <2>1, <3>2, InsertShows DEF start, n
    <3> QED
      BY <3>1, <3>3
  <2>2. CASE ~(p < n)
    <3>1. p = n /\ scr = vga_put_entry(screen, start + n, c)
      BY <1>5, <1>6, <2>2
    <3>2. Shows(vga_put_entry(screen, start + n, c), start, InsertAt(typed, n, c))
      BY <1>4, <1>5, AppendShows DEF n
    <3> QED
      BY <3>1, <3>2
  <2> QED
    BY <2>1, <2>2
<1> HIDE DEF scr
<1>12. Len(t) = n + 1
  <2>1. typed \in Seq(Letters) /\ p \in 0..Len(typed)
    BY <1>4, <1>5 DEF Shows, n
  <2>2. IsInsertion(t, typed, p, c)
    BY <2>1, InsertFacts, Zenon
  <2> QED
    BY <2>2 DEF IsInsertion, n
<1> HIDE DEF t
<1>13. /\ Placed(d, n + 1, p + 1)
       /\ next.full => start >= VGA_WIDTH
       /\ Begin(d) = IF next.full THEN start - VGA_WIDTH ELSE start
  BY <1>9 DEF Typed, start
<1> HIDE DEF d
<1>14. Shows(IF next.full THEN Scrolled(scr) ELSE scr, Begin(d), t)
  <2> HIDE DEF next
  <2>1. CASE next.full
    BY <1>11, <1>13, <2>1, ScrollShows
  <2>2. CASE ~next.full
    BY <1>11, <1>13, <2>2
  <2> QED
    BY <2>1, <2>2
<1>15. /\ cursor' = d /\ screen' = (IF next.full THEN Scrolled(scr) ELSE scr)
       /\ status' = "running" /\ typed' = t /\ at' = p + 1
  BY <1>1, <1>3, <1>10 DEF t, p
<1>16. OnLine(d, IF next.full THEN Scrolled(scr) ELSE scr, t, p + 1)
  BY <1>12, <1>13, <1>14 DEF OnLine
<1> HIDE DEF next
<1> QED
  BY <1>15, <1>16, OnLineGood

(* The keys that move the cursor. *)
LEMMA MoveStep ==
    ASSUME Good, NEW d, NEW q, Move(d, q), Placed(d, Len(typed), q), Begin(d) = Begin(Started)
    PROVE  Good'
<1>1. Shows(screen, Begin(d), typed)
  BY StartedOnLine DEF OnLine
<1>2. OnLine(d, screen, typed, q)
  BY <1>1 DEF OnLine
<1>3. cursor' = d /\ at' = q /\ screen' = screen /\ typed' = typed /\ status' = "running"
  BY DEF Move, Good
<1> QED
  BY <1>2, <1>3, OnLineGood

(* The arrow keys, home and end. *)
LEMMA MoveKeysStep ==
    ASSUME TerminalInv, arrow_left \/ home \/ arrow_right \/ end_key, odd' = {}
    PROVE  Good'
<1> DEFINE cur == Started
           n == Len(typed)
<1>1. odd = {}
  BY NotedKept DEF arrow_left, home, arrow_right, end_key
<1>2. Good
  BY <1>1 DEF TerminalInv
<1>3. Placed(cur, n, at)
  BY <1>2, StartedOnLine DEF OnLine
<1>4. cur \in Cursors
  BY <1>3 DEF Placed
<1> HIDE DEF cur, n
<1>5. CASE arrow_left
  <2> DEFINE q == IF at = 0 THEN 0 ELSE at - 1
  <2>1. Move(cursor_left(cur), q)
    BY <1>5 DEF arrow_left, cur
  <2>2. Placed(cursor_left(cur), n, q)
    BY <1>3, LeftPlaced
  <2> HIDE DEF q
  <2> QED
    BY <1>2, <1>4, <2>1, <2>2, BeginKept, MoveStep DEF cur, n
<1>6. CASE home
  <2>1. Move(cursor_home(cur), 0)
    BY <1>6 DEF home, cur
  <2>2. Placed(cursor_home(cur), n, 0)
    BY <1>3, HomePlaced
  <2> QED
    BY <1>2, <1>4, <2>1, <2>2, BeginKept, MoveStep DEF cur, n
<1>7. CASE arrow_right
  <2> DEFINE q == IF at = n THEN at ELSE at + 1
  <2>1. Move(cursor_right(cur), q)
    BY <1>7 DEF arrow_right, cur, n
  <2>2. q = IF at = n THEN n ELSE at + 1
    OBVIOUS
  <2> HIDE DEF q
  <2>3. Placed(cursor_right(cur), n, q)
    BY <1>3, <2>2, RightPlaced
  <2> QED
    BY <1>2, <1>4, <2>1, <2>3, BeginKept, MoveStep DEF cur, n
<1>8. CASE end_key
  <2>1. /\ Move(cursor_end(cur), n)
        /\ Noted(IF cursor_end(cur).x >= VGA_WIDTH THEN {"beyond the margin"} ELSE {})
    BY <1>8 DEF end_key, cur, n
  <2>2. ~(cursor_end(cur).x >= VGA_WIDTH)
    BY <2>1, NotedKept
  <2>3. Placed(cursor_end(cur), n, n)
    BY <1>3, <2>2, EndPlaced
  <2> QED
    BY <1>2, <1>4, <2>1, <2>3, BeginKept, MoveStep DEF cur, n
<1> QED
  BY <1>5, <1>6, <1>7, <1>8

(* Enter begins a line at the left margin. *)
LEMMA EnterStep ==
    ASSUME TerminalInv, enter, odd' = {}
    PROVE  Good'
<1> DEFINE cur == Started
           n == Len(typed)
           next == cursor_newline_kbd(cur)
           d == next.cursor
           y == IF cur.y = VGA_HEIGHT THEN cur.y ELSE cur.line_y + (cur.chars_ctr \div VGA_WIDTH) + 1
           scr == IF next.full THEN Scrolled(screen) ELSE screen
<1>1. /\ ~Outside(cur.line_x, cur.line_y, cur.chars_ctr) =>
            screen' = scr /\ cursor' = d /\ UNCHANGED status
      /\ typed' = <<>> /\ at' = 0
      /\ Noted(IF d.y > VGA_HEIGHT THEN {"entered above the bottom"} ELSE {})
  BY DEF enter
<1>2. odd = {} /\ ~(d.y > VGA_HEIGHT)
  <2> HIDE DEF d
  <2> QED
    BY <1>1, NotedKept
<1>3. status = "running" /\ Placed(cur, n, at) /\ Shows(screen, Begin(cur), typed)
  BY <1>2, StartedOnLine DEF TerminalInv, Good, OnLine
<1>4. cur.chars_ctr = n /\ n \in Nat /\ cur.y \in Nat /\ cur.line_y \in Nat
  BY <1>3, Places DEF Placed
<1>5. ~Outside(cur.line_x, cur.line_y, cur.chars_ctr)
  BY <1>3, <1>4, PlacedInside
<1>6. d = [x |-> 0, y |-> y, line_x |-> 0, line_y |-> y, position_ctr |-> 0, chars_ctr |-> 0]
  BY DEF cursor_newline_kbd, Moved
<1> HIDE DEF cur, d, n
<1>7. y \in Nat
  BY <1>4, DivMod, Sizes
<1> HIDE DEF y
<1>8. Is(d, 0, y, 0, y, 0, 0)
  BY <1>6, <1>7 DEF Is, Cursors
<1>9. On(0, y)
  BY <1>2, <1>7, <1>8, Sizes DEF On, Is
<1>10. Begin(d) = Index(0, y) /\ Index(0, y) \in Nat /\ Index(0, y) < Cells
  BY <1>8, <1>9, Places DEF Is, Begin
<1>11. Placed(d, 0, 0)
  <2>1. 0 \in Nat /\ 0 \in 0..0 /\ 0 + 0 <= TERMINAL_MAX_LINE_LEN /\ Index(0, y) = Index(0, y) + 0
    BY <1>10, Sizes
  <2> QED
    BY <1>8, <1>9, <1>10, <2>1 DEF Placed, Is
<1>12. IsScreen(scr)
  <2>1. IsScreen(screen)
    BY <1>3 DEF Shows
  <2>2. IsScreen(Scrolled(screen))
    BY <2>1 DEF Scrolled, IsScreen
  <2> QED
    BY <2>1, <2>2
<1> HIDE DEF scr
<1>13. Shows(scr, Begin(d), <<>>)
  BY <1>10, <1>12, EmptyShows, Sizes
<1>14. Len(<<>>) = 0
  OBVIOUS
<1>15. OnLine(d, scr, <<>>, 0)
  BY <1>11, <1>13, <1>14 DEF OnLine
<1>16. cursor' = d /\ screen' = scr /\ typed' = <<>> /\ at' = 0 /\ status' = "running"
  BY <1>1, <1>3, <1>5
<1> QED
  BY <1>15, <1>16, OnLineGood

(* Backspace and Delete. *)
LEMMA EraseStep ==
    ASSUME Good, NEW i, NEW q \in 1..Len(typed), i + 1 = q, NEW d, NEW r,
           Erase(Started, i, d), Placed(d, Len(typed) - 1, r), Begin(d) = Begin(Started),
           typed' = DeleteAt(typed, q), at' = r
    PROVE  Good'
<1> DEFINE cur == Started
           t == DeleteAt(typed, q)
<1>1. status = "running" /\ Placed(cur, Len(typed), at) /\ Shows(screen, Begin(cur), typed)
  BY StartedOnLine DEF Good, OnLine
<1>2. cur.chars_ctr = Len(typed) /\ typed \in Seq(Letters)
  BY <1>1 DEF Placed, Shows
<1>3. ~Outside(cur.line_x, cur.line_y, cur.chars_ctr)
  BY <1>1, <1>2, PlacedInside
<1>4. screen' = Removed(screen, cur, i) /\ cursor' = d /\ status' = "running"
  BY <1>1, <1>3 DEF Erase
<1> HIDE DEF cur
<1>5. Shows(Removed(screen, cur, i), Begin(cur), t)
  BY <1>1, <1>2, RemoveShows
<1>6. Len(t) = Len(typed) - 1
  BY <1>2, DeleteFacts
<1> HIDE DEF t
<1>7. OnLine(d, Removed(screen, cur, i), t, r)
  BY <1>5, <1>6 DEF OnLine, cur
<1>8. typed' = t
  BY DEF t
<1> QED
  BY <1>4, <1>7, <1>8, OnLineGood

(* Backspace erases the character before the cursor. *)
LEMMA BackspaceStep ==
    ASSUME TerminalInv, backspace, odd' = {}
    PROVE  Good'
<1> DEFINE cur == Started
           n == Len(typed)
           r == at - 1
           d == cursor_remove_char(cursor_left(cur))
<1>1. /\ cur.chars_ctr # 0 /\ cur.position_ctr # 0
      /\ Erase(cur, cur.position_ctr - 1, d)
      /\ typed' = (IF at = 0 THEN typed ELSE DeleteAt(typed, at))
      /\ at' = IF at = 0 THEN 0 ELSE at - 1
  BY DEF backspace
<1>2. odd = {}
  BY <1>1 DEF Erase
<1>3. Good
  BY <1>2 DEF TerminalInv
<1>4. Placed(cur, n, at)
  BY <1>3, StartedOnLine DEF OnLine
<1> HIDE DEF cur, n
<1>5. cur.position_ctr = at /\ at \in 0..n /\ n \in Nat /\ cur \in Cursors
  BY <1>4 DEF Placed
<1>6. /\ at # 0 /\ r = (IF at = 0 THEN 0 ELSE at - 1) /\ at \in 1..n /\ (at - 1) + 1 = at /\ r < n
      /\ typed' = DeleteAt(typed, at) /\ at' = r
  BY <1>1, <1>5
<1> HIDE DEF r
<1>7. Placed(cursor_left(cur), n, r)
  BY <1>4, <1>6, LeftPlaced
<1>8. Placed(d, n - 1, r)
  BY <1>6, <1>7, RemovedPlaced
<1>9. Begin(d) = Begin(cur)
  <2>1. cursor_left(cur) \in Cursors
    BY <1>7 DEF Placed
  <2>2. Begin(d) = Begin(cursor_left(cur))
    BY <2>1, BeginKept
  <2>3. Begin(cursor_left(cur)) = Begin(cur)
    BY <1>5, BeginKept
  <2> QED
    BY <2>2, <2>3
<1> HIDE DEF d
<1>10. Erase(cur, at - 1, d)
  BY <1>1, <1>5
<1> QED
  BY <1>3, <1>6, <1>8, <1>9, <1>10, EraseStep DEF cur, n

(* Delete erases the character under the cursor. *)
LEMMA DelStep ==
    ASSUME TerminalInv, del, odd' = {}
    PROVE  Good'
<1> DEFINE cur == Started
           n == Len(typed)
           q == at + 1
           d == cursor_remove_char(cur)
<1>1. /\ cur.chars_ctr # 0 /\ cur.chars_ctr # cur.position_ctr
      /\ Erase(cur, cur.position_ctr, d)
      /\ typed' = (IF at = Len(typed) THEN typed ELSE DeleteAt(typed, at + 1))
      /\ at' = at
  BY DEF del
<1>2. odd = {}
  BY <1>1 DEF Erase
<1>3. Good
  BY <1>2 DEF TerminalInv
<1>4. Placed(cur, n, at)
  BY <1>3, StartedOnLine DEF OnLine
<1> HIDE DEF cur
<1>5. cur.position_ctr = at /\ cur.chars_ctr = n /\ at \in 0..n /\ n \in Nat /\ cur \in Cursors
  BY <1>4 DEF Placed
<1>6. at < n /\ q \in 1..n /\ at + 1 = q /\ typed' = DeleteAt(typed, q)
  BY <1>1, <1>5
<1> HIDE DEF q, n
<1>7. Placed(d, n - 1, at)
  BY <1>4, <1>6, RemovedPlaced
<1>8. Begin(d) = Begin(cur)
  BY <1>5, BeginKept
<1> HIDE DEF d
<1>9. Erase(cur, at, d)
  BY <1>1, <1>5
<1> QED
  BY <1>1, <1>3, <1>6, <1>7, <1>8, <1>9, EraseStep DEF cur, n

(* While nothing is typed the line has no characters. *)
LEMMA EmptyLine ==
    ASSUME Good, typed = <<>>
    PROVE  /\ cursor \in Cursors /\ On(cursor.x, cursor.y) /\ IsScreen(screen) /\ at = 0
           /\ cursor.position_ctr = 0 /\ cursor.chars_ctr = 0 /\ status = "running"
<1>1. CASE OnLine(cursor, screen, typed, at)
  <2>1. Len(<<>>) = 0
    OBVIOUS
  <2>2. Placed(cursor, 0, at) /\ IsScreen(screen)
    BY <1>1, <2>1 DEF OnLine, Shows
  <2> QED
    BY <2>2 DEF Placed, Good
<1>2. CASE Idle(cursor, screen, typed, at)
  BY <1>2 DEF Idle, Good
<1> QED
  BY <1>1, <1>2 DEF Good

(* Output ends the line in progress, which is empty when nothing unusual happens. *)
LEMMA PutcharStep ==
    ASSUME TerminalInv, NEW c, putchar(c), odd' = {}
    PROVE  Good'
<1> DEFINE next == IF c = "NL" THEN cursor_newline(cursor) ELSE cursor_nextchar(cursor)
           scr == IF c = "NL" THEN screen ELSE vga_put_entry(screen, CursorIndex, c)
           d == [next.cursor EXCEPT !.line_x = -1, !.line_y = -1]
           new == IF next.full THEN Scrolled(scr) ELSE scr
<1>1. /\ screen' = new /\ cursor' = d
      /\ Noted(IF typed # <<>> THEN {"output while typing"} ELSE {})
      /\ typed' = typed /\ at' = at /\ status' = status
  BY DEF putchar
<1>2. odd = {} /\ typed = <<>>
  BY <1>1, NotedKept
<1>3. /\ cursor \in Cursors /\ On(cursor.x, cursor.y) /\ IsScreen(screen) /\ at = 0
      /\ cursor.position_ctr = 0 /\ cursor.chars_ctr = 0 /\ status = "running"
  BY <1>2, EmptyLine DEF TerminalInv
<1>4. PICK a, b : On(a, b) /\ Is(next.cursor, a, b, cursor.line_x, cursor.line_y, 0, 0)
  <2>1. CASE c = "NL"
    <3>1. cursor.x \in Nat /\ cursor.y \in Nat /\ cursor.y <= VGA_HEIGHT
      BY <1>3, Places
    <3>2. next = cursor_newline(cursor)
      BY <2>1
    <3>3. CASE cursor.y = VGA_HEIGHT
      <4>1. next.cursor = WithX(cursor, 0) /\ 0 \in Int
        BY <3>2, <3>3 DEF cursor_newline, Moved, WithX
      <4> HIDE DEF next
      <4>2. Is(next.cursor, 0, cursor.y, cursor.line_x, cursor.line_y, 0, 0)
        BY <1>3, <4>1, AssignedX
      <4>3. On(0, cursor.y)
        BY <3>1, Sizes DEF On
      <4> QED
        BY <4>2, <4>3
    <3>4. CASE cursor.y # VGA_HEIGHT
      <4>1. next.cursor = WithXY(cursor, 0, cursor.y + 1) /\ 0 \in Int /\ cursor.y + 1 \in Int
        BY <3>1, <3>2, <3>4 DEF cursor_newline, Moved, WithXY
      <4> HIDE DEF next
      <4>2. Is(next.cursor, 0, cursor.y + 1, cursor.line_x, cursor.line_y, 0, 0)
        BY <1>3, <4>1, AssignedXY
      <4>3. On(0, cursor.y + 1)
        BY <3>1, <3>4, Sizes DEF On
      <4> QED
        BY <4>2, <4>3
    <3> QED
      BY <3>3, <3>4
  <2>2. CASE c # "NL"
    <3>1. next = cursor_nextchar(cursor)
      BY <2>2
    <3> HIDE DEF next
    <3>2. On(0, VGA_HEIGHT)
      BY Sizes DEF On
    <3> QED
      BY <1>3, <3>1, <3>2, NextOn
  <2> QED
    BY <2>1, <2>2
<1> HIDE DEF next
<1>5. Is(d, a, b, -1, -1, 0, 0)
  <2>1. next.cursor \in Cursors /\ -1 \in Int /\ d = WithLine(next.cursor, -1, -1)
    BY <1>4 DEF Is, WithLine
  <2>2. Is(WithLine(next.cursor, -1, -1), next.cursor.x, next.cursor.y, -1, -1,
           next.cursor.position_ctr, next.cursor.chars_ctr)
    BY <2>1, AssignedLine
  <2> HIDE DEF d
  <2> QED
    BY <1>4, <2>1, <2>2 DEF Is
<1> HIDE DEF d
<1>6. IsScreen(new)
  <2>1. CursorIndex \in Nat /\ CursorIndex < Cells /\ 0 \in 0..(Cells - 1)
    BY <1>3, Places, Sizes DEF CursorIndex
  <2>2. IsScreen(vga_put_entry(screen, CursorIndex, c))
    BY <1>3, <2>1, PutShows
  <2>3. IsScreen(scr)
    BY <1>3, <2>2
  <2> HIDE DEF scr
  <2>4. IsScreen(Scrolled(scr))
    BY <2>3 DEF Scrolled, IsScreen
  <2> QED
    BY <2>3, <2>4
<1> HIDE DEF new
<1>7. Idle(d, new, <<>>, 0)
  BY <1>4, <1>5, <1>6 DEF Idle, Is
<1> QED
  BY <1>1, <1>2, <1>3, <1>7 DEF Good

(* Output through the terminal's commands. *)
LEMMA CommandStep ==
    ASSUME TerminalInv, NEW c, command(c), odd' = {}
    PROVE  Good'
<1> DEFINE clears == c = "END" /\ Len(command_buff) # COMM_LEN /\ IsClear
<1>1. /\ clears => /\ screen' = terminal_clear(screen) /\ cursor' = cursor_setdefault
                   /\ Noted(IF typed # <<>> THEN {"output while typing"} ELSE {})
      /\ ~clears => screen' = screen /\ cursor' = cursor /\ odd' = odd
      /\ typed' = typed /\ at' = at /\ status' = status
  BY DEF command
<1>2. CASE clears
  <2>1. odd = {} /\ typed = <<>>
    BY <1>1, <1>2, NotedKept
  <2>2. IsScreen(screen) /\ at = 0 /\ status = "running"
    BY <2>1, EmptyLine DEF TerminalInv
  <2>3. IsScreen(terminal_clear(screen))
    BY <2>2 DEF terminal_clear, IsScreen
  <2>4. Is(cursor_setdefault, 0, 0, -1, -1, 0, 0) /\ On(0, 0)
    BY Sizes DEF Is, cursor_setdefault, Cursors, On
  <2>5. Idle(cursor_setdefault, terminal_clear(screen), <<>>, 0)
    BY <2>3, <2>4 DEF Idle, Is
  <2> QED
    BY <1>1, <1>2, <2>1, <2>2, <2>5 DEF Good
<1>3. CASE ~clears
  BY <1>1, <1>3 DEF TerminalInv, Good
<1> QED
  BY <1>2, <1>3

(* The terminal is in order as long as nothing unusual happens: the cursor, its
   counters and the screen agree with what the user typed (terminal.c, cursor.c,
   vga_text_mode.c), for every size of the screen and every length of the line. *)
THEOREM TerminalSafe == Spec => []TerminalInv
<1>1. Init => TerminalInv
  <2> SUFFICES ASSUME Init PROVE Good
    BY DEF TerminalInv
  <2>1. Is(cursor, 0, 0, -1, -1, 0, 0) /\ On(0, 0)
    <3>1. cursor = cursor_setdefault
      BY Zenon DEF Init
    <3> QED
      BY <3>1, Sizes DEF Is, cursor_setdefault, Cursors, On
  <2>2. IsScreen(screen) /\ typed = <<>> /\ at = 0 /\ status = "running"
    BY DEF Init, IsScreen
  <2> QED
    BY <2>1, <2>2 DEF Good, Idle, Is
<1>2. TerminalInv /\ [Next]_vars => TerminalInv'
  <2> SUFFICES ASSUME TerminalInv, [Next]_vars, odd' = {} PROVE Good'
    BY DEF TerminalInv
  <2>1. CASE letter
    <3> DEFINE c == IF shift_hold \/ capslock_on THEN "A" ELSE "a"
    <3>1. printable(c) /\ c \in Letters
      BY <2>1 DEF letter, Letters
    <3> HIDE DEF c
    <3> QED
      BY <3>1, PrintableStep
  <2>2. CASE modifier
    BY <2>2 DEF modifier, TerminalInv, Good
  <2>3. CASE arrow_left \/ home \/ arrow_right \/ end_key
    BY <2>3, MoveKeysStep
  <2>4. CASE enter
    BY <2>4, EnterStep
  <2>5. CASE backspace
    BY <2>5, BackspaceStep
  <2>6. CASE del
    BY <2>6, DelStep
  <2>7. ASSUME NEW c, command(c) PROVE Good'
    BY <2>7, CommandStep
  <2>8. ASSUME NEW c, putchar(c) PROVE Good'
    BY <2>8, PutcharStep
  <2>9. CASE UNCHANGED vars
    BY <2>9 DEF vars, TerminalInv, Good
  <2> QED
    BY <2>1, <2>2, <2>3, <2>4, <2>5, <2>6, <2>7, <2>8, <2>9 DEF Next
<1> QED
  BY <1>1, <1>2, PTL DEF Spec

(* What Enter copies from the screen for the reader of stdin is what the user
   typed and edited (_terminal_insert_into_inputline, _terminal_remove_from_inputline,
   _terminal_scroll). *)
THEOREM LineExactSafe == Spec => []LineExact
<1>1. TerminalInv => LineExact
  <2> SUFFICES ASSUME Good
               PROVE  /\ cursor.chars_ctr = Len(typed)
                      /\ cursor.position_ctr = at
                      /\ InProgress => vga_copy_line(screen, LineStart, cursor.chars_ctr) = typed
    BY DEF TerminalInv, LineExact
  <2>1. CASE OnLine(cursor, screen, typed, at)
    <3>1. /\ cursor.chars_ctr = Len(typed) /\ cursor.position_ctr = at
          /\ Shows(screen, LineStart, typed)
      BY <2>1 DEF OnLine, Placed, Begin, LineStart
    <3> QED
      BY <3>1, CopyShows
  <2>2. CASE Idle(cursor, screen, typed, at)
    <3>1. Len(<<>>) = 0
      OBVIOUS
    <3> QED
      BY <2>2, <3>1 DEF Idle, InProgress
  <2> QED
    BY <2>1, <2>2 DEF Good
<1> QED
  BY <1>1, TerminalSafe, PTL

(* The cursor stays on the screen and at its place in the line, and no key makes
   the terminal panic (cursor.c; the tests of vga_copy_line and vga_paste_line). *)
THEOREM CursorTracksSafe == Spec => []CursorTracks
<1>1. TerminalInv => CursorTracks
  <2> SUFFICES ASSUME Good
               PROVE  /\ status = "running"
                      /\ CursorIndex \in DOMAIN screen
                      /\ InProgress => CursorIndex = LineStart + cursor.position_ctr
    BY DEF TerminalInv, CursorTracks
  <2>1. CASE OnLine(cursor, screen, typed, at)
    <3>1. /\ On(cursor.x, cursor.y) /\ IsScreen(screen)
          /\ CursorIndex = LineStart + cursor.position_ctr
      BY <2>1 DEF OnLine, Placed, Shows, Begin, LineStart, CursorIndex
    <3>2. CursorIndex \in 0..(Cells - 1)
      BY <3>1, Places, Sizes DEF CursorIndex
    <3> QED
      BY <3>1, <3>2 DEF Good, IsScreen
  <2>2. CASE Idle(cursor, screen, typed, at)
    <3>1. On(cursor.x, cursor.y) /\ IsScreen(screen) /\ ~InProgress
      BY <2>2 DEF Idle, InProgress
    <3>2. CursorIndex \in 0..(Cells - 1)
      BY <3>1, Places, Sizes DEF CursorIndex
    <3> QED
      BY <3>1, <3>2 DEF Good, IsScreen
  <2> QED
    BY <2>1, <2>2 DEF Good
<1> QED
  BY <1>1, TerminalSafe, PTL
=============================================================================
