------------------------------ MODULE Terminal ------------------------------
(***************************************************************************)
(* The terminal: dev/terminal/terminal.c, cursor.c and vga_text_mode.c, and *)
(* the keyboard driver dev/keyboard/keyboard.c.  The line a user edits is   *)
(* kept nowhere but on the screen; Enter copies it from there for the task  *)
(* that reads stdin.                                                       *)
(*                                                                         *)
(* The screen has rows 0..VGA_HEIGHT.  Cells outside it are not visible:   *)
(* writing them changes nothing here.  Colours and the hardware cursor are *)
(* left out.  Coordinates are integers; -1 is the size_t the code writes   *)
(* as -1.  Interrupts are off in the keyboard's handler and in write: one  *)
(* action for each key and for each character of output.                   *)
(*                                                                         *)
(* `typed' and `at' record what the user has typed and where the user is   *)
(* in it; `odd' which unusual things have happened.                        *)
(***************************************************************************)
EXTENDS Integers, Sequences, FiniteSets

CONSTANTS
    VGA_WIDTH, VGA_HEIGHT,
    COMM_LEN,
    MaxTyped,           \* longest line explored
    MaxOdd              \* how many kinds of unusual things are explored together

ASSUME TerminalAssumption ==
    /\ VGA_WIDTH \in Nat \ {0} /\ VGA_HEIGHT \in Nat \ {0}
    /\ COMM_LEN \in Nat /\ COMM_LEN >= 2

VARIABLES
    screen,
    cursor,
    command_buff,       \* its length is command_idx
    shift_hold, capslock_on,
    typed, at,
    odd,
    status              \* running or panic

vars == <<screen, cursor, command_buff, shift_hold, capslock_on, typed, at, odd, status>>
keyboard == <<shift_hold, capslock_on>>

Cells == VGA_WIDTH * (VGA_HEIGHT + 1)
TERMINAL_MAX_LINE_LEN == VGA_WIDTH * VGA_HEIGHT

Index(x, y) == y * VGA_WIDTH + x
CursorIndex == Index(cursor.x, cursor.y)
LineStart == Index(cursor.line_x, cursor.line_y)

(***************************************************************************)
(* vga_text_mode.c.                                                        *)
(***************************************************************************)
vga_put_entry(scr, i, c) == IF i \in DOMAIN scr THEN [scr EXCEPT ![i] = c] ELSE scr

(* _terminal_scroll. *)
Scrolled(scr) ==
    [i \in DOMAIN scr |-> IF i + VGA_WIDTH \in DOMAIN scr THEN scr[i + VGA_WIDTH] ELSE " "]

(* The test of vga_copy_line and vga_paste_line, which makes the terminal panic. *)
Outside(x, y, len) ==
    (IF y > 0 THEN Index(x, y - 1) ELSE x) + len > TERMINAL_MAX_LINE_LEN

(* The text that vga_copy_line copies. *)
vga_copy_line(scr, i, len) ==
    [k \in 1..len |-> IF i + k - 1 \in DOMAIN scr THEN scr[i + k - 1] ELSE " "]

vga_paste_line(scr, i, text) ==
    [j \in DOMAIN scr |-> IF j \in i..(i + Len(text) - 1) THEN text[j - i + 1] ELSE scr[j]]

(***************************************************************************)
(* cursor.c.  A function that may ask for a scroll returns it in `full'.   *)
(***************************************************************************)
cursor_setdefault ==
    [x |-> 0, y |-> 0, line_x |-> -1, line_y |-> -1, position_ctr |-> 0, chars_ctr |-> 0]

Moved(c, full) == [cursor |-> c, full |-> full]

cursor_newline(c) ==
    IF c.y = VGA_HEIGHT THEN Moved([c EXCEPT !.x = 0], TRUE)
    ELSE Moved([c EXCEPT !.x = 0, !.y = @ + 1], FALSE)

(* The rows of the line are counted as if it began at the left margin. *)
cursor_newline_kbd(c) ==
    LET y == IF c.y = VGA_HEIGHT THEN c.y ELSE c.line_y + (c.chars_ctr \div VGA_WIDTH) + 1
    IN Moved([x |-> 0, y |-> y, line_x |-> 0, line_y |-> y, position_ctr |-> 0, chars_ctr |-> 0],
             c.y = VGA_HEIGHT)

mut_cursor_nextchar(c) ==
    IF c.x = VGA_WIDTH THEN cursor_newline(c) ELSE Moved([c EXCEPT !.x = @ + 1], FALSE)

cursor_nextchar(c) ==
    IF c.x = VGA_WIDTH - 1 THEN cursor_newline(c) ELSE Moved([c EXCEPT !.x = @ + 1], FALSE)

cursor_nextchar_kbd(c) ==
    cursor_nextchar([c EXCEPT !.chars_ctr = @ + 1, !.position_ctr = @ + 1])

cursor_home(c) ==
    IF c.position_ctr = 0 THEN c
    ELSE [c EXCEPT !.x = c.line_x, !.y = c.line_y, !.position_ctr = 0]

cursor_left(c) ==
    IF c.position_ctr = 0 THEN c
    ELSE IF c.x = 0 /\ c.y > 0
    THEN [c EXCEPT !.x = VGA_WIDTH - 1, !.y = @ - 1, !.position_ctr = @ - 1]
    ELSE [c EXCEPT !.x = @ - 1, !.position_ctr = @ - 1]

(* END does not wrap at the right margin. *)
cursor_end(c) ==
    IF c.position_ctr = c.chars_ctr THEN c
    ELSE [c EXCEPT !.x = c.line_x + (c.chars_ctr % VGA_WIDTH),
                   !.y = c.line_y + (c.chars_ctr \div VGA_WIDTH),
                   !.position_ctr = c.chars_ctr]

cursor_right(c) ==
    IF c.position_ctr = c.chars_ctr THEN c
    ELSE IF c.x = VGA_WIDTH - 1
    THEN [c EXCEPT !.x = 0, !.y = @ + 1, !.position_ctr = @ + 1]
    ELSE [c EXCEPT !.x = @ + 1, !.position_ctr = @ + 1]

cursor_remove_char(c) ==
    LET left == IF c.chars_ctr > 0 THEN c.chars_ctr - 1 ELSE 0
    IN [c EXCEPT !.chars_ctr = left, !.position_ctr = IF @ > left THEN left ELSE @]

(***************************************************************************)
(* terminal.c and keyboard.c.                                              *)
(***************************************************************************)
Init ==
    /\ screen = [i \in 0..(Cells - 1) |-> " "]
    /\ cursor = cursor_setdefault
    /\ command_buff = <<>>
    /\ shift_hold = FALSE /\ capslock_on = FALSE
    /\ typed = <<>> /\ at = 0
    /\ odd = {}
    /\ status = "running"

Noted(what) == odd' = odd \cup what

(* The first key of a line sets where the line begins. *)
Started ==
    IF cursor.line_x = -1 /\ cursor.line_y = -1
    THEN [cursor EXCEPT !.line_x = cursor.x, !.line_y = cursor.y]
    ELSE cursor

InsertAt(s, i, c) == SubSeq(s, 1, i) \o <<c>> \o SubSeq(s, i + 1, Len(s))
DeleteAt(s, i) == SubSeq(s, 1, i - 1) \o SubSeq(s, i + 1, Len(s))

mut_Inserted(scr, cur, c) ==
    vga_put_entry(scr, Index(cur.x, cur.y), c)

(* _terminal_insert_into_inputline. *)
Inserted(scr, cur, c) ==
    LET start == Index(cur.line_x, cur.line_y)
        line == vga_copy_line(scr, start, cur.chars_ctr)
    IN vga_paste_line(vga_put_entry(scr, Index(cur.x, cur.y), c),
                      start + cur.position_ctr + 1,
                      SubSeq(line, cur.position_ctr + 1, cur.chars_ctr))

(* The user types a printable character. *)
printable(c) ==
    LET cur == Started
        inner == cur.position_ctr < cur.chars_ctr
        next == cursor_nextchar_kbd(cur)
        scr == IF inner THEN Inserted(screen, cur, c)
               ELSE vga_put_entry(screen, Index(cur.x, cur.y), c)
        outside == inner /\ \/ Outside(cur.line_x, cur.line_y, cur.chars_ctr)
                            \/ Outside(cur.position_ctr + cur.line_x + 1, cur.line_y,
                                       cur.chars_ctr - cur.position_ctr)
        ends == Index(cur.line_x, cur.line_y) + cur.chars_ctr + 1
    IN /\ Len(typed) < MaxTyped
       /\ typed' = InsertAt(typed, at, c)
       /\ at' = at + 1
       /\ Noted({x \in {"edit at the bottom", "screen full", "too long from the top"} :
                    \/ x = "edit at the bottom" /\ inner /\ ends >= Cells
                    \/ x = "screen full" /\ next.full /\ cur.line_y = 0
                    \/ /\ x = "too long from the top" /\ cur.line_y = 0
                       /\ ends > TERMINAL_MAX_LINE_LEN})
       /\ IF outside
          THEN status' = "panic" /\ UNCHANGED <<screen, cursor>>
          ELSE /\ screen' = IF next.full THEN Scrolled(scr) ELSE scr
               /\ cursor' = IF next.full THEN [next.cursor EXCEPT !.line_y = @ - 1] ELSE next.cursor
               /\ UNCHANGED status
       /\ UNCHANGED <<command_buff, keyboard>>

(* The keys that only move the cursor. *)
Move(new, to) ==
    /\ cursor' = new
    /\ at' = to
    /\ UNCHANGED <<screen, command_buff, keyboard, typed, status>>

arrow_left == Move(cursor_left(Started), IF at = 0 THEN 0 ELSE at - 1) /\ UNCHANGED odd
home == Move(cursor_home(Started), 0) /\ UNCHANGED odd
arrow_right == Move(cursor_right(Started), IF at = Len(typed) THEN at ELSE at + 1) /\ UNCHANGED odd
end_key ==
    /\ Move(cursor_end(Started), Len(typed))
    /\ Noted(IF cursor_end(Started).x >= VGA_WIDTH THEN {"beyond the margin"} ELSE {})

(* Enter copies the line from the screen, which must be what was typed, and
   passes it to dev_stdin_recall (see Tasks). *)
enter ==
    LET cur == Started
        next == cursor_newline_kbd(cur)
    IN /\ IF Outside(cur.line_x, cur.line_y, cur.chars_ctr)
          THEN status' = "panic" /\ UNCHANGED <<screen, cursor>>
          ELSE /\ screen' = IF next.full THEN Scrolled(screen) ELSE screen
               /\ cursor' = next.cursor
               /\ UNCHANGED status
       /\ typed' = <<>> /\ at' = 0
       /\ Noted(IF next.cursor.y > VGA_HEIGHT THEN {"entered above the bottom"} ELSE {})
       /\ UNCHANGED <<command_buff, keyboard>>

(* _terminal_remove_from_inputline: the rest moves up, a space follows. *)
Removed(scr, cur, i) ==
    LET start == Index(cur.line_x, cur.line_y)
        line == vga_copy_line(scr, start, cur.chars_ctr)
    IN vga_paste_line(scr, start, Append(DeleteAt(line, i + 1), " "))

Erase(cur, i, after) ==
    /\ IF Outside(cur.line_x, cur.line_y, cur.chars_ctr)
       THEN status' = "panic" /\ UNCHANGED <<screen, cursor>>
       ELSE /\ screen' = Removed(screen, cur, i)
            /\ cursor' = after
            /\ UNCHANGED status
    /\ UNCHANGED <<command_buff, keyboard, odd>>

backspace ==
    LET cur == Started IN
    /\ cur.chars_ctr # 0 /\ cur.position_ctr # 0
    /\ Erase(cur, cur.position_ctr - 1, cursor_remove_char(cursor_left(cur)))
    /\ typed' = (IF at = 0 THEN typed ELSE DeleteAt(typed, at))
    /\ at' = IF at = 0 THEN 0 ELSE at - 1

del ==
    LET cur == Started IN
    /\ cur.chars_ctr # 0 /\ cur.chars_ctr # cur.position_ctr
    /\ Erase(cur, cur.position_ctr, cursor_remove_char(cur))
    /\ typed' = (IF at = Len(typed) THEN typed ELSE DeleteAt(typed, at + 1))
    /\ UNCHANGED at

(* keyboard_isr: the one key of the keyboard that has two faces. *)
letter == printable(IF shift_hold \/ capslock_on THEN "A" ELSE "a")

modifier ==
    /\ \/ shift_hold' = ~shift_hold /\ UNCHANGED capslock_on
       \/ capslock_on' = ~capslock_on /\ UNCHANGED shift_hold
    /\ UNCHANGED <<screen, cursor, command_buff, typed, at, odd, status>>

(* terminal_clear leaves the last row as it is. *)
terminal_clear(scr) ==
    [i \in DOMAIN scr |-> IF i < VGA_WIDTH * VGA_HEIGHT THEN " " ELSE scr[i]]

(* _terminal_execute_command knows one command. *)
IsClear == Len(command_buff) > 1 /\ command_buff[2] = "CLR"

(* terminal_putchar while a command is read, or at its start. *)
command(c) ==
    LET full == Len(command_buff) = COMM_LEN
    IN /\ c = "START" \/ command_buff # <<>>
       /\ command_buff' = IF full \/ c = "END" THEN <<>> ELSE Append(command_buff, c)
       /\ IF c = "END" /\ ~full /\ IsClear
          THEN /\ screen' = terminal_clear(screen)
               /\ cursor' = cursor_setdefault
               /\ Noted(IF typed # <<>> THEN {"output while typing"} ELSE {})
          ELSE UNCHANGED <<screen, cursor, odd>>
       /\ UNCHANGED <<keyboard, typed, at, status>>

(* terminal_putchar of text: the line in progress loses its beginning. *)
putchar(c) ==
    LET next == IF c = "NL" THEN cursor_newline(cursor) ELSE cursor_nextchar(cursor)
        scr == IF c = "NL" THEN screen ELSE vga_put_entry(screen, CursorIndex, c)
    IN /\ c \in {"x", "NL"} /\ command_buff = <<>>
       /\ screen' = IF next.full THEN Scrolled(scr) ELSE scr
       /\ cursor' = [next.cursor EXCEPT !.line_x = -1, !.line_y = -1]
       /\ Noted(IF typed # <<>> THEN {"output while typing"} ELSE {})
       /\ UNCHANGED <<command_buff, keyboard, typed, at, status>>

Next ==
    /\ status = "running"
    /\ \/ letter \/ modifier
       \/ arrow_left \/ home \/ arrow_right \/ end_key
       \/ enter \/ backspace \/ del
       \/ \E c \in {"x", "NL", "START", "CLR", "END"} : command(c) \/ putchar(c)
    /\ Cardinality(odd') <= MaxOdd

Spec == Init /\ [][Next]_vars

(***************************************************************************)
(* Properties.                                                             *)
(***************************************************************************)
InProgress == cursor.line_x # -1

(* What Enter would hand to the reader is what the user has typed and edited,
   across rows and scrolling, unless one of the things in `odd' has happened:
   output while typing, an insertion in a line that ends in the last cell, a line
   that fills the screen or, from its first row, the buffer, END beyond the right
   margin, Enter from a higher row of a line that reaches the bottom. *)
LineExact ==
    odd = {} =>
        /\ cursor.chars_ctr = Len(typed)
        /\ cursor.position_ctr = at
        /\ InProgress => vga_copy_line(screen, LineStart, cursor.chars_ctr) = typed

(* The cursor is on the screen, at its place in the line; no key makes the
   terminal panic, with the same exceptions. *)
CursorTracks ==
    odd = {} =>
        /\ status = "running"
        /\ CursorIndex \in DOMAIN screen
        /\ InProgress => CursorIndex = LineStart + cursor.position_ctr
=============================================================================
