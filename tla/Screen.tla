-------------------------------- MODULE Screen --------------------------------
(***************************************************************************)
(* The screen: a thread that prints (printk in libs/printk.c, vga_putc and *)
(* its callers in libs/vga_basic.c) and the keyboard interrupt, which      *)
(* writes to the same screen through aput_char of kernel/print.S and, for  *)
(* an unknown key, through put_str.                                        *)
(*                                                                         *)
(* The console lock leaves one printing thread at a time, but does not     *)
(* keep the keyboard handler out: printing runs with interrupts enabled,   *)
(* and the handler, which runs with interrupts disabled, comes between any *)
(* two steps.  There are two cursors, cursor_x and cursor_y in memory and  *)
(* the VGA's registers 14 and 15; aput_char knows only the latter.         *)
(***************************************************************************)
EXTENDS Printk

CONSTANTS
  Cols, Rows,   \* 80 and 25
  Byte,         \* values of a VGA register (256)
  Messages,     \* the calls of printk that the thread makes
  Unknown,      \* the text for an unknown key
  Key,          \* the kinds of keys of keymap that are pressed
  MaxKeys       \* bound on them (63: then the handler's queue is full, and the
                \* handler does not echo any more)

ASSUME ScreenAssumption ==
  /\ Cols \in 2..255 /\ Rows \in 2..255
  /\ Byte \in Nat /\ Cols * Rows <= Byte * Byte
  /\ Messages \subseteq Calls
  /\ Key \subseteq {"other", "enter", "backspace"}
  /\ MaxKeys \in Nat

VARIABLES
  pc,                  \* the printing thread's next step
  staticArry,          \* printk's static buffer
  probe,               \* kputs_color's pointer into it
  todo,                \* <<character, times>> that kputc_color has left to do
  cursor_x, cursor_y,
  cursorLocation,      \* the local variable of vga_putc and of move_cursor
  uprolling,           \* move_cursor was called by screen_uproll_once
  video,               \* the characters on the screen
  index,               \* the VGA register that port 0x3D4 has selected
  register,            \* the VGA registers 14 and 15
  keys,                \* how many keys were pressed
  faulted,             \* a #GP in the handler has stopped the system
  printed,             \* history: what was printed and has not been scrolled away
  gap,                 \* history: blank cells that rolls of aput_char have opened
                       \* between its end and where the next character goes
  overwritten,         \* history: cells that aput_char has changed since
  disturbed            \* history: a key came since the last vga_putc began

printVars == <<staticArry, probe, todo>>
cursorVars == <<cursor_x, cursor_y>>
vgaVars == <<index, register>>
screenVars == <<video, printed, gap, overwritten>>
inputVars == <<keys, faulted, disturbed>>
vars == <<pc, printVars, cursorVars, cursorLocation, uprolling, screenVars,
          vgaVars, inputVars>>

Cells == Cols * Rows
Cell == 0..(Cells - 1)

tab_length == 4
Goto(from, to) == pc = from /\ pc' = to /\ ~faulted

\* The VGA registers when the cursor is at place.
bytes(place) == [r \in {14, 15} |-> IF r = 14 THEN place \div Byte ELSE place % Byte]

-----------------------------------------------------------------------------
\* State after the messages of main and init_all, which fill whole lines, when
\* intr_enable lets the keyboard in: their text counts as blank.
ScreenInit ==
  /\ pc = "idle"
  /\ staticArry = <<"NUL">> /\ probe = 1 /\ todo = <<"NUL", 0>>
  /\ cursor_x = 0 /\ cursor_y \in 1..(Rows - 1)
  /\ cursorLocation = cursor_y * Cols
  /\ uprolling = FALSE
  /\ video = [i \in Cell |-> "NUL"]
  /\ index = 15
  /\ register = bytes(cursorLocation)
  /\ keys = 0 /\ faulted = FALSE
  /\ printed = [i \in 1..cursorLocation |-> "NUL"]
  /\ gap = 0 /\ overwritten = {} /\ disturbed = FALSE

\* console_put_str and its like, inside the lock: printk up to kputs.  (What
\* the buffer held behind the text's '\0' is never read.)
prints(call) ==
  /\ Goto("idle", "next")
  /\ staticArry' = Append(printk(call[1], call[2]), "NUL")
  /\ probe' = 1
  /\ UNCHANGED <<todo, cursorVars, cursorLocation, uprolling, screenVars, vgaVars,
                 inputVars>>

\* What kputc_color makes of a character, the cursor being in column x.
putcs(char, x) ==
  CASE char = "TAB" -> <<"NUL", tab_length>>
    [] char = "NL"  -> <<"NUL", IF x = Cols THEN Cols ELSE Cols - x>>
    [] OTHER        -> <<char, 1>>

\* The loop of kputs_color and the switch of kputc_color.
kputc_color ==
  LET char == staticArry[probe]
  IN  /\ Goto("next", IF char = "NUL" THEN "idle" ELSE "putc")
      /\ IF char = "NUL" THEN UNCHANGED <<probe, todo>>
         ELSE probe' = probe + 1 /\ todo' = putcs(char, cursor_x)
      /\ UNCHANGED <<staticArry, cursorVars, cursorLocation, uprolling, screenVars,
                     vgaVars, inputVars>>

\* The loops of kputc_color, and the start of vga_putc.
vga_putc ==
  /\ Goto("putc", IF todo[2] = 0 THEN "next" ELSE "store")
  /\ IF todo[2] = 0 THEN UNCHANGED <<todo, cursorLocation, disturbed>>
     ELSE /\ todo' = <<todo[1], todo[2] - 1>>
          /\ cursorLocation' = cursor_y * Cols + cursor_x
          /\ disturbed' = FALSE
  /\ UNCHANGED <<staticArry, probe, cursorVars, uprolling, screenVars, vgaVars,
                 keys, faulted>>

\* A store at a place behind the screen's last cell is not seen.
stored(screen, place, char) ==
  [i \in Cell |-> IF i = place THEN char ELSE screen[i]]

\* The history of a character that is stored behind a gap.
printed_on(text, blanks, char) == Append(text \o [i \in 1..blanks |-> "NUL"], char)

vga_putc_store ==
  /\ Goto("store", "test_x")
  /\ video' = stored(video, cursorLocation, todo[1])
  /\ printed' = printed_on(printed, gap, todo[1]) /\ gap' = 0
  /\ overwritten' = overwritten \ {cursorLocation}
  /\ UNCHANGED <<printVars, cursorVars, cursorLocation, uprolling, vgaVars, inputVars>>

last_column(x) == x = Cols - 1

\* Mutant: the row behind the screen counts as its last one.
last_row_Behind(y) == y = Rows

last_row(y) == y = Rows - 1

\* Mutant: cursor_y is left where screen_uproll_once has put it.
after_uproll_Kept(y) == y

\* screen_uproll_once has moved cursor_y up with the text; it is set back.
after_uproll(y) == Rows - 1

\* The tests, increments and resets of vga_putc, each a step of its own.
vga_putc_advance ==
  /\ \/ Goto("test_x", IF last_column(cursor_x) THEN "test_y" ELSE "inc_x")
          /\ UNCHANGED cursorVars
     \/ Goto("inc_x", "locate")
          /\ cursor_x' = (cursor_x + 1) % 256 /\ UNCHANGED cursor_y
     \/ Goto("test_y", IF last_row(cursor_y) THEN "uproll" ELSE "wrap_x")
          /\ UNCHANGED cursorVars
     \/ Goto("wrap_x", "inc_y")
          /\ cursor_x' = 0 /\ UNCHANGED cursor_y
     \/ Goto("inc_y", "locate")
          /\ cursor_y' = (cursor_y + 1) % 256 /\ UNCHANGED cursor_x
     \/ Goto("back_x", "back_y")
          /\ cursor_x' = 0 /\ UNCHANGED cursor_y
     \/ Goto("back_y", "locate")
          /\ cursor_y' = after_uproll(cursor_y) /\ UNCHANGED cursor_x
  /\ UNCHANGED <<printVars, cursorLocation, uprolling, screenVars, vgaVars, inputVars>>

\* Mutant: the last row keeps its text.
rolled_KeepsLastRow(screen, blank) ==
  [i \in Cell |-> IF i + Cols < Cells THEN screen[i + Cols] ELSE screen[i]]

\* The screen with its rows one up and the last one cleared.
rolled(screen, blank) ==
  [i \in Cell |-> IF i + Cols < Cells THEN screen[i + Cols] ELSE blank]

\* The histories follow a roll: the text moves up with the screen, and its end
\* away from a cursor_y that stays.
printed_rolled(text) == SubSeq(text, Cols + 1, Len(text))
gap_rolled(text, blanks) == blanks + (Len(text) - Len(printed_rolled(text)))
cells_rolled(cells) == {i - Cols : i \in {j \in cells : j >= Cols}}

\* screen_uproll_once up to its move_cursor.
screen_uproll_once ==
  /\ Goto("uproll", IF cursor_y # 0 THEN "locate" ELSE "back_x")
  /\ video' = rolled(video, "NUL")
  /\ printed' = printed_rolled(printed)
  /\ gap' = gap_rolled(printed, gap) - Cols
  /\ overwritten' = cells_rolled(overwritten)
  /\ uprolling' = (cursor_y # 0)
  /\ cursor_y' = IF cursor_y # 0 THEN cursor_y - 1 ELSE 0
  /\ UNCHANGED <<printVars, cursor_x, cursorLocation, vgaVars, inputVars>>

\* Mutant: both bytes are written without selecting the second register.
move_cursor_outb_OneIndex ==
  /\ \/ Goto("index_high", "high") /\ index' = 14 /\ UNCHANGED register
     \/ Goto("high", "index_low")
          /\ register' = [register EXCEPT ![index] = cursorLocation \div Byte]
          /\ UNCHANGED index
     \/ Goto("index_low", "low") /\ UNCHANGED vgaVars
     \/ Goto("low", IF uprolling THEN "back_x" ELSE "putc")
          /\ register' = [register EXCEPT ![index] = cursorLocation % Byte]
          /\ UNCHANGED index
  /\ uprolling' = IF pc = "low" THEN FALSE ELSE uprolling
  /\ UNCHANGED <<printVars, cursorVars, cursorLocation, screenVars, inputVars>>

\* The four outb of move_cursor, and its return.
move_cursor_outb ==
  /\ \/ Goto("index_high", "high") /\ index' = 14 /\ UNCHANGED register
     \/ Goto("high", "index_low")
          /\ register' = [register EXCEPT ![index] = cursorLocation \div Byte]
          /\ UNCHANGED index
     \/ Goto("index_low", "low") /\ index' = 15 /\ UNCHANGED register
     \/ Goto("low", IF uprolling THEN "back_x" ELSE "putc")
          /\ register' = [register EXCEPT ![index] = cursorLocation % Byte]
          /\ UNCHANGED index
  /\ uprolling' = IF pc = "low" THEN FALSE ELSE uprolling
  /\ UNCHANGED <<printVars, cursorVars, cursorLocation, screenVars, inputVars>>

move_cursor ==
  /\ Goto("locate", "index_high")
  /\ cursorLocation' = cursor_y * Cols + cursor_x
  /\ UNCHANGED <<printVars, cursorVars, uprolling, screenVars, vgaVars, inputVars>>

-----------------------------------------------------------------------------
hardware_cursor == register[14] * Byte + register[15]

\* set_cursor of print.S, reached by a jump: it leaves register 15 selected.
set_cursor(place) ==
  /\ register' = bytes(place)
  /\ index' = 15

\* .is_carriage_return and .roll_screeen: on to the next row, or all rows up
\* while cursor_y stays where it is.
next_row(screen, place, cells) ==
  LET row == place - (place % Cols) + Cols
  IN  IF row < Cells
      THEN /\ set_cursor(row)
           /\ video' = screen /\ overwritten' = cells
           /\ UNCHANGED <<printed, gap>>
      ELSE /\ set_cursor((Rows - 1) * Cols)
           /\ video' = rolled(screen, " ")
           /\ overwritten' = cells_rolled(cells) \cup ((Rows - 1) * Cols)..(Cells - 1)
           /\ printed' = printed_rolled(printed)
           /\ gap' = gap_rolled(printed, gap)

\* aput_char.  In front of the first cell lies the end of the 64 KB that bx
\* reaches, behind the limit of the video segment.
aput_char(key) ==
  LET place == hardware_cursor
  IN  CASE key = "backspace" /\ place = 0 ->
             faulted' = TRUE /\ UNCHANGED <<vgaVars, screenVars>>
        [] key = "backspace" /\ place # 0 ->
             /\ set_cursor(place - 1)
             /\ video' = stored(video, place - 1, " ")
             /\ overwritten' = overwritten \cup ({place - 1} \cap Cell)
             /\ UNCHANGED <<printed, gap, faulted>>
        [] key = "enter" ->
             next_row(video, place, overwritten) /\ UNCHANGED faulted
        [] key = "other" ->
             LET screen == stored(video, place, "key")
                 cells  == overwritten \cup ({place} \cap Cell)
             IN  /\ IF place + 1 < Cells
                    THEN /\ set_cursor(place + 1)
                         /\ video' = screen /\ overwritten' = cells
                         /\ UNCHANGED <<printed, gap>>
                    ELSE next_row(screen, place + 1, cells)
                 /\ UNCHANGED faulted

\* put_char(cur_char) in init_keyboard_handler.
key_echoed(key) ==
  /\ ~faulted /\ keys < MaxKeys
  /\ keys' = keys + 1 /\ disturbed' = TRUE
  /\ aput_char(key)
  /\ UNCHANGED <<pc, printVars, cursorVars, cursorLocation, uprolling>>

\* One vga_putc of the handler, without a step of anyone else in between.
vga_putc_whole(s, char) ==
  LET place  == s.y * Cols + s.x
      screen == stored(s.video, place, char)
      text   == printed_on(s.printed, s.gap, char)
      cells  == s.overwritten \ {place}
  IN  IF last_column(s.x) /\ last_row(s.y)
      THEN [x |-> 0, y |-> after_uproll(s.y - 1), video |-> rolled(screen, "NUL"),
            printed |-> printed_rolled(text), gap |-> gap_rolled(text, 0) - Cols,
            overwritten |-> cells_rolled(cells)]
      ELSE [x |-> IF last_column(s.x) THEN 0 ELSE (s.x + 1) % 256,
            y |-> IF last_column(s.x) THEN (s.y + 1) % 256 ELSE s.y,
            video |-> screen, printed |-> text, gap |-> 0, overwritten |-> cells]

kputc_color_whole(s, char) ==
  LET chars == putcs(char, s.x)
  IN  FoldLeft(vga_putc_whole, s, [i \in 1..chars[2] |-> chars[1]])

\* put_str("Unkown key.\n") in init_keyboard_handler: it goes through the buffer
\* that the interrupted thread may be printing, and moves both cursors.
key_unknown ==
  LET text == Append(printk(<<"%", "s">>, <<[str |-> Unknown]>>), "NUL")
      s == FoldLeft(kputc_color_whole,
             [x |-> cursor_x, y |-> cursor_y, video |-> video, printed |-> printed,
              gap |-> gap, overwritten |-> overwritten], Unknown)
  IN  /\ ~faulted /\ keys < MaxKeys
      /\ keys' = keys + 1 /\ disturbed' = TRUE
      /\ staticArry' = text \o SubSeq(staticArry, Len(text) + 1, Len(staticArry))
      /\ cursor_x' = s.x /\ cursor_y' = s.y
      /\ video' = s.video /\ printed' = s.printed /\ gap' = s.gap
      /\ overwritten' = s.overwritten
      /\ set_cursor(s.y * Cols + s.x)
      /\ UNCHANGED <<pc, probe, todo, cursorLocation, uprolling, faulted>>

\* Printing while keys of keymap are pressed, which the handler echoes.
EchoNext ==
  \/ \E call \in Messages : prints(call)
  \/ kputc_color \/ vga_putc \/ vga_putc_store \/ vga_putc_advance
  \/ screen_uproll_once \/ move_cursor \/ move_cursor_outb
  \/ \E key \in Key : key_echoed(key)

EchoSpec == ScreenInit /\ [][EchoNext]_vars

\* The same with keys that are not in keymap.
ScreenNext == EchoNext \/ key_unknown

ScreenSpec == ScreenInit /\ [][ScreenNext]_vars

-----------------------------------------------------------------------------
Char == {"NUL", " ", "key", "NL", "TAB", "x"} \cup Range(Digit) \cup
          UNION {Range(call[1]) \cup UNION {Range(a.str) : a \in Range(call[2])} :
                   call \in Messages}

\* Types; in particular the registers keep to one byte, and cursor_x and
\* cursor_y to the screen.
ScreenTypeOK ==
  /\ pc \in {"idle", "next", "putc", "store", "test_x", "inc_x", "test_y", "wrap_x",
             "inc_y", "uproll", "back_x", "back_y", "locate", "index_high", "high",
             "index_low", "low"}
  /\ Range(staticArry) \subseteq Char
  /\ probe \in 1..Len(staticArry)
  /\ todo \in Char \X (0..255)
  /\ cursor_x \in 0..(Cols - 1) /\ cursor_y \in 0..(Rows - 1)
  /\ cursorLocation \in Cell
  /\ uprolling \in BOOLEAN
  /\ video \in [Cell -> Char]
  /\ index \in {14, 15} /\ register \in [{14, 15} -> 0..(Byte - 1)]
  /\ keys \in 0..MaxKeys /\ faulted \in BOOLEAN
  /\ Range(printed) \subseteq Char /\ gap \in Nat
  /\ overwritten \subseteq Cell /\ disturbed \in BOOLEAN

\* The printing thread is between two characters.
AtRest == pc \in {"idle", "next", "putc"}

\* However often lines wrap and vga_putc rolls the screen, cursor_x and cursor_y
\* are where the printed text ends.  Only a roll of aput_char, which moves the
\* text up and leaves them (print.S), takes them off it, by the cells it opens,
\* and it does so only until the next vga_putc that no key disturbs.
CursorFollowsText ==
  AtRest => /\ Len(printed) + gap = cursor_y * Cols + cursor_x
            /\ ~disturbed => gap = 0

\* The screen shows the text that was printed, also when keys have rolled it,
\* and nothing in its gaps and behind it, but for the cells that typed
\* characters and the row that such a roll brings in have changed.
ShowsText ==
  \A i \in Cell \ overwritten :
    video[i] = IF i < Len(printed) THEN printed[i + 1] ELSE "NUL"

\* After a vga_putc during which no key came the VGA's cursor is at cursor_x and
\* cursor_y, also when the one before was torn or the screen has rolled.
HardwareCursorFollows ==
  AtRest /\ ~disturbed => hardware_cursor = cursor_y * Cols + cursor_x

\* vga_basic.c, move_cursor_by_XY: the cursor is inside the screen.
CursorOnScreen == cursor_x < Cols /\ cursor_y < Rows

\* The texts depend on their arguments only: the two properties about them are
\* evaluated before the first step.
Booted == staticArry = <<"NUL">> /\ keys = 0

\* printk, which splices the arguments into the text it is scanning, prints the
\* expansion: inserted text is not scanned again, even when it is empty or
\* contains directives, and what follows a directive is not skipped.
PrintkExpands ==
  Booted => \A call \in Calls :
              printk(call[1], call[2]) = Expansion(call[1], call[2])

\* uintTostring and num2hexstr yield the digits of each number.
ConversionsExact == Booted => \A n \in Numbers : Converted(n)

=============================================================================
