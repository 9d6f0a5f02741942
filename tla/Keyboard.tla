------------------------------- MODULE Keyboard -------------------------------
(***************************************************************************)
(* The keyboard interrupt handler of device/keyboard.c: it turns the bytes *)
(* read from port 0x60 into the modifier flags and the characters put into *)
(* keyboard_buffer.  The buffer is a bounded FIFO here, which the ring of  *)
(* device/ioqueue.c implements (module IOQueue).                           *)
(*                                                                         *)
(* The keyboard itself is the environment: it sends the make code of a key *)
(* that goes down, again while it is the last key that went down and stays *)
(* there, and the break code of one that goes up (scan code set 1).        *)
(***************************************************************************)
EXTENDS Integers, Sequences, SequencesExt

CONSTANTS
  Key,        \* make codes of the keys, 0xe0xx for the extended ones
  buf_size,   \* slots of the ring, one of which stays unused
  MaxWire,    \* bound on the bytes the keyboard holds back
  MaxHeld,    \* bound on the keys held down at once
  NoKey

ctrl_l_make == \h1d
ctrl_r_make == \he01d
shift_l_make == \h2a
shift_r_make == \h36
alt_l_make == \h38
alt_r_make == \he038
caps_lock_make == \h3a

Ctrl == {ctrl_l_make, ctrl_r_make}
Shift == {shift_l_make, shift_r_make}
Alt == {alt_l_make, alt_r_make}

\* A break code is the make code with bit 7 set; no key's may be read as 0xe0.
ASSUME KeyboardAssumption ==
  /\ Key \subseteq ((1..127) \cup (\he001..\he07f)) \ {\h60, \he060}
  /\ buf_size \in Nat \ {0, 1}
  /\ MaxWire \in Nat /\ MaxHeld \in Nat
  /\ NoKey \notin Key

VARIABLES
  held,               \* keys that are physically down
  repeating,          \* the one whose make code is repeated
  wire,               \* bytes the keyboard will still present at port 0x60
  ext_scan_code,      \* the last byte was 0xe0
  ctrl_status, shift_status, alt_status, caps_lock_status,
  keyboard_buffer

physical == <<held, repeating, wire>>
modifiers == <<ctrl_status, shift_status, alt_status, caps_lock_status>>
keyboardVars == <<physical, ext_scan_code, modifiers, keyboard_buffer>>

\* A character is the slot of keymap it is read from, whatever the slot holds:
\* the digits' unshifted column holds the numbers 0 to 9 and not characters, so
\* the key 0 yields the invisible 0, and what 1 to 9 yield is not looked into.
char_invisible == <<0, 0>>

Invisible(index, shift) ==
  \/ index \in {0, \h1d, \h2a, \h36, \h38, \h3a}
  \/ index = \h0b /\ shift = 0

\* esc, backspace, tab, enter, keypad * and space read the same in both columns.
SameInBoth == {\h01, \h0e, \h0f, \h1c, \h37, \h39}

keymap(index, shift) ==
  IF Invisible(index, shift) THEN char_invisible
  ELSE <<index, IF index \in SameInBoth THEN 0 ELSE shift>>

KeyboardInit ==
  /\ held = {} /\ repeating = NoKey /\ wire = << >>
  /\ ext_scan_code = FALSE
  /\ ctrl_status = FALSE /\ shift_status = FALSE /\ alt_status = FALSE
  /\ caps_lock_status = FALSE
  /\ keyboard_buffer = << >>

-----------------------------------------------------------------------------
MakeCode(k) == IF k > 255 THEN <<\he0, k % 256>> ELSE <<k>>
BreakCode(k) == IF k > 255 THEN <<\he0, (k % 256) + 128>> ELSE <<k + 128>>

Sends(code) ==
  /\ Len(wire) + Len(code) <= MaxWire
  /\ wire' = wire \o code
  /\ UNCHANGED <<ext_scan_code, modifiers, keyboard_buffer>>

press(k) ==
  /\ k \notin held /\ Cardinality(held) < MaxHeld
  /\ Sends(MakeCode(k))
  /\ held' = held \cup {k} /\ repeating' = k

repeat ==
  /\ repeating # NoKey
  /\ Sends(MakeCode(repeating))
  /\ UNCHANGED <<held, repeating>>

release(k) ==
  /\ k \in held
  /\ Sends(BreakCode(k))
  /\ held' = held \ {k}
  /\ repeating' = IF repeating = k THEN NoKey ELSE repeating

-----------------------------------------------------------------------------
IsBreak(byte) == byte >= 128

\* Mutant: break codes are recognised without their extension.
break_code_NoExtension(make) ==
  /\ ctrl_status' = IF make = ctrl_l_make THEN FALSE ELSE ctrl_status
  /\ shift_status' = IF make \in Shift THEN FALSE ELSE shift_status
  /\ alt_status' = IF make = alt_l_make THEN FALSE ELSE alt_status
  /\ UNCHANGED <<caps_lock_status, keyboard_buffer>>

\* A break code clears the flag of its modifier.
break_code(make) ==
  /\ ctrl_status' = IF make \in Ctrl THEN FALSE ELSE ctrl_status
  /\ shift_status' = IF make \in Shift THEN FALSE ELSE shift_status
  /\ alt_status' = IF make \in Alt THEN FALSE ELSE alt_status
  /\ UNCHANGED <<caps_lock_status, keyboard_buffer>>

\* Mutant: caps lock shifts every key.
column_CapsShiftsAll(code) ==
  IF shift_status # caps_lock_status THEN 1 ELSE 0

\* The column of keymap: caps lock shifts the keys outside the code's list.
column(code) ==
  LET indifferent == \/ code < \h0e
                     \/ code \in {\h29, \h1a, \h1b, \h2b, \h27, \h28, \h33, \h34, \h35}
  IN  IF indifferent
      THEN IF shift_status THEN 1 ELSE 0
      ELSE IF shift_status # caps_lock_status THEN 1 ELSE 0

\* Mutant: is_queue_full is not asked.
is_queue_full_Never == FALSE

is_queue_full == Len(keyboard_buffer) = buf_size - 1

\* A make code appends its character, or sets the flag of its modifier.  A
\* visible character that finds the buffer full is dropped.
make_code(code) ==
  LET char == keymap(code % 256, column(code))
  IN  IF char # char_invisible /\ ~is_queue_full
      THEN keyboard_buffer' = Append(keyboard_buffer, char) /\ UNCHANGED modifiers
      ELSE /\ ctrl_status' = IF code \in Ctrl THEN TRUE ELSE ctrl_status
           /\ shift_status' = IF code \in Shift THEN TRUE ELSE shift_status
           /\ alt_status' = IF code \in Alt THEN TRUE ELSE alt_status
           /\ caps_lock_status' = IF code = caps_lock_make THEN ~caps_lock_status
                                                           ELSE caps_lock_status
           /\ UNCHANGED keyboard_buffer

Known(code) == code \in 1..\h3a \/ code \in {alt_r_make, ctrl_r_make}

\* IRQ1: one byte of a scan code.
init_keyboard_handler ==
  /\ wire # << >>
  /\ wire' = Tail(wire)
  /\ UNCHANGED <<held, repeating>>
  /\ LET byte == Head(wire)
         code == IF ext_scan_code THEN \he000 + byte ELSE byte
     IN  \/ /\ byte = \he0
            /\ ext_scan_code' = TRUE
            /\ UNCHANGED <<modifiers, keyboard_buffer>>
         \/ /\ byte # \he0 /\ IsBreak(byte)
            /\ ext_scan_code' = FALSE
            /\ break_code(code - 128)
         \/ /\ byte # \he0 /\ ~IsBreak(byte)
            /\ ext_scan_code' = FALSE
            /\ IF Known(code) THEN make_code(code)
               ELSE UNCHANGED <<modifiers, keyboard_buffer>>

\* A client takes the oldest character with queue_getchar.
queue_getchar ==
  /\ keyboard_buffer # << >>
  /\ keyboard_buffer' = Tail(keyboard_buffer)
  /\ UNCHANGED <<physical, ext_scan_code, modifiers>>

KeyboardNext ==
  \/ \E k \in Key : press(k) \/ release(k)
  \/ repeat
  \/ init_keyboard_handler
  \/ queue_getchar

KeyboardSpec == KeyboardInit /\ [][KeyboardNext]_keyboardVars

-----------------------------------------------------------------------------
Char == ((1..\h3a) \X {0, 1}) \ {char_invisible}

KeyboardTypeOK ==
  /\ held \subseteq Key
  /\ repeating \in Key \cup {NoKey}
  /\ wire \in Seq(0..255)
  /\ {ext_scan_code, ctrl_status, shift_status, alt_status, caps_lock_status} \subseteq BOOLEAN
  /\ keyboard_buffer \in Seq(Char) /\ Len(keyboard_buffer) < buf_size

\* Once the handler has read everything, a modifier is on only while a key of
\* its name is down and no byte is waited for: no sequence of presses and
\* releases, one- and two-byte codes mixed, leaves a modifier stuck.
NoStuckModifier ==
  wire = << >> =>
    /\ ctrl_status => held \cap Ctrl # {}
    /\ shift_status => held \cap Shift # {}
    /\ alt_status => held \cap Alt # {}
    /\ ~ext_scan_code

\* The letters, by the place of their keys.
Letter == (\h10..\h19) \cup (\h1e..\h26) \cup (\h2c..\h32)

\* The slot of a key with the flags as they are: caps lock and shift cancel out
\* on a letter, and caps lock does nothing to any other key.  The handler has
\* this as a list of the keys that are not letters.
Typed(key) ==
  <<key, IF key \in SameInBoth THEN 0
         ELSE IF (key \in Letter /\ caps_lock_status) # shift_status THEN 1 ELSE 0>>

\* What the handler queues comes from the row of keymap of the key it was read
\* from and from the column that shift and caps lock ask for, however two-byte
\* codes and the modifiers' codes are mixed, and it is queued behind the others.
\* What keymap holds there (a number in place of a digit) is not judged.
QueuesRightColumn ==
  [][Len(keyboard_buffer') > Len(keyboard_buffer) =>
       keyboard_buffer' = Append(keyboard_buffer, Typed(Head(wire)))]_keyboardVars

\* keyboard.c: the flags record whether their keys are down.
ModifiersRecorded ==
  wire = << >> =>
    /\ ctrl_status <=> held \cap Ctrl # {}
    /\ shift_status <=> held \cap Shift # {}
    /\ alt_status <=> held \cap Alt # {}

=============================================================================
