------------------------------ MODULE MCKeyboard ------------------------------
(***************************************************************************)
(* TLC instances of Keyboard: a letter, two keys caps lock must not touch  *)
(* (one on each side of 0x0e), the modifiers of both sides, caps lock and  *)
(* an extended key the handler does not know (cursor up).                  *)
(***************************************************************************)
EXTENDS Keyboard

MCKey == {\h1e, \h03, \h1a, shift_l_make, shift_r_make, ctrl_l_make,
          ctrl_r_make, alt_r_make, caps_lock_make, \he048}

=============================================================================
