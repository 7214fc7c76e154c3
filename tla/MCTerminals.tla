------------------------------ MODULE MCTerminals ------------------------------
(* Model-checking instance of Terminals with two of the code's three      *)
(* terminals: the running terminal is then always the old or the new      *)
(* foreground of a switch, the case the remapping must get right.  A      *)
(* three-byte line buffer stands for keyboard_buffer[128] (two printable   *)
(* characters and the newline); the reader passes nbytes = 3, as the shell *)
(* passes 128.  Each terminal's processes write one character, so a write  *)
(* can land before or after a switch.                                      *)
EXTENDS Terminals
=============================================================================
