----------------------------- MODULE MCKeyboard -----------------------------
(* Model-checking instance of Keyboard: a line of 2 characters before its  *)
(* newline (the code's 127) and one more slot for a newline past it.       *)
EXTENDS Keyboard
=============================================================================
