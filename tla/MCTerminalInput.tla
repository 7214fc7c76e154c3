--------------------------- MODULE MCTerminalInput ---------------------------
(* Model-checking instance of TerminalInput.  Two terminals are enough for *)
(* everything the properties compare: a foreground terminal the keys go to *)
(* and a running terminal whose process reads (the %3 rotation becomes     *)
(* %2).  A three-byte line buffer stands for keyboard_buffer[128]: two     *)
(* printable characters and the newline, so 127 becomes 2.  The reader     *)
(* passes nbytes = 3, as the shell passes 128.                             *)
EXTENDS TerminalInput
=============================================================================
