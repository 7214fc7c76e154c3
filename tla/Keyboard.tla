------------------------------ MODULE Keyboard ------------------------------
(***************************************************************************)
(* keyboard_handler of src/mp3/student-distrib/keyboard.c as the scan-code *)
(* decoder it is: the modifier flags (9-13, 84-142), the three 58-entry    *)
(* tables (18-58) and the four branches that echo a printable key and      *)
(* append it to the foreground terminal's line (220-355).  One terminal's *)
(* line is modelled; alt+F's switch itself is in TerminalInput and Video.  *)
(*                                                                         *)
(* line is keyboard_buffer[0 .. index - 1], the characters a read can     *)
(* return; shown is the same line as it was echoed by putc, so a          *)
(* Backspace removes the last character of both.  ctrl+L's clear() erases *)
(* the screen, not what was typed, and leaves both alone.                  *)
(***************************************************************************)
EXTENDS Naturals, Sequences

CONSTANTS
    LINE_MAX,   \* 127: characters a line holds before its newline
    MaxIndex    \* bound on index, so that repeated Enters stay finite

ASSUME LINE_MAX \in Nat \ {0} /\ MaxIndex \in Nat /\ MaxIndex > LINE_MAX

\* Scan codes of keyboard.h and of the keys the tables translate.
L_SHIFT_PRESS == 42
L_SHIFT_RELEASE == 170
R_SHIFT_PRESS == 54
R_SHIFT_RELEASE == 182
CTRL_PRESS == 29
CTRL_RELEASE == 157
CAPS_LOCK_PRESS == 58
CAPS_LOCK_RELEASE == 186
ALT_PRESS == 56
ALT_RELEASE == 184
BACKSPACE == 14
TAB_PRESS == 15
ESC == 1
F1 == 59
F2 == 60
F3 == 61
KEY_1 == 2
KEY_LBRACKET == 26
KEY_ENTER == 28
KEY_A == 30
KEY_L == 38
KEY_KP_STAR == 55

NUL == "NUL"
\* The printable scan codes modelled: a letter, a digit, a bracket, 'l'
\* for ctrl+L, Enter, and keypad '*', whose entries are all '\0'.
TableCodes == {KEY_1, KEY_LBRACKET, KEY_ENTER, KEY_A, KEY_L, KEY_KP_STAR}
ModifierCodes == {L_SHIFT_PRESS, L_SHIFT_RELEASE, R_SHIFT_PRESS,
                  R_SHIFT_RELEASE, CTRL_PRESS, CTRL_RELEASE, CAPS_LOCK_PRESS,
                  CAPS_LOCK_RELEASE, ALT_PRESS, ALT_RELEASE}
ScanCodes == TableCodes \cup ModifierCodes
             \cup {BACKSPACE, TAB_PRESS, ESC, F1, F2, F3}

\* scan_code_match, scan_code_shift and scan_code_capital (18-58) on the
\* modelled codes.
scan_code_match ==
    [c \in TableCodes |-> CASE c = KEY_1 -> "1" [] c = KEY_LBRACKET -> "["
                            [] c = KEY_ENTER -> "\n" [] c = KEY_A -> "a"
                            [] c = KEY_L -> "l" [] c = KEY_KP_STAR -> NUL]
scan_code_shift ==
    [c \in TableCodes |-> CASE c = KEY_1 -> "!" [] c = KEY_LBRACKET -> "{"
                            [] c = KEY_ENTER -> "\n" [] c = KEY_A -> "A"
                            [] c = KEY_L -> "L" [] c = KEY_KP_STAR -> NUL]
scan_code_capital ==
    [c \in TableCodes |-> CASE c = KEY_1 -> "1" [] c = KEY_LBRACKET -> "{"
                            [] c = KEY_ENTER -> "\n" [] c = KEY_A -> "A"
                            [] c = KEY_L -> "L" [] c = KEY_KP_STAR -> NUL]

IsLetter(c) == scan_code_match[c] \in {"a", "l"}

VARIABLES
    ctrl_pressed, shift_pressed, capital, caps_lock_pressed, alt_pressed,
    line,           \* keyboard_buffer[0 .. index - 1]
    enter_pressed,
    shown           \* the echo of line

flags == <<ctrl_pressed, shift_pressed, capital, caps_lock_pressed, alt_pressed>>
vars == <<flags, line, enter_pressed, shown>>

-----------------------------------------------------------------------------
(* The modifier keys (84-142): each code sets or clears its flag and       *)
(* returns; Caps Lock toggles capital only on the first press code of a    *)
(* hold, since the keyboard repeats the press code while a key is held.    *)

ShiftKey(sc) ==
    /\ sc \in {L_SHIFT_PRESS, R_SHIFT_PRESS, L_SHIFT_RELEASE, R_SHIFT_RELEASE}
    /\ shift_pressed' = IF sc \in {L_SHIFT_PRESS, R_SHIFT_PRESS} THEN 1 ELSE 0
    /\ UNCHANGED <<ctrl_pressed, capital, caps_lock_pressed, alt_pressed,
                   line, enter_pressed, shown>>

CtrlKey(sc) ==
    /\ sc \in {CTRL_PRESS, CTRL_RELEASE}
    /\ ctrl_pressed' = IF sc = CTRL_PRESS THEN 1 ELSE 0
    /\ UNCHANGED <<shift_pressed, capital, caps_lock_pressed, alt_pressed,
                   line, enter_pressed, shown>>

CapsKey(sc) ==
    /\ sc \in {CAPS_LOCK_PRESS, CAPS_LOCK_RELEASE}
    /\ IF sc = CAPS_LOCK_PRESS
         THEN /\ capital' = IF caps_lock_pressed = 0 THEN 1 - capital ELSE capital
              /\ caps_lock_pressed' = 1
         ELSE /\ caps_lock_pressed' = 0
              /\ UNCHANGED capital
    /\ UNCHANGED <<ctrl_pressed, shift_pressed, alt_pressed, line,
                   enter_pressed, shown>>

AltKey(sc) ==
    /\ sc \in {ALT_PRESS, ALT_RELEASE}
    /\ alt_pressed' = IF sc = ALT_PRESS THEN 1 ELSE 0
    /\ UNCHANGED <<ctrl_pressed, shift_pressed, capital, caps_lock_pressed,
                   line, enter_pressed, shown>>

-----------------------------------------------------------------------------
(* The other keys (143-355).                                               *)

\* alt+F1..F3 (143-207): the terminal switch, which leaves this line to
\* TerminalInput; without alt an F key is past the tables and ignored.
\* Tab and Esc return at once (221-223).
Ignored(sc) ==
    /\ \/ sc \in {F1, F2, F3}
       \/ sc \in {TAB_PRESS, ESC}
    /\ UNCHANGED vars

\* Backspace (209-218): index-- and an erase on screen, if index != 0.
Backspace(sc) ==
    /\ sc = BACKSPACE
    /\ line # <<>>
    /\ line' = SubSeq(line, 1, Len(line) - 1)
    /\ shown' = SubSeq(shown, 1, Len(shown) - 1)
    /\ UNCHANGED <<flags, enter_pressed>>

\* ctrl+L (229-238): clear() and return, the line kept.
CtrlL(sc) ==
    /\ sc \in TableCodes
    /\ ctrl_pressed = 1 /\ scan_code_match[sc] = "l"
    /\ UNCHANGED vars

\* The character putc echoes for sc (240-355): with shift and caps lock,
\* letters from the plain table and the rest from the shift table; with
\* shift alone the shift table; with caps lock alone the capital table.
Echo(sc) ==
    CASE shift_pressed = 1 /\ capital = 1 ->
             IF IsLetter(sc) THEN scan_code_match[sc] ELSE scan_code_shift[sc]
      [] shift_pressed = 1 -> scan_code_shift[sc]
      [] capital = 1 -> scan_code_capital[sc]
      [] OTHER -> scan_code_match[sc]

\* Whether the key is stored: a newline always; otherwise below index 127,
\* where the three modifier branches also store '\0' and the plain one
\* skips it.
Stored(sc) ==
    \/ scan_code_match[sc] = "\n"
    \/ /\ Len(line) < LINE_MAX
       /\ scan_code_match[sc] # NUL \/ shift_pressed = 1 \/ capital = 1

\* A key of the tables (226-355): the buffer gets scan_code_match[sc]
\* whichever branch runs, the screen gets Echo(sc); a newline sets
\* enter_pressed.
Printable(sc) ==
    /\ sc \in TableCodes
    /\ ~(ctrl_pressed = 1 /\ scan_code_match[sc] = "l")
    /\ IF Stored(sc)
         THEN /\ Len(line) < MaxIndex
              /\ line' = Append(line, scan_code_match[sc])
              /\ shown' = Append(shown, Echo(sc))
              /\ enter_pressed' = IF scan_code_match[sc] = "\n" THEN 1
                                  ELSE enter_pressed
         ELSE UNCHANGED <<line, shown, enter_pressed>>
    /\ UNCHANGED flags

keyboard_handler(sc) ==
    \/ ShiftKey(sc) \/ CtrlKey(sc) \/ CapsKey(sc) \/ AltKey(sc)
    \/ Ignored(sc) \/ Backspace(sc) \/ CtrlL(sc) \/ Printable(sc)

Init ==
    /\ ctrl_pressed = 0 /\ shift_pressed = 0 /\ capital = 0
    /\ caps_lock_pressed = 0 /\ alt_pressed = 0
    /\ line = <<>> /\ enter_pressed = 0 /\ shown = <<>>

Next == \E sc \in ScanCodes : keyboard_handler(sc)

Spec == Init /\ [][Next]_vars

-----------------------------------------------------------------------------
(* Properties                                                              *)

Chars == {"1", "!", "[", "{", "\n", "a", "A", "l", "L", NUL}

TypeOK ==
    /\ {ctrl_pressed, shift_pressed, capital, caps_lock_pressed, alt_pressed}
           \subseteq {0, 1}
    /\ line \in Seq(Chars) /\ shown \in Seq(Chars) /\ Len(line) <= MaxIndex
    /\ enter_pressed \in {0, 1}

\* Spec 4 (keyboard driver): a printable scan code is translated through
\* the plain, shifted or caps table and appended to the line buffer.  So
\* the line a read returns is the line the user saw echoed.  The code
\* echoes the translated character but stores scan_code_match[sc].
BufferTranslated == line = shown
=============================================================================
