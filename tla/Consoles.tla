------------------------------ MODULE Consoles ------------------------------
(***************************************************************************)
(* What the three terminals promise their programs and the user (spec 2,   *)
(* 3 and 8 scenario 4): each terminal has a screen of its own; the process *)
(* of the running terminal writes to that terminal's screen only, whichever *)
(* terminal is in front; alt+F brings another terminal's screen in front   *)
(* without changing any screen.  A screen is abstracted to how many        *)
(* characters each terminal's processes have put on it.                    *)
(***************************************************************************)
EXTENDS Naturals

CONSTANTS NUM_TERMINALS, MaxWrites

Terms == 0 .. NUM_TERMINALS - 1

VARIABLES
    fg,      \* the terminal in front
    run,     \* the terminal whose process runs
    screen   \* screen[t][u]: characters terminal u's processes put on t's screen

Init ==
    /\ fg = 0
    /\ run = 0
    /\ screen = [t \in Terms |-> [u \in Terms |-> 0]]

\* The running process writes a character to its own terminal's screen.
Write ==
    /\ screen[run][run] < MaxWrites
    /\ screen' = [screen EXCEPT ![run][run] = @ + 1]
    /\ UNCHANGED <<fg, run>>

\* The user brings terminal n in front.
Switch(n) ==
    /\ n # fg
    /\ fg' = n
    /\ UNCHANGED <<run, screen>>

\* The scheduler moves to the next terminal.
Rotate ==
    /\ run' = (run + 1) % NUM_TERMINALS
    /\ UNCHANGED <<fg, screen>>

Next == Write \/ Rotate \/ \E n \in Terms : Switch(n)

Spec == Init /\ [][Next]_<<fg, run, screen>>

=============================================================================
