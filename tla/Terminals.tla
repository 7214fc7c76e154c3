------------------------------ MODULE Terminals ------------------------------
(***************************************************************************)
(* The terminals as one component: the line buffers and              *)
(* terminal_read of TerminalInput and the video pages of Video, sharing    *)
(* cur_terminal (the terminal in front) and run_terminal (the terminal     *)
(* whose process runs).  Two handlers touch both halves in one step:       *)
(* alt+F (keyboard.c 143-207) moves the keyboard's target and swaps the    *)
(* screens, and the PIT tick (pit.c 55-76) moves the reader's CPU and      *)
(* remaps the VIDEO page.  A terminal's process is either inside           *)
(* terminal_read or free to call terminal_write, never both.               *)
(***************************************************************************)
EXTENDS Naturals, Sequences

CONSTANTS NUM_TERMINALS, BUF_SIZE, NBYTES, TypeAhead, MaxWrites

VARIABLES
    cur_terminal, run_terminal,                           \* shared
    keyboard_buffer, index, enter_pressed, rpc, ct, ubuf, typed,   \* input
    video_pte, user_video_pte, content                    \* video

In  == INSTANCE TerminalInput
Vid == INSTANCE Video

inputVars == <<keyboard_buffer, index, enter_pressed, rpc, ct, ubuf, typed>>
videoVars == <<video_pte, user_video_pte, content>>
vars == <<cur_terminal, run_terminal, inputVars, videoVars>>

\* keyboard_handler on a key that stays within the line buffers.
Key == (In!KeyPrintable \/ In!KeyEnter \/ In!KeyBackspace)
       /\ UNCHANGED videoVars

\* alt+F<n+1>: the keyboard's target and the screen copies, one handler.
AltF(n) == In!AltF(n) /\ Vid!AltF(n)

\* The tick: the next terminal runs, and VIDEO is remapped for it.
pit_handler == In!pit_handler /\ Vid!pit_handler

\* terminal_read's steps by terminal t's process.
Read(t) == In!Reader(t) /\ UNCHANGED videoVars

\* terminal_write by the running terminal's process, which is not inside
\* terminal_read (terminal.c 127-146).
Write == rpc[run_terminal] = "idle" /\ Vid!terminal_write /\ UNCHANGED inputVars

\* A store through vidmap's page by the running terminal's process while
\* it is not inside terminal_read.
UserVideo ==
    rpc[run_terminal] = "idle" /\ Vid!UserVideoWrite /\ UNCHANGED inputVars

Init == In!Init /\ Vid!Init

Next == Key \/ Write \/ UserVideo \/ pit_handler \/ (\E n \in In!Terms : AltF(n))
        \/ \E t \in In!Terms : Read(t)

\* As in TerminalInput: the tick always happens, and a process the
\* scheduler keeps resuming keeps executing the read loop it is in.
Fairness ==
    /\ WF_vars(pit_handler)
    /\ \A t \in In!Terms : /\ SF_vars(In!ReadPoll(t) /\ UNCHANGED videoVars)
                           /\ SF_vars(In!ReadCopy(t) /\ UNCHANGED videoVars)

Spec == Init /\ [][Next]_vars /\ Fairness

-----------------------------------------------------------------------------
(* Properties: those of the two halves, checked on the composition.        *)

TypeOK == In!TypeOK /\ Vid!TypeOK

\* A read copies a line only after a key typed on its terminal since it
\* began, with alt+F and the tick now the same steps that swap the screens.
ReadWaitsForNewLine == In!ReadWaitsForNewLine

\* A read that has seen its Enter returns, although the running process
\* may also be writing to its screen between reads.
ReadCompletes == In!ReadCompletes

\* The screens still implement Consoles when keys and reads interleave
\* with the writes, switches and ticks.
ConsolesSpec == Vid!ConsolesSpec
=============================================================================
