-------------------------------- MODULE Video --------------------------------
(***************************************************************************)
(* Text-video multiplexing of the three terminals.  One physical           *)
(* framebuffer page (VIDEO) is on screen; the pages VIDEO + 2..4 (page.c   *)
(* 32-35) back terminals 0..2.  memory_switch (terminal.c 185-209) points  *)
(* the kernel's VIDEO page-table entry, and the same entry of the user     *)
(* video table that vidmap installs, at VIDEO when the running terminal is *)
(* in front and at the running terminal's backing page otherwise.  alt+F   *)
(* (keyboard.c 143-207) saves the screen into the old foreground's backing *)
(* page and loads the new one's; pit_handler (pit.c 55, 63, 76) remaps on  *)
(* every tick.  A program that has called vidmap writes the screen       *)
(* itself through the user video entry.  A page is abstracted to how many  *)
(* characters each terminal's processes have written into it.              *)
(***************************************************************************)
EXTENDS Naturals

CONSTANTS
    NUM_TERMINALS,   \* 3
    MaxWrites        \* characters each terminal's processes write (bound)

ASSUME NUM_TERMINALS >= 2 /\ MaxWrites \in Nat \ {0}

Terms == 0 .. NUM_TERMINALS - 1
VIDEO == 0                          \* page offsets from the VIDEO frame
Backing(t) == t + 2                 \* VIDEO + (t + 2) * 4096
Pages == 0 .. NUM_TERMINALS + 1

VARIABLES
    cur_terminal,   \* the terminal in front
    run_terminal,   \* the terminal whose process runs
    video_pte,      \* page the kernel's VIDEO entry maps
    user_video_pte, \* page the user video entry (at 136 MiB) maps
    content         \* content[p][u]: characters u's processes wrote into p

vars == <<cur_terminal, run_terminal, video_pte, user_video_pte, content>>

\* Mutant: the backing page offset written as 3 instead of 2, past the
\* buffers page.c maps for the last terminal.
MemorySwitchPastBuffers(switch_id, cur) ==
    IF switch_id = cur THEN VIDEO ELSE switch_id + 3

\* The page memory_switch(switch_id) maps while cur is in front
\* (terminal.c 185-209).
MemorySwitch(switch_id, cur) ==
    IF switch_id = cur THEN VIDEO ELSE Backing(switch_id)

\* Mutant: only the kernel's entry is rewritten; the user video entry
\* keeps the page of the last terminal vidmap was first used on.
memory_switchKernelOnly(switch_id, cur) ==
    /\ video_pte' = MemorySwitch(switch_id, cur)
    /\ UNCHANGED user_video_pte

\* memory_switch(switch_id) with cur in front: both entries are rewritten
\* to the same page, then the TLB is flushed (terminal.c 185-209).
memory_switch(switch_id, cur) ==
    /\ video_pte' = MemorySwitch(switch_id, cur)
    /\ user_video_pte' = MemorySwitch(switch_id, cur)

\* putc(c, 0) from terminal_write by the running process writes through
\* the VIDEO entry (terminal.c 127-146).
terminal_write ==
    /\ content[video_pte][run_terminal] < MaxWrites
    /\ content' = [content EXCEPT ![video_pte][run_terminal] = @ + 1]
    /\ UNCHANGED <<cur_terminal, run_terminal, video_pte, user_video_pte>>

\* The running program stores a character at the address vidmap returned
\* (system_calls.c 563-583): the user video entry decides the page.  The
\* 136 MiB directory entry vidmap installs is not kept: a store before any
\* vidmap would fault, and allowing it only adds behaviours.
UserVideoWrite ==
    /\ content[user_video_pte][run_terminal] < MaxWrites
    /\ content' = [content EXCEPT ![user_video_pte][run_terminal] = @ + 1]
    /\ UNCHANGED <<cur_terminal, run_terminal, video_pte, user_video_pte>>

\* Mutant: n's backing page is loaded onto the screen before the screen is
\* saved, so the old foreground's page receives n's screen.
AltFLoadFirst(n) ==
    /\ n # cur_terminal
    /\ LET loaded == [content EXCEPT ![VIDEO] = content[Backing(n)]]
       IN  content' = [loaded EXCEPT ![Backing(cur_terminal)] = loaded[VIDEO]]
    /\ cur_terminal' = n
    /\ memory_switch(run_terminal, n)
    /\ UNCHANGED run_terminal

\* alt+F<n+1> with n not in front (keyboard.c 143-207): map VIDEO to
\* itself, copy the screen to the old foreground's backing page, copy n's
\* backing page to the screen, then remap for the running terminal.
AltF(n) ==
    /\ n # cur_terminal
    /\ LET saved == [content EXCEPT ![Backing(cur_terminal)] = content[VIDEO]]
       IN  content' = [saved EXCEPT ![VIDEO] = saved[Backing(n)]]
    /\ cur_terminal' = n
    /\ memory_switch(run_terminal, n)
    /\ UNCHANGED run_terminal

\* The tick: next terminal, then memory_switch(run_terminal) (pit.c 55-76).
pit_handler ==
    /\ run_terminal' = (run_terminal + 1) % NUM_TERMINALS
    /\ memory_switch(run_terminal', cur_terminal)
    /\ UNCHANGED <<cur_terminal, content>>

\* After page_init, terminal_init and the first memory_switch: terminal 0
\* in front and running, every page blank.
Init ==
    /\ cur_terminal = 0
    /\ run_terminal = 0
    /\ video_pte = VIDEO
    /\ user_video_pte = VIDEO
    /\ content = [p \in Pages |-> [u \in Terms |-> 0]]

Next == terminal_write \/ UserVideoWrite \/ pit_handler
        \/ \E n \in Terms : AltF(n)

Spec == Init /\ [][Next]_vars

-----------------------------------------------------------------------------
(* Properties                                                              *)

TypeOK ==
    /\ cur_terminal \in Terms /\ run_terminal \in Terms
    /\ video_pte \in Pages /\ user_video_pte \in Pages
    /\ content \in [Pages -> [Terms -> 0 .. MaxWrites]]

\* Where terminal t's screen lives: on screen if t is in front, else in its
\* backing page.
ScreenOf(t) == IF t = cur_terminal THEN VIDEO ELSE Backing(t)

\* The video pages implement Consoles: what every terminal's processes write
\* lands on that terminal's screen and nowhere else, through any
\* interleaving of ticks, writes (by putc or through vidmap's page) and
\* alt+F switches.  Broken by a copy in the wrong direction or order, a
\* wrong backing page, or a tick that remaps only one of the two entries.
Abstract == INSTANCE Consoles WITH
    fg <- cur_terminal,
    run <- run_terminal,
    screen <- [t \in Terms |-> content[ScreenOf(t)]]

ConsolesSpec == Abstract!Spec

=============================================================================
