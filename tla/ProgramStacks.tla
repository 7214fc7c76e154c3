---------------------------- MODULE ProgramStacks ----------------------------
(***************************************************************************)
(* What the process layer promises (spec 4 and 5): each terminal runs a    *)
(* stack of programs, each started by an execute of the one below it; only *)
(* the program on top of the running terminal's stack takes steps.  An     *)
(* execute pushes a program with a fresh pid, a halt pops the top and      *)
(* resumes the one below, and the base shell cannot exit (its halt starts  *)
(* a shell in its place, which leaves the stack as it was).  The scheduler *)
(* visits the terminals in turn and starts a shell on one that has none.   *)
(***************************************************************************)
EXTENDS Naturals, Sequences, SequencesExt

CONSTANTS MAX_PROCESSES, NUM_TERMINALS

Pids  == 0 .. MAX_PROCESSES - 1
Terms == 0 .. NUM_TERMINALS - 1

VARIABLES
    stack,   \* stack[t]: pids of terminal t's programs, base shell first
    run      \* the terminal whose top program holds the CPU

vars == <<stack, run>>

InUse == UNION {ToSet(stack[t]) : t \in Terms}
Free  == Pids \ InUse

\* Kernel entry starts a shell on terminal 0.
Init ==
    /\ run = 0
    /\ stack = [t \in Terms |-> IF t = 0 THEN <<0>> ELSE <<>>]

\* The scheduler moves to the next terminal and starts a shell there if it
\* has no program.
Tick ==
    /\ run' = (run + 1) % NUM_TERMINALS
    /\ IF stack[run'] = <<>>
         THEN \E c \in Free : stack' = [stack EXCEPT ![run'] = <<c>>]
         ELSE UNCHANGED stack

\* The running program starts a child, which takes the CPU.
Execute(c) ==
    /\ stack[run] # <<>>
    /\ c \in Free
    /\ stack' = [stack EXCEPT ![run] = Append(@, c)]
    /\ UNCHANGED run

\* The running program, not a base shell, exits; its parent resumes.
Halt ==
    /\ Len(stack[run]) > 1
    /\ stack' = [stack EXCEPT ![run] = Front(@)]
    /\ UNCHANGED run

Next == Tick \/ Halt \/ \E c \in Pids : Execute(c)

Spec == Init /\ [][Next]_vars

=============================================================================
