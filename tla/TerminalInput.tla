---------------------------- MODULE TerminalInput ----------------------------
(***************************************************************************)
(* The keyboard line buffers and terminal_read: keyboard_handler of        *)
(* src/mp3/student-distrib/keyboard.c (the producer, on IRQ1, into the     *)
(* foreground terminal cur_terminal) and terminal_read of terminal.c (the  *)
(* consumer, run by the process of the running terminal run_terminal,      *)
(* with interrupts on).  The PIT tick only rotates run_terminal here; the  *)
(* process switch itself is modelled in Processes.                         *)
(*                                                                         *)
(* Characters are abstracted to NUL (what memset leaves), the newline, and *)
(* one printable character per terminal, tagged with the terminal it was   *)
(* typed on (encoded as 100 + t).                                          *)
(* Modifier keys only choose which table the echo uses, so they are left   *)
(* out.                                                                    *)
(***************************************************************************)
EXTENDS Naturals, Sequences

CONSTANTS
    NUM_TERMINALS,  \* terminal[3]
    BUF_SIZE,       \* keyboard_buffer[128]
    NBYTES,         \* nbytes the reading program passes (the shell: 128)
    TypeAhead       \* keys the user presses before the buffer is next cleared

ASSUME NUM_TERMINALS >= 2 /\ BUF_SIZE >= 2 /\ NBYTES \in 1 .. BUF_SIZE + 1
ASSUME TypeAhead \in Nat

Terms    == 0 .. NUM_TERMINALS - 1
Slots    == 0 .. BUF_SIZE - 1
MAX_LINE == BUF_SIZE - 1      \* "127 - maximum char number excluding new line"
NUL == 0                      \* '\0'
NL  == 10                     \* '\n'
Chr(t) == 100 + t             \* a printable key typed while t was foreground
Chars == {NUL, NL} \cup {Chr(t) : t \in Terms}

VARIABLES
    cur_terminal,     \* foreground terminal (keyboard.c / terminal.c)
    run_terminal,     \* terminal whose process holds the CPU
    keyboard_buffer,  \* terminal[t].keyboard_buffer
    index,            \* terminal[t].index
    enter_pressed,    \* terminal[t].enter_pressed
    rpc,              \* where terminal t's process is in terminal_read
    ct,               \* terminal_read's loop counter
    ubuf,             \* bytes terminal_read has stored into the user buffer
    typed             \* keys pressed since t's buffer was last cleared

vars == <<cur_terminal, run_terminal, keyboard_buffer, index, enter_pressed,
          rpc, ct, ubuf, typed>>

-----------------------------------------------------------------------------
(* keyboard_handler (keyboard.c 80-355), one action per path that changes  *)
(* state.  It runs on an interrupt gate: atomic.                           *)

\* keyboard_buffer[index] = c on the foreground terminal.  A store at
\* index >= 128 lands outside the array; the model does not record where.
Store(c) ==
    IF index[cur_terminal] < BUF_SIZE
      THEN [keyboard_buffer EXCEPT ![cur_terminal][index[cur_terminal]] = c]
      ELSE keyboard_buffer

KeyTyped == typed' = [typed EXCEPT ![cur_terminal] = @ + 1]

\* A printable key: stored only below index 127 (246-248, 282-284,
\* 308-310, 343-351).
KeyPrintable ==
    /\ typed[cur_terminal] < TypeAhead
    /\ index[cur_terminal] < MAX_LINE
    /\ keyboard_buffer' = Store(Chr(cur_terminal))
    /\ index' = [index EXCEPT ![cur_terminal] = @ + 1]
    /\ KeyTyped
    /\ UNCHANGED <<cur_terminal, run_terminal, enter_pressed, rpc, ct, ubuf>>

\* Enter: stored at index++ whatever index is (250-258, 286-294, 312-320,
\* 331-341), and enter_pressed = 1.
KeyEnter ==
    /\ typed[cur_terminal] < TypeAhead
    /\ keyboard_buffer' = Store(NL)
    /\ index' = [index EXCEPT ![cur_terminal] = @ + 1]
    /\ enter_pressed' = [enter_pressed EXCEPT ![cur_terminal] = 1]
    /\ KeyTyped
    /\ UNCHANGED <<cur_terminal, run_terminal, rpc, ct, ubuf>>

\* Mutant: the index != 0 check is dropped.
KeyBackspaceUnguarded ==
    /\ typed[cur_terminal] < TypeAhead
    /\ index' = [index EXCEPT ![cur_terminal] = @ - 1]
    /\ KeyTyped
    /\ UNCHANGED <<cur_terminal, run_terminal, keyboard_buffer, enter_pressed,
                   rpc, ct, ubuf>>

\* Backspace: index-- unless at 0; the character is left in place (209-218).
KeyBackspace ==
    /\ typed[cur_terminal] < TypeAhead
    /\ index[cur_terminal] # 0
    /\ index' = [index EXCEPT ![cur_terminal] = @ - 1]
    /\ KeyTyped
    /\ UNCHANGED <<cur_terminal, run_terminal, keyboard_buffer, enter_pressed,
                   rpc, ct, ubuf>>

\* alt+F1..F3 to another terminal: the foreground changes (143-207); the
\* screen copies are modelled in Video.
AltF(n) ==
    /\ n # cur_terminal
    /\ cur_terminal' = n
    /\ UNCHANGED <<run_terminal, keyboard_buffer, index, enter_pressed, rpc,
                   ct, ubuf, typed>>

\* The PIT tick moves the CPU to the next terminal (pit.c 55).
NextTerminal(rt) == (rt + 1) % NUM_TERMINALS

pit_handler ==
    /\ run_terminal' = NextTerminal(run_terminal)
    /\ UNCHANGED <<cur_terminal, keyboard_buffer, index, enter_pressed, rpc,
                   ct, ubuf, typed>>

-----------------------------------------------------------------------------
(* terminal_read (terminal.c 59-114) by the process of terminal t, which   *)
(* runs only while run_terminal = t.  Interrupts stay on throughout.       *)

\* Mutant: the clear of enter_pressed is left out.
ReadStartKeepsEnter(t) ==
    /\ run_terminal = t
    /\ rpc[t] = "idle"
    /\ keyboard_buffer' = [keyboard_buffer EXCEPT ![t] = [i \in Slots |-> NUL]]
    /\ index' = [index EXCEPT ![t] = 0]
    /\ typed' = [typed EXCEPT ![t] = 0]
    /\ rpc' = [rpc EXCEPT ![t] = "wait"]
    /\ ubuf' = [ubuf EXCEPT ![t] = <<>>]
    /\ UNCHANGED <<cur_terminal, run_terminal, ct, enter_pressed>>

\* Clear the running terminal's buffer, index and enter_pressed (72-76).
ReadStart(t) ==
    /\ run_terminal = t
    /\ rpc[t] = "idle"
    /\ keyboard_buffer' = [keyboard_buffer EXCEPT ![t] = [i \in Slots |-> NUL]]
    /\ index' = [index EXCEPT ![t] = 0]
    /\ enter_pressed' = [enter_pressed EXCEPT ![t] = 0]
    /\ typed' = [typed EXCEPT ![t] = 0]
    /\ rpc' = [rpc EXCEPT ![t] = "wait"]
    /\ ubuf' = [ubuf EXCEPT ![t] = <<>>]
    /\ UNCHANGED <<cur_terminal, run_terminal, ct>>

\* Mutant: the busy-wait polls the foreground terminal's flag.
ReadPollForeground(t) ==
    /\ run_terminal = t
    /\ rpc[t] = "wait"
    /\ enter_pressed[cur_terminal] = 1
    /\ rpc' = [rpc EXCEPT ![t] = "copy"]
    /\ ct' = [ct EXCEPT ![t] = 0]
    /\ UNCHANGED <<cur_terminal, run_terminal, keyboard_buffer, index,
                   enter_pressed, ubuf, typed>>

\* The busy-wait ends once enter_pressed is set (77).
ReadPoll(t) ==
    /\ run_terminal = t
    /\ rpc[t] = "wait"
    /\ enter_pressed[t] = 1
    /\ rpc' = [rpc EXCEPT ![t] = "copy"]
    /\ ct' = [ct EXCEPT ![t] = 0]
    /\ UNCHANGED <<cur_terminal, run_terminal, keyboard_buffer, index,
                   enter_pressed, ubuf, typed>>

\* The user buffer after the newline is copied at ct: the padding loop
\* (105-109) stores '\0' at buffer[ct] while ct + 1 < nbytes.
Padded(b, at) == IF at + 1 < NBYTES THEN [b EXCEPT ![at + 1] = NUL] ELSE b

\* One iteration of the copy loop (80-100) and, when it ends, the return.
ReadCopy(t) ==
    /\ run_terminal = t
    /\ rpc[t] = "copy"
    /\ IF ct[t] = NBYTES \/ ct[t] >= BUF_SIZE
         THEN /\ rpc' = [rpc EXCEPT ![t] = "idle"]
              /\ UNCHANGED <<ct, ubuf>>
         ELSE LET c == keyboard_buffer[t][ct[t]] IN
              IF c = NL
                THEN /\ ubuf' = [ubuf EXCEPT ![t] = Padded(Append(@, NL), ct[t])]
                     /\ rpc' = [rpc EXCEPT ![t] = "idle"]
                     /\ UNCHANGED ct
                ELSE /\ ubuf' = [ubuf EXCEPT ![t] = Append(@, c)]
                     /\ ct' = [ct EXCEPT ![t] = @ + 1]
                     /\ UNCHANGED rpc
    /\ UNCHANGED <<cur_terminal, run_terminal, keyboard_buffer, index,
                   enter_pressed, typed>>

-----------------------------------------------------------------------------

\* terminal_init (terminal.c 157-174) on the zeroed terminal[] array;
\* terminal 0 is in front and running.
Init ==
    /\ cur_terminal = 0
    /\ run_terminal = 0
    /\ keyboard_buffer = [t \in Terms |-> [i \in Slots |-> NUL]]
    /\ index = [t \in Terms |-> 0]
    /\ enter_pressed = [t \in Terms |-> 0]
    /\ rpc = [t \in Terms |-> "idle"]
    /\ ct = [t \in Terms |-> 0]
    /\ ubuf = [t \in Terms |-> <<>>]
    /\ typed = [t \in Terms |-> 0]

Keyboard == KeyPrintable \/ KeyEnter \/ KeyBackspace \/ \E n \in Terms : AltF(n)

Reader(t) == ReadStart(t) \/ ReadPoll(t) \/ ReadCopy(t)

Next == Keyboard \/ pit_handler \/ \E t \in Terms : Reader(t)

\* The tick is always enabled and always taken.  A process that the
\* scheduler resumes again and again keeps executing the loop it is in
\* (each slice is 10 ms): strong fairness for its steps inside
\* terminal_read, which are enabled only while its terminal runs.  Neither
\* the user at the keyboard nor the program's decision to call read is
\* assumed fair.
Fairness ==
    /\ WF_vars(pit_handler)
    /\ \A t \in Terms : SF_vars(ReadPoll(t)) /\ SF_vars(ReadCopy(t))

Spec == Init /\ [][Next]_vars /\ Fairness

-----------------------------------------------------------------------------
(* Properties                                                              *)

TypeOK ==
    /\ cur_terminal \in Terms /\ run_terminal \in Terms
    /\ keyboard_buffer \in [Terms -> [Slots -> Chars]]
    /\ index \in [Terms -> 0 .. TypeAhead]
    /\ enter_pressed \in [Terms -> {0, 1}]
    /\ rpc \in [Terms -> {"idle", "wait", "copy"}]
    /\ ct \in [Terms -> 0 .. BUF_SIZE]
    /\ \A t \in Terms : ubuf[t] \in Seq(Chars) /\ Len(ubuf[t]) <= BUF_SIZE
    /\ typed \in [Terms -> 0 .. TypeAhead]

\* Every store of keyboard_handler lands inside keyboard_buffer[128]: index
\* never passes 128.  Enter is stored at index++ with no bound check.
KeyboardBufferBounded == \A t \in Terms : index[t] <= BUF_SIZE

\* enter_pressed is set only while the line it announces, ending in a
\* newline, is in the buffer below index: terminal_read trusts the flag and
\* copies up to the first newline.
EnterMeansNewline ==
    \A t \in Terms :
        enter_pressed[t] = 1 =>
            \E i \in Slots : i < index[t] /\ keyboard_buffer[t][i] = NL

\* What a completed terminal_read leaves in the user buffer ends with the
\* newline, unless the read stopped because nbytes (or 128) bytes were
\* copied.  The tests count the newline in the result ("2 including '\n'").
ReadReturnsLine ==
    \A t \in Terms :
        (rpc[t] = "idle" /\ ubuf[t] # <<>>) =>
            \/ ubuf[t][Len(ubuf[t])] = NL
            \/ Len(ubuf[t]) = NBYTES
            \/ Len(ubuf[t]) = BUF_SIZE

\* A read of terminal t copies a line only once a key has been typed on t
\* since the read began: the clear of enter_pressed at entry (terminal.c
\* 76) keeps an Enter typed before the call from releasing the busy-wait
\* over an emptied buffer, and the wait (77) polls t's own flag, not the
\* flag of the terminal in front.  Violating it takes a key, a switch or a
\* tick, and the reader, in some order.
ReadWaitsForNewLine ==
    \A t \in Terms : rpc[t] = "copy" => typed[t] > 0

\* A read that has seen its terminal's Enter returns: the busy-wait ends and
\* the copy loop terminates, however the ticks and keys interleave.
ReadCompletes ==
    \A t \in Terms :
        (rpc[t] = "wait" /\ enter_pressed[t] = 1) ~> rpc[t] = "idle"

=============================================================================
