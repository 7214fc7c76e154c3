------------------------------- MODULE Signals -------------------------------
(***************************************************************************)
(* The signal table of one process (pcb.signals[5], system_calls.h 45-64)  *)
(* and the calls that change it: execute's initialisation                  *)
(* (system_calls.c 259-275), set_handler (592-622) and sigreturn           *)
(* (632-651).  frame is the trap frame the current system call will        *)
(* return through; int 0x80 from user mode pushes one with the user code   *)
(* selector, and sigreturn overwrites it with the hw_context found on the  *)
(* user stack.                                                             *)
(*                                                                         *)
(* The kernel delivers no signal: no code sets a flag, and KILL and        *)
(* IGNORE (661-701) are only values stored as handlers, never called.      *)
(* They are therefore not actions here.                                    *)
(***************************************************************************)
EXTENDS Integers

CONSTANTS
    NULL,                 \* a NULL handler_address
    USER_HANDLER,         \* a handler address in the user program
    KILL, IGNORE,         \* the two default actions, stored as handlers
    USER_CS, KERNEL_CS    \* code selectors a hw_context may hold

Signums == 0 .. 4
\* set_handler's signum, including one invalid value on either side.
CallSignums == -1 .. 5
Addresses == {NULL, USER_HANDLER}

\* The default action of signal s (system_calls.c 262-269, 600-608).
Default(s) == IF s < 3 THEN KILL ELSE IGNORE

VARIABLES
    handler,   \* signals[s].handler
    mask,      \* signals[s].mask
    flag,      \* signals[s].flag
    frame,     \* the trap frame the current call returns through
    last       \* the last call and what it returned

vars == <<handler, mask, flag, frame, last>>

\* execute of the process: every signal gets its default action, unmasked
\* and not raised; the iret frame is built for user mode
\* (system_calls.c 259-275).
Execute ==
    /\ handler' = [s \in Signums |-> Default(s)]
    /\ mask' = [s \in Signums |-> 0]
    /\ flag' = [s \in Signums |-> 0]
    /\ frame' = [cs |-> USER_CS]
    /\ last' = [call |-> "execute"]

\* set_handler(signum, handler_address) (system_calls.c 592-622): a NULL
\* address first installs the default action of a valid signum; then an
\* invalid signum returns -1, and a valid one gets handler_address stored.
SetHandler(signum, addr) ==
    LET defaulted == IF addr = NULL /\ signum \in Signums
                       THEN [handler EXCEPT ![signum] = Default(signum)]
                       ELSE handler
    IN  /\ handler' = IF signum \in Signums
                        THEN [defaulted EXCEPT ![signum] = addr]
                        ELSE defaulted
        /\ frame' = [cs |-> USER_CS]
        /\ last' = [call |-> "set_handler", signum |-> signum, addr |-> addr,
                    ret |-> IF signum \in Signums THEN 0 ELSE -1]
        /\ UNCHANGED <<mask, flag>>

\* sigreturn (system_calls.c 632-651): the hw_context at the user stack
\* pointer + 4 is copied over the trap frame, whatever it holds, and every
\* signal is unmasked.
Sigreturn(ctx) ==
    /\ frame' = ctx
    /\ mask' = [s \in Signums |-> 0]
    /\ last' = [call |-> "sigreturn", ret |-> 0]
    /\ UNCHANGED <<handler, flag>>

Init ==
    /\ handler = [s \in Signums |-> Default(s)]
    /\ mask = [s \in Signums |-> 0]
    /\ flag = [s \in Signums |-> 0]
    /\ frame = [cs |-> USER_CS]
    /\ last = [call |-> "execute"]

Next ==
    \/ Execute
    \/ \E signum \in CallSignums, addr \in Addresses : SetHandler(signum, addr)
    \/ \E cs \in {USER_CS, KERNEL_CS} : Sigreturn([cs |-> cs])

Spec == Init /\ [][Next]_vars

-----------------------------------------------------------------------------
(* Properties                                                              *)

TypeOK ==
    /\ handler \in [Signums -> {KILL, IGNORE, NULL, USER_HANDLER}]
    /\ mask \in [Signums -> {0, 1}] /\ flag \in [Signums -> {0, 1}]
    /\ frame \in [cs : {USER_CS, KERNEL_CS}]

\* set_handler(s, h); set_handler(s, NULL) restores the default action for
\* signal s (spec 8, round-trip laws): after a successful set_handler with a
\* NULL address, the signal's handler is its default action.  The code
\* installs the default and then overwrites it with the NULL address.
DefaultRestored ==
    (last.call = "set_handler" /\ last.addr = NULL /\ last.ret = 0)
        => handler[last.signum] = Default(last.signum)
=============================================================================
