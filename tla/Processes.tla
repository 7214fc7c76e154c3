------------------------------ MODULE Processes ------------------------------
(***************************************************************************)
(* Process model, system-call surface and round-robin scheduler of the     *)
(* kernel: execute, halt, open and close of                                *)
(* src/mp3/student-distrib/system_calls.c and pit_handler of               *)
(* src/mp3_group_07-master/student-distrib/pit.c.                          *)
(*                                                                         *)
(* One CPU.  cur is the pid whose 8 KiB kernel stack the CPU is on         *)
(* (get_pid()); only cur takes steps.  pc[p] abstracts where the thread on *)
(* p's stack is: running its user program ("user"), blocked in execute     *)
(* while its child runs ("wait"), or between two statements of execute     *)
(* or halt.  run_ctx[p] abstracts pcb->run_ebp: the point at which the     *)
(* timer tick last preempted p, where pit_handler resumes it.              *)
(***************************************************************************)
EXTENDS Integers, FiniteSets, Sequences

CONSTANTS
    MAX_PROCESSES,        \* entries of pid_bitmap (6)
    NUM_TERMINALS,        \* entries of schedule (3)
    FD_COUNT,             \* entries of file_descriptor_array (8)
    Statuses,             \* halt(status) arguments user programs pass
    StaleFds,             \* descriptor flag sets a never-used PCB may hold
    BOOTED,               \* start with all three base shells running
    UserActsDuringBoot,   \* user calls allowed while a terminal has no shell
    SyscallsPreemptible   \* the tick may land inside execute / halt

ASSUME MAX_PROCESSES >= NUM_TERMINALS /\ NUM_TERMINALS = 3 /\ FD_COUNT >= 2
ASSUME Statuses \subseteq 0..255
ASSUME StaleFds \subseteq SUBSET (0 .. FD_COUNT - 1) /\ StaleFds # {}

Pids  == 0 .. MAX_PROCESSES - 1
Terms == 0 .. NUM_TERMINALS - 1
Fds   == 0 .. FD_COUNT - 1
NO_PID    == -1    \* schedule[t] = -1: terminal not running
NO_PARENT == 255   \* parent_pid of a base shell
BaseShells == {0, 1, 2}   \* pids execute and halt treat as base shells

MinOf(S) == CHOOSE x \in S : \A y \in S : x <= y

\* Control points of the kernel thread on a pid's stack.
KernelPCs == {"ex_claim", "ex_sched", "ex_setup", "ex_load",
              "h_close", "h_sched", "h_ret"}
PCs == {"free", "user", "wait"} \cup KernelPCs

VARIABLES
    pid_bitmap,    \* pid_bitmap[6]
    schedule,      \* schedule[3]: the pid each terminal runs
    run_terminal,  \* the terminal whose process holds the CPU
    cur,           \* owner of the kernel stack in use (get_pid())
    pc,            \* control point of each pid's kernel thread
    run_ctx,       \* pcb->run_ebp, abstracted to the pc it resumes
    parent_pid,    \* pcb->parent_pid
    new_pid,       \* local new_pid of an execute in progress on p's stack
    fd_open,       \* indices whose file_descriptor_array[i].flags = 1
    user_page,     \* whose 4 MiB frame the 128 MiB directory entry maps
    tss_esp0,      \* whose kernel stack tss.esp0 points into
    image,         \* image[f]: whose program frame f holds
    halt_arg,      \* status argument of a halt in progress
    retval         \* %eax of the last return from execute to user mode

vars == <<pid_bitmap, schedule, run_terminal, cur, pc, run_ctx, parent_pid,
          new_pid, fd_open, user_page, tss_esp0, image, halt_arg, retval>>

-----------------------------------------------------------------------------
(* Helpers of system_calls.c                                               *)

\* The value halt hands back to the parent's execute (system_calls.c 29-40).
HaltReturnValue(s) == IF s = 1 THEN 256 ELSE 0

\* The free-pid scan of execute (system_calls.c 198-208) over a bitmap.
FreeIn(bm) == {i \in Pids : bm[i] = 0}

FreePids == FreeIn(pid_bitmap)

\* Mutant: the base-shell test is dropped, so every child records the
\* process it was started from as its parent.
ParentOfAlwaysCaller(c, p) == p

\* pcb->parent_pid of child c started on p's stack (system_calls.c
\* 222-227): none for the pids 0, 1 and 2.
ParentOf(c, p) == IF c \in BaseShells THEN NO_PARENT ELSE p

\* Mutants: the slot search drops one of its two conditions.
ScheduleChildEmptyOnly(c, par) ==
    LET slots == {i \in Terms : schedule[i] = NO_PID}
    IN  IF slots = {} THEN schedule ELSE [schedule EXCEPT ![MinOf(slots)] = c]

ScheduleChildParentOnly(c, par) ==
    LET slots == {i \in Terms : schedule[i] = par}
    IN  IF slots = {} THEN schedule ELSE [schedule EXCEPT ![MinOf(slots)] = c]

\* execute's slot search (system_calls.c 230-236): the child takes the
\* first terminal that is not running or runs its parent.
ScheduleChild(c, par) ==
    LET slots == {i \in Terms : schedule[i] = NO_PID \/ schedule[i] = par}
    IN  IF slots = {} THEN schedule
        ELSE [schedule EXCEPT ![MinOf(slots)] = c]

BootDone == \A t \in Terms : schedule[t] # NO_PID

\* A user program on the CPU may make a system call.
UserRuns(p) ==
    /\ pc[p] = "user"
    /\ UserActsDuringBoot \/ BootDone

-----------------------------------------------------------------------------
(* Timer tick: pit_handler (pit.c 37-95).  It runs with interrupts off; it *)
(* is taken whenever the CPU has interrupts on.                            *)

InterruptsOn == pc[cur] = "user" \/ (SyscallsPreemptible /\ pc[cur] \in KernelPCs)

\* new_pid = -1: execute("shell") on the interrupted process's stack, with
\* interrupts still off until its iret (pit.c 60-67, system_calls.c 198-315).
LaunchShell ==
    /\ FreePids # {}
    /\ LET c   == MinOf(FreePids)
           par == ParentOf(c, cur)
       IN  /\ pid_bitmap' = [pid_bitmap EXCEPT ![c] = 1]
           /\ parent_pid' = [parent_pid EXCEPT ![c] = par]
           /\ schedule'   = ScheduleChild(c, par)
           /\ fd_open'    = [fd_open EXCEPT ![c] = @ \cup {0, 1}]
           /\ user_page'  = c
           /\ image'      = [image EXCEPT ![c] = c]
           /\ tss_esp0'   = c
           /\ cur'        = c
           /\ pc'         = [pc EXCEPT ![c] = "user"]
    /\ UNCHANGED <<new_pid, halt_arg, retval>>

\* new_pid valid: map its frame, point tss.esp0 at its stack and resume it
\* at pcb->run_ebp (pit.c 69-94).
SwitchTo(q) ==
    /\ user_page' = q
    /\ tss_esp0'  = q
    /\ cur'       = q
    /\ pc' = [pc EXCEPT ![q] = IF run_ctx'[q] = "none" THEN @ ELSE run_ctx'[q]]
    /\ UNCHANGED <<pid_bitmap, schedule, parent_pid, fd_open, image,
                   new_pid, halt_arg, retval>>

\* Mutant: the save of %ebp into cur_pcb->run_ebp is lost.
SaveRunEbpLost == run_ctx

\* cur_pcb->run_ebp = %ebp (pit.c 47-50).
SaveRunEbp == [run_ctx EXCEPT ![cur] = pc[cur]]

\* Mutant: the wrong modulus.
NextTerminalTwo(rt) == (rt + 1) % (NUM_TERMINALS - 1)

\* run_terminal = (run_terminal + 1) % 3 (pit.c 55).
NextTerminal(rt) == (rt + 1) % NUM_TERMINALS

pit_handler ==
    /\ InterruptsOn
    /\ run_ctx' = SaveRunEbp
    /\ run_terminal' = NextTerminal(run_terminal)
    /\ IF schedule[run_terminal'] = NO_PID
         THEN LaunchShell
         ELSE SwitchTo(schedule[run_terminal'])

-----------------------------------------------------------------------------
(* execute (system_calls.c 120-317), one step per stretch of statements    *)
(* between which the tick could land.                                      *)

\* Command parsing, dentry lookup or ELF magic fails: -1 (134-197).
ExecuteFails(p) ==
    /\ UserRuns(p)
    /\ retval' = -1
    /\ UNCHANGED <<pid_bitmap, schedule, run_terminal, cur, pc, run_ctx,
                   parent_pid, new_pid, fd_open, user_page, tss_esp0, image,
                   halt_arg>>

\* Mutant: the "if (i == 6) return -1" check is dropped, so new_pid = 6.
FindPidUnchecked(p, bm, onFail) ==
    /\ new_pid' = [new_pid EXCEPT ![p] = MinOf(FreeIn(bm) \cup {MAX_PROCESSES})]
    /\ pc' = [pc EXCEPT ![p] = "ex_claim"]
    /\ UNCHANGED retval

\* The pid scan (198-216) over bitmap bm; onFail is where control goes if
\* no pid is free.
FindPid(p, bm, onFail) ==
    IF FreeIn(bm) # {}
      THEN /\ new_pid' = [new_pid EXCEPT ![p] = MinOf(FreeIn(bm))]
           /\ pc' = [pc EXCEPT ![p] = "ex_claim"]
           /\ UNCHANGED retval
      ELSE /\ pc' = [pc EXCEPT ![p] = onFail]
           /\ retval' = -1
           /\ UNCHANGED new_pid

ExecuteStart(p) ==
    /\ UserRuns(p)
    /\ FindPid(p, pid_bitmap, "user")
    /\ UNCHANGED <<pid_bitmap, schedule, run_terminal, cur, run_ctx,
                   parent_pid, fd_open, user_page, tss_esp0, image, halt_arg>>

\* Claim the pid and fill pid / parent_pid of its PCB (204-228).
ExecuteClaim(p) ==
    /\ pc[p] = "ex_claim"
    /\ LET c == new_pid[p] IN
       /\ pid_bitmap' = [pid_bitmap EXCEPT ![c] = 1]
       /\ parent_pid' = [parent_pid EXCEPT ![c] = ParentOf(c, p)]
    /\ pc' = [pc EXCEPT ![p] = "ex_sched"]
    /\ UNCHANGED <<schedule, run_terminal, cur, run_ctx, new_pid, fd_open,
                   user_page, tss_esp0, image, halt_arg, retval>>

ExecuteSchedule(p) ==
    /\ pc[p] = "ex_sched"
    /\ schedule' = ScheduleChild(new_pid[p], parent_pid[new_pid[p]])
    /\ pc' = [pc EXCEPT ![p] = "ex_setup"]
    /\ UNCHANGED <<pid_bitmap, run_terminal, cur, run_ctx, parent_pid, new_pid,
                   fd_open, user_page, tss_esp0, image, halt_arg, retval>>

\* args, descriptors 0 and 1, signal table, then the 4 MiB mapping (238-280).
ExecuteSetup(p) ==
    /\ pc[p] = "ex_setup"
    /\ fd_open' = [fd_open EXCEPT ![new_pid[p]] = @ \cup {0, 1}]
    /\ user_page' = new_pid[p]
    /\ pc' = [pc EXCEPT ![p] = "ex_load"]
    /\ UNCHANGED <<pid_bitmap, schedule, run_terminal, cur, run_ctx,
                   parent_pid, new_pid, tss_esp0, image, halt_arg, retval>>

\* Copy the program into whatever frame is mapped, set tss.esp0, save
\* esp/ebp into the child's PCB and iret into the child (281-316).
ExecuteLoad(p) ==
    /\ pc[p] = "ex_load"
    /\ LET c == new_pid[p] IN
       /\ image' = [image EXCEPT ![user_page] = c]
       /\ tss_esp0' = c
       /\ cur' = c
       /\ pc' = [pc EXCEPT ![p] = "wait", ![c] = "user"]
    /\ new_pid' = [new_pid EXCEPT ![p] = NO_PID]
    /\ UNCHANGED <<pid_bitmap, schedule, run_terminal, run_ctx, parent_pid,
                   fd_open, user_page, halt_arg, retval>>

-----------------------------------------------------------------------------
(* halt (system_calls.c 20-109)                                            *)

\* Free the pid; a base shell then re-executes "shell" on its own stack,
\* and continues halting only if that execute fails (22-55).
HaltStart(p, s) ==
    /\ UserRuns(p)
    /\ pid_bitmap' = [pid_bitmap EXCEPT ![p] = 0]
    /\ halt_arg' = [halt_arg EXCEPT ![p] = s]
    /\ IF p \in BaseShells
         THEN FindPid(p, pid_bitmap', "h_close")
         ELSE /\ pc' = [pc EXCEPT ![p] = "h_close"]
              /\ UNCHANGED <<new_pid, retval>>
    /\ UNCHANGED <<schedule, run_terminal, cur, run_ctx, parent_pid, fd_open,
                   user_page, tss_esp0, image>>

\* An exception in p's user program: the vector's stub calls
\* handle_exception, which prints and calls halt(1) (idt.c 27-115; the
\* stubs are installed at 166-185).  The stubs are interrupt gates, so
\* interrupts stay off through the halt.  This matches a model whose
\* kernel paths are atomic, and the exception is taken only there.
handle_exception(p) ==
    /\ ~SyscallsPreemptible
    /\ HaltStart(p, 1)

HaltClose(p) ==
    /\ pc[p] = "h_close"
    /\ fd_open' = [fd_open EXCEPT ![p] = {}]
    /\ pc' = [pc EXCEPT ![p] = "h_sched"]
    /\ UNCHANGED <<pid_bitmap, schedule, run_terminal, cur, run_ctx,
                   parent_pid, new_pid, user_page, tss_esp0, image, halt_arg,
                   retval>>

HaltSchedule(p) ==
    /\ pc[p] = "h_sched"
    /\ schedule' = [t \in Terms |-> IF schedule[t] = p THEN parent_pid[p]
                                                       ELSE schedule[t]]
    /\ pc' = [pc EXCEPT ![p] = "h_ret"]
    /\ UNCHANGED <<pid_bitmap, run_terminal, cur, run_ctx, parent_pid, new_pid,
                   fd_open, user_page, tss_esp0, image, halt_arg, retval>>

\* Mutant: tss.esp0 is left on the halted process's stack.
HaltReturnStaleEsp0(p) ==
    /\ pc[p] = "h_ret"
    /\ parent_pid[p] \in Pids
    /\ LET q == parent_pid[p] IN
       /\ user_page' = q
       /\ cur' = q
       /\ pc' = [pc EXCEPT ![p] = "free", ![q] = "user"]
       /\ retval' = HaltReturnValue(halt_arg[p])
    /\ halt_arg' = [halt_arg EXCEPT ![p] = 0]
    /\ UNCHANGED <<pid_bitmap, schedule, run_terminal, run_ctx, parent_pid,
                   new_pid, fd_open, image, tss_esp0>>

\* Map the parent's frame, point tss.esp0 at its stack and unwind to the
\* esp/ebp saved by execute: the parent's execute returns (79-105).
HaltReturn(p) ==
    /\ pc[p] = "h_ret"
    /\ parent_pid[p] \in Pids
    /\ LET q == parent_pid[p] IN
       /\ user_page' = q
       /\ tss_esp0' = q
       /\ cur' = q
       /\ pc' = [pc EXCEPT ![p] = "free", ![q] = "user"]
       /\ retval' = HaltReturnValue(halt_arg[p])
    /\ halt_arg' = [halt_arg EXCEPT ![p] = 0]
    /\ UNCHANGED <<pid_bitmap, schedule, run_terminal, run_ctx, parent_pid,
                   new_pid, fd_open, image>>

-----------------------------------------------------------------------------
(* open and close (system_calls.c 404-524), on the descriptor flags        *)

\* open of an existing file of a valid type takes the lowest free index.
open(p) ==
    /\ UserRuns(p)
    /\ Fds \ fd_open[p] # {}
    /\ fd_open' = [fd_open EXCEPT ![p] = @ \cup {MinOf(Fds \ fd_open[p])}]
    /\ UNCHANGED <<pid_bitmap, schedule, run_terminal, cur, pc, run_ctx,
                   parent_pid, new_pid, user_page, tss_esp0, image, halt_arg,
                   retval>>

close(p, fd) ==
    /\ UserRuns(p)
    /\ fd >= 2
    /\ fd \in fd_open[p]
    /\ fd_open' = [fd_open EXCEPT ![p] = @ \ {fd}]
    /\ UNCHANGED <<pid_bitmap, schedule, run_terminal, cur, pc, run_ctx,
                   parent_pid, new_pid, user_page, tss_esp0, image, halt_arg,
                   retval>>

-----------------------------------------------------------------------------

\* After kernel entry has run execute("shell") (pid 0 in terminal 0), or,
\* with BOOTED, after the first ticks have started all three base shells.
\* PCBs of unused pids are uninitialised memory: any descriptor flags.
Init ==
    LET live == IF BOOTED THEN BaseShells ELSE {0} IN
    /\ pid_bitmap = [p \in Pids |-> IF p \in live THEN 1 ELSE 0]
    /\ schedule = [t \in Terms |-> IF t \in live THEN t ELSE NO_PID]
    /\ run_terminal = 0
    /\ cur = 0
    /\ pc = [p \in Pids |-> IF p \in live THEN "user" ELSE "free"]
    /\ run_ctx = [p \in Pids |-> IF p \in live \ {0} THEN "user" ELSE "none"]
    /\ parent_pid = [p \in Pids |-> NO_PARENT]
    /\ new_pid = [p \in Pids |-> NO_PID]
    /\ fd_open \in {f \in [Pids -> StaleFds \cup {{0, 1}}] :
                      \A p \in live : f[p] = {0, 1}}
    /\ user_page = 0
    /\ tss_esp0 = 0
    /\ image = [f \in Pids |-> IF f \in live THEN f ELSE NO_PID]
    /\ halt_arg = [p \in Pids |-> 0]
    /\ retval = 0

KernelStep(p) ==
    \/ ExecuteClaim(p) \/ ExecuteSchedule(p) \/ ExecuteSetup(p)
    \/ ExecuteLoad(p)  \/ HaltClose(p) \/ HaltSchedule(p) \/ HaltReturn(p)

UserStep(p) ==
    \/ ExecuteFails(p)
    \/ ExecuteStart(p)
    \/ \E s \in Statuses : HaltStart(p, s)
    \/ handle_exception(p)
    \/ open(p)
    \/ \E fd \in Fds : close(p, fd)

Next == pit_handler \/ KernelStep(cur) \/ UserStep(cur)

\* The PIC latches IRQ0 until the CPU takes it, so a tick pending while
\* interrupts are intermittently off is eventually taken: strong fairness.
\* The CPU keeps executing kernel code it has entered: weak fairness.
\* User programs are not obliged to make any call.
Fairness == SF_vars(pit_handler) /\ WF_vars(KernelStep(cur))

Spec == Init /\ [][Next]_vars /\ Fairness

-----------------------------------------------------------------------------
(* Properties                                                              *)

TypeOK ==
    /\ pid_bitmap \in [Pids -> {0, 1}]
    /\ schedule \in [Terms -> Pids \cup {NO_PID, NO_PARENT}]
    /\ run_terminal \in Terms
    /\ cur \in Pids
    /\ pc \in [Pids -> PCs]
    /\ run_ctx \in [Pids -> PCs \cup {"none"}]
    /\ parent_pid \in [Pids -> Pids \cup {NO_PARENT}]
    /\ new_pid \in [Pids -> Pids \cup {NO_PID}]
    /\ fd_open \in [Pids -> SUBSET Fds]
    /\ user_page \in Pids /\ tss_esp0 \in Pids
    /\ image \in [Pids -> Pids \cup {NO_PID}]
    /\ halt_arg \in [Pids -> Statuses \cup {0, 1}]
    /\ retval \in {-1, 256} \cup Statuses \cup {0}

\* No kernel thread is between two statements of execute or halt.
Quiescent == \A p \in Pids : pc[p] \in {"free", "user", "wait"}

\* p, its parent, its parent's parent, ... (at most MAX_PROCESSES of them).
RECURSIVE Lineage(_, _)
Lineage(p, n) ==
    IF n = 0 \/ parent_pid[p] \notin Pids THEN {p}
    ELSE {p} \cup Lineage(parent_pid[p], n - 1)

TermChain(t) == Lineage(schedule[t], MAX_PROCESSES)

\* Each running terminal holds one chain of nested executes: the process
\* schedule[] names is runnable, every ancestor is blocked in execute, the
\* chain ends in a live base shell; chains of different terminals are
\* disjoint, every live process is on one, and pid_bitmap marks exactly the
\* live pids.  Broken if execute puts a child in the wrong slot, if halt
\* hands the slot to the wrong process, or if a pid is freed or reused
\* while its process lives.
ProcessTree ==
    Quiescent =>
    /\ \A p \in Pids : pid_bitmap[p] = 1 <=> pc[p] # "free"
    /\ \A t \in Terms : schedule[t] \in Pids =>
         /\ pc[schedule[t]] = "user"
         /\ \A a \in TermChain(t) \ {schedule[t]} : pc[a] = "wait"
         /\ \E b \in TermChain(t) :
              parent_pid[b] = NO_PARENT /\ b \in BaseShells /\ pc[b] # "free"
    /\ \A t, u \in Terms :
         (t # u /\ schedule[t] \in Pids /\ schedule[u] \in Pids)
           => TermChain(t) \cap TermChain(u) = {}
    /\ \A p \in Pids : pc[p] # "free" =>
         \E t \in Terms : schedule[t] \in Pids /\ p \in TermChain(t)

\* Whenever a user program is on the CPU it is the process of the running
\* terminal (so terminal_read / putc use its own terminal), its own 4 MiB
\* frame is mapped and holds its own program, and the next trap lands on
\* its own kernel stack.  pit_handler, execute and halt each rewrite the
\* directory entry and tss.esp0; a stale or misplaced rewrite breaks this.
AddressSpace ==
    (Quiescent /\ pc[cur] = "user") =>
    /\ schedule[run_terminal] = cur
    /\ user_page = cur
    /\ image[cur] = cur
    /\ tss_esp0 = cur

\* Terminal t's programs as a stack: the pids on the parent_pid chain from
\* its base shell up to schedule[t], which execute extends and halt cuts.
RECURSIVE ChainSeq(_, _)
ChainSeq(p, n) ==
    IF n = 0 \/ parent_pid[p] \notin Pids THEN <<p>>
    ELSE Append(ChainSeq(parent_pid[p], n - 1), p)

ProgramStack(t) ==
    IF schedule[t] \in Pids THEN ChainSeq(schedule[t], MAX_PROCESSES) ELSE <<>>

Stacks == INSTANCE ProgramStacks WITH
    stack <- [t \in Terms |-> ProgramStack(t)],
    run <- run_terminal

\* The kernel implements ProgramStacks: every step of execute, halt,
\* handle_exception and pit_handler is a push of a fresh pid onto the
\* running terminal's stack, a pop of its top, a move to the next terminal
\* (starting a shell there only if it has none), or leaves every stack and
\* the running terminal alone.  A slot search that picks another terminal,
\* a halt that hands the slot to anyone but the parent, a tick that skips a
\* terminal or a base shell restarted under another pid breaks it.
ProgramStacksSpec == Stacks!Spec

\* pit_handler resumes the next terminal's process at pcb->run_ebp.  That
\* context must be the process's current one: it must never restart a
\* process that has since called execute (and is waiting for its child),
\* nor one whose run_ebp was never saved.
ResumeFresh ==
    [][run_terminal' # run_terminal /\ schedule[run_terminal'] \in Pids =>
         run_ctx'[schedule[run_terminal']] = pc[schedule[run_terminal']]]_vars

\* spec 4.9: execute returns the status the child passed to halt, or 256
\* when the child died by an exception (status 1).
ExecuteReturnsStatus ==
    [][\A c \in Pids :
         (pc[c] = "h_ret" /\ pc'[c] = "free") =>
            retval' =
               IF halt_arg[c] = 1 THEN 256 ELSE halt_arg[c]]_vars

\* A program started by execute begins with exactly descriptors 0 and 1
\* open (spec 4.7: "Install descriptors 0 and 1").
FreshStdio ==
    [][\A p \in Pids :
         (pc[p] = "ex_load" /\ pc'[p] # "ex_load") =>
            fd_open'[new_pid[p]] = {0, 1}]_vars

\* Under the timer, every terminal that has a process is served again and
\* again: the CPU reaches it with the process runnable.
TerminalsServed ==
    \A t \in Terms :
        []<>(run_terminal = t /\ cur = schedule[t] /\ pc[cur] = "user")

\* The ticks after kernel entry give every terminal a shell, for good.
AllTerminalsStart == <>[](\A t \in Terms : schedule[t] \in Pids)

=============================================================================
