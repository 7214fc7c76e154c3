# TLA+ models of the ECE 391 kernel

This directory holds TLA+ models of the x86 teaching kernel under
`src/mp3/student-distrib` and `src/mp3_group_07-master/student-distrib`. It also
lists the MP2 user-level and driver code under `src/mp2*`. TLC checks the models
with the configurations that sit beside them. `PROJECT.json` records:

- every component, and whether it is modelled;
- every run and the properties it checks;
- a mutant for each property of a passing run;
- the source lines each definition translates;
- the hazards of the code and the findings.

## The system

| Part | Source | State | Operations |
|------|--------|-------|------------|
| process control | `system_calls.c` | `pid_bitmap[6]`, `schedule[3]`, `run_terminal`; per pid a PCB at `0x800000 - (pid+1)*0x2000` (fd array[8], `parent_pid`, `esp`/`ebp` saved by execute, `run_ebp` saved by the scheduler, `signals[5]`) | `execute`, `halt`, `read`, `write`, `open`, `close`, `getargs`, `vidmap`, `set_handler`, `sigreturn` |
| scheduler | `pit.c` | `run_terminal`, `schedule`, PCB `run_ebp`, `tss.esp0`, the 4 MiB user page | `pit_handler` on IRQ0 |
| IDT | `idt.c` | gate types | `idt_init`; exceptions call `halt(1)` |
| paging | `page.c` | page directory / video page table | `page_init`, `set_pde`, `set_pte` |
| terminals | `terminal.c` | `terminal[3]`: line buffer, `index`, `enter_pressed`, cursor; backing video pages | `terminal_read/write/open/close`, `memory_switch` |
| keyboard | `keyboard.c` | modifier flags, `cur_terminal` (displayed) | `keyboard_handler` on IRQ1 |
| file system | `filesystem.c` | boot block, global `file_idx` | `read_dentry_by_*`, `read_data`, `file_*`, `dir_*` |
| RTC | `rtc.c` | `rtc_counter`, `freq[3]`, `intr[3]` | `rtc_handler` on IRQ8, `RTC_open/read/write/close` |
| PIC | `i8259.c` | master/slave masks | `enable_irq`, `disable_irq`, `send_eoi` |
| cursor, tests | `cursor.c`, `tests.c` | none | port I/O, test harness |
| MP2 | `tuxctl-ioctl.c`, `photo.c` | Tux ACK flag, LED state; a photo's `img` and `palette` | ioctl/packet handler; `read_photo` octree quantisation; `read_obj_image`, `fill_horiz_buffer`, `fill_vert_buffer` |

The parts interact as follows:

- The PIT tick (`pit_handler`) runs on the kernel stack of the interrupted
  process. It saves that stack's `%ebp` into the PCB's `run_ebp`, moves
  `run_terminal` to the next terminal, and then acts on that terminal's slot:
  - If the slot is `-1`, it calls `execute("shell")` on the current stack.
  - Otherwise it remaps the 128 MiB user page, sets `tss.esp0`, and returns
    through the next process's `run_ebp`.
- `execute` runs on the parent's stack. It claims a pid, puts the child in the
  first slot that is `-1` or holds its parent, installs fds 0 and 1, loads the
  program, and `iret`s.
- `halt` frees the pid and closes files. It hands the slot back to the parent
  and unwinds to the `esp`/`ebp` that execute saved. A base shell (pid 0, 1 or
  2) first re-executes `"shell"`.
- `int 0x80` is a trap gate (`idt.c` 149-152), so system calls run with
  interrupts on. Only the IRQ handlers run with interrupts off.

## Modules

### `Processes` (with `MCProcesses`)

This module models process control and the scheduler.

**Variables.** Each variable corresponds to a part of the code:

- `pid_bitmap`, `schedule`, `run_terminal` are the C globals.
- `parent_pid` and `fd_open` are the PCB fields. `fd_open` is the set of
  indices whose flag is 1.
- `user_page` is the frame the user directory entry maps.
- `tss_esp0` is whose kernel stack `tss.esp0` points into.
- `image[f]` is whose program frame `f` holds.
- `cur` is the pid whose kernel stack the CPU uses, which is what `get_pid()`
  computes from `%esp`.
- `pc[p]` is the control point of the thread on `p`'s stack:
  - `"user"`: running its program;
  - `"wait"`: inside execute while its child runs;
  - `"ex_*"`, `"h_*"`: between two statements of execute or halt.
- `run_ctx[p]` abstracts `run_ebp` to the control point it resumes.
- `new_pid` is execute's local. `halt_arg` is halt's argument. `retval` is the
  `%eax` that execute returns.

**Actions.**

- `pit_handler` is the whole handler:
  - `SaveRunEbp`, then `NextTerminal`;
  - then `LaunchShell`, an execute of `"shell"` with interrupts off until its
    `iret`, or `SwitchTo`.
- Execute is split where a tick could land: `ExecuteStart` (pid scan),
  `ExecuteClaim`, `ExecuteSchedule`, `ExecuteSetup` (fds 0/1 and the page),
  `ExecuteLoad` (copy, tss, iret). `ExecuteFails` is command parsing, lookup
  or ELF magic failing.
- Halt is split the same way: `HaltStart` (free the pid; a base shell
  re-executes), `HaltClose`, `HaltSchedule`, `HaltReturn`.
- `handle_exception` is an exception in the user program. Each of the
  twenty stubs of `idt.c` calls it, and it calls halt(1). The stubs are
  interrupt gates, so that halt runs with interrupts off. The action is
  therefore taken only where kernel paths are atomic
  (`SyscallsPreemptible` FALSE).
- `open` takes the lowest free descriptor. `close` refuses 0 and 1 and closed
  descriptors.
- `read` and `write` change only data the properties do not tell apart, so
  they are left out. execute's command parsing, its header check and
  `getargs` are operators of `FileSystem`. Here execute succeeds or fails
  nondeterministically.

**Refinement.** `ProgramStacks` is the promise of spec 4 and 5 without the
mechanism. Each terminal has a stack of programs, base shell first. Only the
top of the running terminal's stack takes steps. The abstract actions are:

- `Execute(c)` pushes a fresh pid;
- `Halt` pops the top, but never a base shell (whose halt restarts a shell
  in place, a stutter);
- `Tick` moves to the next terminal and starts a shell there if it has none.

`ProgramStack(t)` reads terminal t's stack off the `parent_pid` chain from
`schedule[t]` down to its base shell (`ChainSeq`). The processes run checks
`ProgramStacksSpec`. `ProcessTree` says each state is well formed. The
refinement adds what each step may do: only the running terminal's stack
changes; it changes by one push or pop at its top; a pid comes back only
after it has left every stack; and the scheduler visits the terminals in
turn.

**Constants.**

- `SyscallsPreemptible` decides whether the tick may land inside execute or
  halt. In the code it may. The passing runs set it to FALSE, which is the
  interrupts-off discipline that spec 5 requires. `preempt_syscall` sets it to
  TRUE.
- `BOOTED` starts with three shells running; otherwise only pid 0 runs. Kernel
  entry (`kernel.c`, not in the repository) executes the first shell. The
  runs start from pid 0 alone; the booted start is kept for exploring.
- `UserActsDuringBoot` lets that first shell run commands before the ticks
  have started the other two.
- `StaleFds` is the descriptor flags a never-used PCB may hold (zeroed or
  garbage memory).

**Bounds.**

- 3 terminals, as in the code.
- 5 pids instead of the code's 6. This still reaches "no free pid"
  (3 shells + 2 children) and chains of depth 3. With 6 pids the run
  grows past 16 million states.
- 3 descriptor slots: 0, 1 and one user file. That is enough for leaks, for
  open on a full table, and for close.
- Programs halt with status 0, and exceptions halt with 1. With `Statuses <- MCAllStatuses` (0 and 2), TLC finds `ExecuteReturnsStatus` violated (see below).

### `TerminalInput` (with `MCTerminalInput`)

This module models the keyboard line buffers (`keyboard.c`) and
`terminal_read` (`terminal.c` 59-114).

- **State.** `keyboard_buffer`, `index` and `enter_pressed` are the fields of
  `terminal[t]`. `cur_terminal` is the foreground terminal and `run_terminal`
  the running one. `rpc[t]` is where terminal t's process is in
  `terminal_read` (`idle`, `wait` in the busy-wait, `copy` in the loop), with
  its loop counter `ct[t]` and what it has stored in the user buffer,
  `ubuf[t]`. `typed[t]` counts keys since the last clear (a bound only).
- **Characters** are abstracted to NUL, the newline and one printable
  character per terminal, tagged with the terminal it was typed on.
- **Keyboard actions**, one per path of `keyboard_handler` that changes
  state: `KeyPrintable` (stored only below index 127), `KeyEnter` (stored at
  `index++` with no bound), `KeyBackspace` (`index--` only), `AltF(n)`.
  The handler runs on an interrupt gate, so each is atomic.
- **Read actions.** `ReadStart` (clear, 72-76), `ReadPoll` (the busy-wait,
  77), `ReadCopy` (one loop iteration, the return, and on the newline the
  padding loop, via `Padded`). Interrupts stay on, so keys and ticks
  interleave with every iteration.
- **Bounds.** 2 terminals (isolation needs two; three made the liveness
  check slow without new cases), a 3-byte buffer and `nbytes` = 3, so that
  a full line, the 127-character cutoff (here 2) and the overflow by Enter
  all happen. `TypeAhead` bounds the keys between two reads.

### `Video` and `Consoles`

`Consoles` is the abstract promise of spec 2 and 8: three screens, one in
front, and a write by the running terminal's process goes to that
terminal's screen. `Video` is the code: one physical page `VIDEO`, backing
pages `VIDEO + 2..4` (`page.c` 32-35), the pages `video_pte` and
`user_video_pte` that the kernel's VIDEO entry and the user video entry map
(`memory_switch` rewrites both), and `content[page][u]`, how many characters terminal u's processes
wrote into each page.

- `terminal_write` writes through `video_pte`.
- `UserVideoWrite` is a program storing a character at the address vidmap
  returned (`system_calls.c` 563-583), through `user_video_pte`. The 136 MiB
  directory entry that vidmap installs is not kept as state: a store before
  any vidmap would fault, so allowing it only adds behaviours. Keeping it
  doubled the composed run past its time limit.
- `AltF(n)` copies the screen to the old foreground's backing page, copies
  n's page to the screen, sets `cur_terminal` and calls
  `memory_switch(run_terminal)` (`keyboard.c` 143-207).
- `pit_handler` advances `run_terminal` and calls `memory_switch` (`pit.c`
  55-76).

The refinement mapping sends a terminal's screen to `VIDEO` when it is in
front and to its backing page otherwise. `Video` is checked through
`Terminals` (below), whose run checks `Consoles!Spec` as a property.

Spec 8 also states that the foreground terminal's backing page equals the
screen byte for byte. The code does not keep it: while a terminal is in
front, `memory_switch` maps `VIDEO` to the physical page, so its backing
page is only refreshed by the copy at the next alt+F. The refinement shows
that this is harmless: the backing page of the foreground terminal is not
its screen, and nothing reads it before the copy.

### `Terminals` (with `MCTerminals`)

`Terminals` composes `TerminalInput` and `Video` through two named
instances, `In` and `Vid`, that share `cur_terminal` and `run_terminal`.
It is the terminal subsystem as the code runs it:

- `AltF(n)` is one `keyboard_handler` call (`keyboard.c` 143-207): it moves
  the keyboard's target and swaps the screen copies in the same step, so it
  is `In!AltF(n) /\ Vid!AltF(n)`.
- `pit_handler` likewise moves the reader's CPU and remaps `VIDEO` at once.
- `Key` (the other key paths) and `Read(t)` change only the input half,
  and `Write` and `UserVideo` (stores through vidmap's page) only the
  video half.
- `Write` and `UserVideo` require the running terminal's process to be outside
  `terminal_read`: a process is in one system call at a time.

The run `terminals` checks the properties of both halves on the
composition:

- `ReadWaitsForNewLine` and `ReadCompletes` while writes interleave with reads;
- `ConsolesSpec` while keys and reads interleave with switches, and with
  programs writing through vidmap's page.

Bounds: 2 terminals (isolation and the refinement need two), a 3-byte
buffer, `nbytes` = 3, 3 keys of type-ahead and one write per terminal.
These are enough for a write before and after every kind of switch, and
for a full line, the cutoff and the overflow.

### `Signals` (with `MCSignals`)

This module models one process's `signals[5]` table (`system_calls.h`
45-64) and the calls that change it:

- `Execute` gives each signal its default: KILL for 0-2, IGNORE for 3-4
  (`system_calls.c` 259-275).
- `SetHandler(signum, addr)` (592-622) has two steps. A NULL address first
  installs the default of a valid signum. Then a valid signum gets `addr`
  stored, and an invalid one returns -1.
- `Sigreturn(ctx)` (632-651) copies the `hw_context` from the user stack
  over the trap frame and unmasks every signal.

Addresses are NULL or one user handler, signums range over -1..5, and the
frame is abstracted to its code selector. The kernel delivers no signal:
nothing sets a flag, and KILL and IGNORE are never called. So delivery is
not modelled. The module states `DefaultRestored` (spec 8's round-trip
law: `set_handler(s, NULL)` restores the default action). TLC finds it
violated in two states: the code installs the default and then overwrites
it with the NULL address (`system_calls.c` 618). One call reaches it, so no
run keeps it (see below); `handler_default.cfg` shows the trace.

### `Keyboard` (with `MCKeyboard`)

This module models `keyboard_handler` (`keyboard.c` 80-355) as a scan-code
decoder for the foreground terminal's line:

- **Flags.** `ShiftKey`, `CtrlKey`, `CapsKey` and `AltKey` set and clear the
  five modifier flags (84-142). Caps Lock toggles `capital` only on the
  first press code of a hold, because the keyboard repeats the press code.
- **Tables.** `scan_code_match`, `scan_code_shift` and `scan_code_capital`
  (18-58) are restricted to six keys: a letter, `l`, a digit, `[`, Enter and
  keypad `*`, whose entries are all `'\0'`. Scan codes are the numbers of
  `keyboard.h`.
- **Printable keys.** `Printable` is the four branches of 240-355. `Echo` is
  the table `putc` echoes from. `Stored` is the bound test: a newline always,
  otherwise below `LINE_MAX` (the code's 127). The three modifier branches
  also store a `'\0'`, which the plain branch skips.
- **Other keys.** `Backspace`, `CtrlL` (the line is kept) and `Ignored` (Tab,
  Esc, and F keys, whose switch is in `TerminalInput`).

`line` is `keyboard_buffer[0 .. index - 1]`, and `shown` is the same line
as echoed. The run `keyboard_case` finds `BufferTranslated` (`line =
shown`) violated: every modifier branch stores `scan_code_match`, so
shift+1 shows `!` and read returns `1`.

### `FileSystem` (with `MCFileSystem`)

The file system as processes reach it through `open`, `read` and `close`.

- `ReadData` is `read_data` (`filesystem.c` 75-121) as an operator. Its copy
  loop is the recursive `CopyBlocks`, one call per data block with the four
  `bytes_to_copy` cases. A byte is abstracted to its address in the image,
  `<<data block, offset>>`, so a wrong block or offset shows in the result.
- `ReadDentryByName` is `read_dentry_by_name` (`filesystem.c` 19-41). It
  refuses names longer than 32 bytes and returns the first entry that
  `strncmp(fname, file_name, 32)` matches. `Strncmp` follows the C library
  function, from the spec, because `lib.c` is not in the repository. Names
  are sequences of nonzero bytes. A `file_name` is its bytes up to its first
  zero, so a full-length one has no terminator.
- `open(f)` (`OpenFile(p, f)`, `OpenDir(p, f)`) looks `f` up and dispatches
  on the entry's type (`OpensAs`). `f` ranges over every name up to one
  byte longer than a `file_name`. A name not found opens nothing, and that
  failed call changes no state.
- `OpenFile`, `ReadFile`, `CloseFile` are the system calls on a regular file.
  `ReadFile` is `file_read` calling `read_data` at the descriptor's position,
  then `read()` advancing the position by the count (`Advance`).
- `OpenDir`, `ReadDir`, `CloseDir` are the calls on the directory. `ReadDir`
  is `dir_read`, which walks the global `file_idx`.
- **Bounds.** 2-byte blocks stand for 4 KiB ones; reads of 1 to 3 bytes;
  files of 0 to 6 bytes in three out-of-order data blocks. These reach every
  `bytes_to_copy` case: a range inside one block, and ranges that start
  mid-block, end mid-block or cross a whole block. The directory has 2
  entries and each open reads it at most 4 times, enough to reach the end
  and the wrap-around. Names are 2 bytes instead of 32. Entry 0 is the
  regular file, whose name `<<1, 2>>` fills its `file_name`. Entry 1 is
  the directory, whose name `<<1>>` is a prefix of entry 0's. The passing run has one process, because file
  descriptors are per process; `dir_listing` has two, because `file_idx` is
  shared.

**execute's command line** (`system_calls.c` 134-197) and **`getargs`**
(534-557) are operators of a command.
- `Parse` uses three loops: `SkipSpaces`, `CopyFilename` (which fails when a
  33rd character is left to copy) and `CopyArg` (which copies one word, up to
  the next space).
- `ExecuteLoad` then runs `ReadDentryByName` on the parsed name, reads a
  `HEADER_LEN`-byte header with `ReadData`, and compares its first
  `MAGIC_LEN` bytes with the magic.
- Every entry names the one modelled inode. That matches the code, which loads
  through `inode_num` whatever the entry's type.
- The magic is a parameter of the image: either the file's first bytes or two
  other bytes.
- `filename[filename_length] = '\0'` (161) writes one byte past `filename`
  when the name fills 32 bytes. Which variable that byte belongs to is the
  compiler's choice, so `Layouts` enumerates the outcomes:
  - `pad`: nothing reads the byte before it is rewritten;
  - `args`: the name runs on into the argument;
  - `i`: `i` becomes 0 and the argument loop copies the program's name.
    The `i` that loop ends with is nonzero and is now `filename[32]`, so
    the lookup gets a 33-character name and fails.
- `ArgsArray` is the PCB's copy of `args`, whose bytes past the terminator are
  uninitialised (`GARBAGE`). `Getargs` is `getargs` on a valid user buffer.
- Commands have up to 5 bytes over `{1, 2, space}`, and the header is 3
  bytes, crossing a block. The property is a constant-level table over every
  command, layout, magic and file length, so TLC evaluates it once and it adds
  no states.

### `Interrupts` (with `MCInterrupts`)

The path from the devices to the handlers, in the kernel of
`mp3_group_07-master`: the cascaded 8259 PIC (`i8259.c`), the handlers of
IRQ0 (PIT), IRQ1 (keyboard) and IRQ8 (RTC), and the virtualised RTC
(`rtc.c`).

- **PIC.** `master_mask` and `slave_mask` are the bytes of `i8259.c`;
  `EnableIrq`, `DisableIrq` and `SendEoi` are the functions as operators
  on them (`~(1 << k)` as `AllBut(k)`, with `Bitwise`). The chip itself is
  modelled from the 8259A in fully nested mode: `irr` (raised lines),
  `isr_m`/`isr_s` (levels in service), and `Highest(i)`, the request the
  PIC presents. This part is hardware, not code, and is not in the map.
- **Boot.** `Init` is the state after `i8259_init` (all masked but the
  cascade). `DriverInit(i)` runs `keyboard_init`, `pit_init` or `rtc_init`
  in any order (`kernel.c`, which fixes it, is not in the repository).
  `rtc_init` also turns on the periodic interrupt. The handlers run only
  once all three are done (the `sti` after them).
- **Handlers.** `Handle(i)` acknowledges the highest request and runs the
  whole handler as one step (interrupt gates): its `send_eoi`, the
  rotation of `run_terminal` for the PIT, and `RtcTick` for the RTC
  (count, set `intr[t]` of every terminal whose period the count
  completes, re-arm by reading register C).
- **RTC file operations**, by the running terminal's process: `RTC_open`
  (rate 2, flag cleared), `RTC_write` (only a frequency of
  `freq_to_rate`'s table is stored), and `RTC_read` as `ReadStart` and
  `ReadReturn` (the busy-wait ends when the flag is set, and clears it).
- **Bounds.** The 1024 Hz hardware rate is scaled to `RTC_HZ` = 8 with
  frequencies 2, 4 and 8 (periods 4, 2 and 1), so that terminals with
  different periods share the counter. `rtc_counter` is kept modulo
  `RTC_HZ`; in the code it is a `uint32_t` that wraps at 2^32, a multiple
  of every period, so nothing is lost. `WriteFreqs` includes 3, which
  `freq_to_rate` refuses.

### `Tux` (with `MCTux`)

The MP2 Tux controller driver, `tuxctl-ioctl.c`. The driver's globals are
`ack`, `button` and `led`. It talks to the controller over a serial line
in each direction: `to_dev` holds commands, `to_host` holds packets.

- **Program side.**
  - `TUX_INIT` runs `tux_init`: MTCP_BIOC_ON and MTCP_LED_USR go on the
    line, and the globals are zeroed.
  - `TUX_SET_LED` is split at the points where a packet handler can run
    in between:
    - `SetLedStart` sends MTCP_LED_USR, then either returns because
      `ack == 0`, or clears `ack`;
    - `SetLedPut` builds and sends the LED_SET packet;
    - `SetLedStore` stores `led`.
  - `TUX_BUTTONS` runs `tux_buttons` and copies out the byte `button`.
    `got` records that byte together with the buttons last reported at
    the time of the call. The upper three bytes that `copy_to_user` also
    copies hold whatever the linker placed after `button`. The model
    keeps only the low byte. The NULL-pointer `-EINVAL` of `tux_buttons`
    is dropped by the ioctl, which returns 0 in every case. The other
    commands return `-EINVAL` and change nothing, so they are not
    actions.
  - `ppc` and `parg` are the ioctl's program counter and argument.
- **Interrupt side.** `HandlePacket` is `tuxctl_handle_packet` as one
  step:
  - ACK sets `ack`;
  - BIOC_EVENT decodes the button byte (`ButtonByte`);
  - RESET runs `tux_init` and then `tux_set_led(led)` without
    interruption (`SetLedAtomic`).
- **Pure parts.** `LedSetBytes` is the packet-building loop, as the
  recursive `LedLoop`. `ButtonByte` is the bit shuffle of lines 79-84.
  Masks and shifts are written with `\div` and `%` rather than `Bitwise`:
  fairness makes TLC evaluate the handler's enabledness, and the
  `Bitwise` definitions are too slow there.
- **Controller.** MTCP is the environment, modelled from its protocol,
  not from code (`mtcp.h` is not in the repository):
  - it executes the command at the head of the line and ACKs it;
  - it reports the buttons held when BIOC is on;
  - its reset button blanks the LEDs, turns BIOC off and sends
    MTCP_RESET.
- **History.** `reported` and `wanted` record the buttons last reported
  and the display the program last asked for. The reference `Shown` reads
  the argument layout of the `TUX_SET_LED` documentation directly.
- **Bounds.**
  - Four ioctl calls: TUX_INIT, then up to three TUX_SET_LED or TUX_BUTTONS. Enough for a
    call refused for want of an ACK, followed by one that goes through.
  - Two LED arguments: all four LEDs on, and LEDs 0 and 2 only.
  - One reset and one button report, with two button sets between them.
    These are LEFT, and DOWN with A: the two direction bits the code moves,
    and one bit of the low nibble.

### `Photo` (with `MCPhoto`)

`read_photo` in `mp2/photo.c` quantises a room photo to 192 colours with an
octree. It is one call, modelled as one action, `ReadPhoto(s)`, or
`ReadFails`, for the `NULL` returns. The state is the file's pixels (chosen in
`Init`), the returned `img` and `palette`, and whether p was returned.

- **First pass.** `Pixels` places the file's pixels in memory. The file is
  read bottom row first. `R4`, `G4` and `B4` widen a 5:6:5 pixel to 6 bits
  per channel. `Idx4` is the level-4 node, the top 4 bits of each channel.
  `Level4` is the `level_4` table of counts and sums, kept on the nodes
  some pixel hits.
- **Sort.** `QsortOrders` is every order `qsort` with `compare` may
  produce. qsort is not stable, so nodes of equal count come in any order;
  the action takes one with `\E`. `sorted_list` inverts the order.
  - The first `LEVEL4_CHOSEN` (128) nodes get palette entries
    `0..LEVEL4_CHOSEN-1`.
  - Their pixels get `img = rank + 64` (`VgaLevel4`).
- **Second pass.** `Level2Members` groups the remaining pixels by level-2
  node (`Idx2`). These pixels get `idx2 + 192`, and their node's average
  goes to entry `idx2 + 128`.
  - A level-2 node nobody reached keeps its init values (`Level2Unused`).
    Its red is never written (`GARBAGE`), because the init loop stores it
    at the stale index `i`.
- **Reference.** The properties use their own decoding of the photo
  format. `RGB6` and `Octant` decode a pixel, and `MeanColour` averages a
  group. They read `palette[img[k] - 64]`, which is what `prep_room`
  loads at VGA colour 64.
- **Bounds.**
  - The photo is 3x2, a non-square size, so row and column mix-ups show.
  - There are four pixel values. 0 and 1 share a level-4 node in
    different colours, so averages are real averages. 2 is the next
    level-4 node in the same level-2 node. 8 is in another level-2 node.
  - `LEVEL4_CHOSEN` is 2, so with up to three nodes some compete for the
    level-4 colours and ties occur. With 128 no photo this small would
    reach the second pass.
  - All 4096 files are checked.
- **Drawing.** Once `read_photo` has returned, the lines the scroller draws
  are operators on its `img`:
  - `ReadObjImage` is `read_obj_image`'s success path. Object files, like
    photos, hold the bottom row first, and the image flips the rows.
  - `fill_horiz_buffer(x, y)` is `RoomLineH`, the photo's row clipped to
    the photo, followed by a fold of `DrawObjH` over `Objects` in list
    order (`FoldLeftDomain`). Each `DrawObjH` skips an object off the
    line, computes `yoff`, `idx` and `imgx` as the code does, and copies
    the non-transparent pixels while both indices are in range.
    `fill_vert_buffer` is the same along a column.
  - `world.c`'s object list is not in the repository. `Objects` is a
    constant list of three objects: one hanging off the photo's left edge
    (2x2, with a transparent pixel), one overlapping it below (2x1,
    transparent left pixel), and one past the photo's right edge (1x1).
    The lines are 2 long (`SCROLL_X_DIM`, `SCROLL_Y_DIM`), so every line
    that starts one pixel before the photo, or at any pixel of it, clips
    an object at one end or the other.
- **Deadlock.** `read_photo` returns once and nothing follows it in this
  model, so `photo.cfg` does not check deadlock.

## Runs

| Run | cfg | Expect | What it shows |
|-----|-----|--------|---------------|
| `processes` | `processes.cfg` | pass | From kernel entry (pid 0 alone), all interleavings of ticks with execute, halt, open and close. Checks `TypeOK`, `ProcessTree` (each slot holds one chain of nested executes, runnable at the top, waiting below, rooted in a live base shell; chains disjoint; bitmap = live pids), `ProgramStacksSpec` (the kernel implements the per-terminal program stacks of `ProgramStacks`), `AddressSpace` (the user on the CPU is the running terminal's process with its own frame, program and kernel stack), `ResumeFresh` (the scheduler never resumes a stale or never-saved context), `TerminalsServed` (every terminal gets the CPU with its process runnable infinitely often) and `AllTerminalsStart` (ticks start a shell on every terminal for good). The states after boot are exactly those of a start with three shells running, so one run covers both. |
| `preempt_syscall` | `preempt.cfg` | violation | `ResumeFresh`: a tick inside execute, after the slot is given to the child, resumes the child at an unsaved `run_ebp`. |
| `boot_race` | `boot_race.cfg` | violation | `ProcessTree`: a command run before all shells exist takes pid 1 and terminal 1's slot, leaving its parent waiting in terminal 0's slot. |
| `terminals` | `terminals.cfg` | pass | On the composed terminal subsystem, `ReadWaitsForNewLine` (a read copies a line only after a key has been typed on its own terminal since the read began: neither an Enter typed before the call nor one on the terminal in front releases its busy-wait) and `ReadCompletes` (a read whose Enter has arrived returns). These are checked under every interleaving of keys, alt+F, ticks, reads and writes. `ConsolesSpec`: `Video` implements `Consoles`, so writes land on their own terminal's screen, which survives every switch. `TypeOK`. |
| `input_overflow` | `input_overflow.cfg` | violation | `KeyboardBufferBounded`: Enters with a full line and no reader push `index` past the buffer. |
| `file_read` | `fs.cfg` | pass | `ReadDataCorrect`: `read_data` returns exactly `min(length, len - offset)` bytes of the file from `offset`, for every offset and length. `FileReadsSequential`: successive reads return the file in order, the position counts them, and a read returns 0 only at the end. `LookupByName`: a descriptor is open on an entry only if open was passed that entry's exact name. A name one byte too long, or a prefix, never opens it. `ExecuteLoadsNamed`: for every command of up to 5 bytes, every layout the terminator stored past `filename` can hit, every magic and every file length, execute goes on to load only the entry its command's first word names, and only a file with a whole header that begins with the magic. `TypeOK`. |
| `dir_listing` | `dir_listing.cfg` | violation | `DirListingFromStart` (spec 8, scenario 5): with two processes listing the directory, a freshly opened directory does not start at its first entry. |
| `interrupts` | `interrupts.cfg` | pass | `MaskOps`: during driver init, `enable_irq` and `disable_irq` open or close exactly the line they name, on the right chip, from every value of either mask byte, and ignore numbers above 15. `RtcReadCompletes`: a process in `RTC_read` always returns, whatever the rates and interleavings; this needs `send_eoi` to release the master's cascade level after IRQ8. `TypeOK` (also that `RTC_write` never stores a rate outside the table). |
| `tux` | `tux.cfg` | pass | `LedSetShown`: every LED_SET the driver puts on the line ends up on the display as the argument describes it. `AckReturns`: a cleared `ack` is set again. `ButtonsReported`: the byte each `TUX_BUTTONS` call copies out is the layout its documentation gives for the buttons last reported before the call. `TypeOK` (also that an LED_SET packet fits `buf[6]`). All hold under every interleaving of the ioctls with packet handling, button reports and a reset. |
| `photo` | `photo.cfg` | pass | `ShownIsAverage`: every pixel is shown in the average colour of its octree group. That is its level-4 node if the node got a colour, otherwise the uncoloured pixels of its level-2 node. `MostFrequentChosen`: the level-4 colours go to the most frequent nodes, one per node. `LinesShowScene`: every horizontal and vertical line `fill_horiz_buffer` and `fill_vert_buffer` build over the result shows the scene, decoded from the file formats: the last opaque object at a pixel, else the photo, else 0. All three hold for every 3x2 photo over four pixel values and every order qsort may leave ties in. `TypeOK` (also that img stays within VGA colours 64..255). |
| `keyboard_case` | `keyboard_case.cfg` | violation | `BufferTranslated` (spec 4: printable keys are translated through the plain, shifted or caps table and appended): with shift held, `1` is echoed as `!` but stored as `1`, so the line read returns is not the line on screen (`keyboard.c` 265, 272, 299, 325). |
| `tux_reset` | `tux_reset.cfg` | violation | `QuietShowsWanted`: after the controller's reset the LEDs stay dark, because `tux_init` zeroes `led` and `ack` before `tux_set_led(led)`. |

Each property of a passing run has a mutant in `PROJECT.json`, an operator
defined just before the definition it replaces. Each mutant is a plausible
coding slip:

- the `i == 6` check dropped;
- execute's base-shell test dropped, so a shell started by a tick gets the
  interrupted process as its parent;
- one of the slot conditions dropped;
- `tss.esp0` not rewritten in halt;
- the `run_ebp` save lost;
- the wrong modulus in the round robin;
- Backspace without its `index != 0` check;
- `terminal_read` not clearing `enter_pressed` on entry;
- `memory_switch` rewriting only the kernel's VIDEO entry, not the user
  video entry;
- the read polling the foreground terminal's flag;
- `memory_switch` with a wrong backing-page offset;
- alt+F loading the new terminal's screen before saving the old one;
- `read_data` copying the last block whole, or not resetting `start_offset`;
- `read_dentry_by_name` without its length check;
- execute's header check refusing only an empty `read_data`, not a short
  one;
- the file position advanced twice (the commented-out advance in `file_read`
  restored);
- `enable_irq` shifting by `irq_num` instead of `irq_num - 8` for the slave;
- `send_eoi` of a slave IRQ not sent to the master;
- `RTC_write` storing the frequency without `freq_to_rate`'s check;
- `tux_set_led` with `ct` starting one byte late;
- the button byte's direction bits left in wire order;
- the LED digits taken from the wrong end of the argument;
- `tux_init` sending nothing to the controller;
- `compare` sorting the fewest pixels first;
- the second pass of `read_photo` not skipping pixels that have a level-4 colour;
- the level-4 colours offset by 63 instead of 64;
- `read_obj_image` storing the rows in file order, without the flip.

## Fairness

- `pit_handler` is strongly fair. The PIC latches IRQ0 until the CPU accepts
  it, so a tick that is enabled again and again is taken.
- Kernel steps of the thread on the CPU are weakly fair. Code the CPU has
  entered keeps executing.
- User programs get no fairness: a program may spin forever without a system
  call.
- In `TerminalInput` the tick is weakly fair (always enabled). The read's
  steps are strongly fair: they are enabled only while their terminal runs,
  and a process the scheduler keeps resuming keeps executing its loop. The
  user and the program's decision to call `read` get no fairness.
- `Terminals` keeps the fairness of `TerminalInput`: the tick is weakly
  fair, and the read steps are strongly fair. Writes, keys and alt+F get
  none. `Video` contributes only safety, since the refinement is a safety
  property.
- In `Interrupts` the PIT and the RTC raise their lines weakly fairly (they
  are free-running clocks). Taking an IRQ is strongly fair: user code and
  system calls run with IF set, so a request the PIC presents again and
  again is taken. `ReadReturn` is strongly fair for the reason the read
  steps of `TerminalInput` are. Keys and the programs' calls get none.
- In `Tux` the controller executes queued commands weakly fairly: the
  serial line and MTCP run on their own. The packet handler is weakly
  fair, because the line discipline calls it for every packet that
  arrives. The two steps that finish a `TUX_SET_LED` already entered are
  weakly fair too, since the ioctl runs to its return. The program's
  ioctls, the buttons and the reset button get no fairness.

## Not modelled yet (plan for later sittings)

1. `vidmap`'s page-directory entry: keeping it doubled the `terminals`
   run past its time limit (see `Video`). `getargs`'s user-pointer checks
   are left out: a buffer is a pointer the model does not have.
2. Signal delivery: the code has none (no flag is ever set, and KILL and
   IGNORE are never called). There is nothing to model until it exists.
3. Type-ahead: `terminal_read` clears the line buffer on entry
   (`terminal.c` 72), so keys typed before a read are lost. This is what
   the code intends, not a safety violation, so no run checks it.

Some properties are stated in the modules and found violated by TLC, but
no run keeps them. Each is reached by a short sequential scenario that a
unit test covers directly:

- `Processes` states `FreshStdio`. A base shell that halts with fd 2 open
  restarts with fd 2 still open: halt re-executes "shell" before its loop
  that closes descriptors (`system_calls.c` 54-68), and execute installs
  only fds 0 and 1. The course shell never opens a file itself, so this
  takes a shell variant. Run `MCProcesses` with `INVARIANT FreshStdio` to
  see the trace.
- `Processes` states `ExecuteReturnsStatus`. Add status 2 to
  `processes.cfg`, and halt(2) makes execute return 0 (`system_calls.c` 37).
- `Signals` states `DefaultRestored`. Run `MCSignals` with
  `handler_default.cfg`: one `set_handler(s, NULL)` leaves the handler
  NULL instead of the default action (`system_calls.c` 618).
- `FileSystem` states `GetargsTerminated` (spec 4.9: getargs fails if the
  argument would not fit). TLC finds it violated by `"1 2"` with
  `nbytes = 1`: `getargs` refuses only `strlen(args) > nbytes`
  (`system_calls.c` 549), so an argument of exactly `nbytes` bytes arrives
  without its terminator.
- `TerminalInput` states `EnterMeansNewline`. Enter then Backspace leaves
  `enter_pressed` set with no newline below `index`, because the store of
  `'\0'` at `keyboard.c` 214 is commented out.

`TerminalInput` also states `ReadReturnsLine` (a read that copies the
newline returns it). TLC finds it violated: the padding loop of
`terminal_read` (`terminal.c` 108) writes `buffer[ct]` instead of the user
buffer, erasing the newline. No run checks it, to keep the suite
short; use a copy of `input_overflow.cfg` with `INVARIANT ReadReturnsLine` in place of its invariant, to see the
trace.

`putc` and `clear` are in `lib.c`, which is not in the repository. Keyboard
keeps the character echoed (`shown`) but not the screen: what `clear` writes
through the VIDEO mapping when the running terminal is in the background is
left out. Cursor and test code have no state worth checking.
In `photo.c`, `prep_room` and the accessors only record or return a field, and `read_obj_image`'s `NULL` returns only free what it allocated, so they are left out. `world.c` and `modex.c` are not in the repository. The
copy of the program image into user memory and the entry point read from
header bytes 24-27 are left out: the model has no user memory.

Two disagreements between execute's parsing and spec 4.7 are modelled but
no run checks them:
- `args` holds only the word after the program's name, not the rest of the
  command;
- a 32-character program name fails to run: with an argument under layout
  `args`, and always under layout `i`.
