----------------------------- MODULE Interrupts -----------------------------
(***************************************************************************)
(* The interrupt path from the devices to the handlers: the cascaded 8259  *)
(* PIC of i8259.c (masks, requests, in-service levels, EOI), the handlers  *)
(* of IRQ0 (pit_handler), IRQ1 (keyboard_handler) and IRQ8 (rtc_handler),  *)
(* and the virtualised RTC of rtc.c (src/mp3_group_07-master/              *)
(* student-distrib): the handler's counter sets intr[t] at terminal t's    *)
(* rate, and RTC_read by terminal t's process polls it.                    *)
(*                                                                         *)
(* Every handler runs on an interrupt gate and is one atomic step.  Of     *)
(* pit_handler only the rotation of run_terminal matters here (the switch  *)
(* is in Processes); of keyboard_handler only its EOI (the buffer is in    *)
(* TerminalInput).  The PIC runs in fully nested mode: an in-service level *)
(* holds back requests of the same and lower priority on its chip until a  *)
(* specific EOI for it.                                                    *)
(***************************************************************************)
EXTENDS Integers, FiniteSets, Bitwise

CONSTANTS
    NUM_TERMINALS,  \* 3
    RTC_HZ,         \* the RTC's interrupt rate, 1024 in the code
    FreqTable,      \* freq_to_rate's table: the frequencies RTC_write accepts
    WriteFreqs      \* frequencies programs pass to RTC_write

ASSUME \A f \in FreqTable : f \in Nat \ {0} /\ RTC_HZ % f = 0

Terms == 0 .. NUM_TERMINALS - 1
Irqs == 0 .. 15
PIT_IRQ == 0
KEYBOARD_IRQ == 1
CASCADE_IRQ == 2
RTC_IRQ == 8
Devices == {PIT_IRQ, KEYBOARD_IRQ, RTC_IRQ}

VARIABLES
    master_mask,   \* i8259.c master_mask (OCW1 of the master)
    slave_mask,    \* i8259.c slave_mask
    irr,           \* IRQ lines raised and not yet acknowledged
    isr_m,         \* in-service levels of the master
    isr_s,         \* in-service levels of the slave
    rtc_armed,     \* register C was read: the RTC raises IRQ8 next period
    rtc_counter,   \* rtc.c rtc_counter (uint32_t, so it wraps at 2^32, a
                   \* multiple of every period), modulo RTC_HZ
    freq,          \* rtc.c freq[3]
    intr,          \* rtc.c intr[3]
    run_terminal,  \* the terminal whose process runs
    rpc,           \* "wait" while terminal t's process is in RTC_read
    uninit         \* devices whose driver's init has not run yet

vars == <<master_mask, slave_mask, irr, isr_m, isr_s, rtc_armed, rtc_counter,
          freq, intr, run_terminal, rpc, uninit>>

-----------------------------------------------------------------------------
(* i8259.c                                                                 *)

\* A byte written with ~(1 << k): every bit but k.
AllBut(k) == 255 ^^ (2 ^ k)

\* Mutant: the slave bit is taken from irq_num itself, not irq_num - 8.
EnableIrqNoOffset(mm, sm, irq_num) ==
    IF irq_num > 15 THEN <<mm, sm>>
    ELSE IF irq_num < 8 THEN <<mm & AllBut(irq_num), sm>>
    ELSE <<mm, sm & (AllBut(irq_num) % 256)>>

\* enable_irq (i8259.c 52-74): the masks after it, as <<master, slave>>.
EnableIrq(mm, sm, irq_num) ==
    IF irq_num > 15 THEN <<mm, sm>>
    ELSE IF irq_num < 8 THEN <<mm & AllBut(irq_num), sm>>
    ELSE <<mm, sm & AllBut(irq_num - 8)>>

\* disable_irq (i8259.c 84-106).
DisableIrq(mm, sm, irq_num) ==
    IF irq_num > 15 THEN <<mm, sm>>
    ELSE IF irq_num < 8 THEN <<mm | 2 ^ irq_num, sm>>
    ELSE <<mm, sm | 2 ^ (irq_num - 8)>>

\* Mutant: only the slave gets the EOI of a slave IRQ.
SendEoiSlaveOnly(im, is, irq_num) ==
    IF irq_num > 15 THEN <<im, is>>
    ELSE IF irq_num < 8 THEN <<im \ {irq_num}, is>>
    ELSE <<im, is \ {irq_num - 8}>>

\* send_eoi (i8259.c 116-135): a specific EOI to the slave for IRQs 8-15
\* and to the master for the level (the cascade level 2 for the slave's);
\* the in-service sets after it, as <<master, slave>>.
SendEoi(im, is, irq_num) ==
    IF irq_num > 15 THEN <<im, is>>
    ELSE IF irq_num < 8 THEN <<im \ {irq_num}, is>>
    ELSE <<im \ {CASCADE_IRQ}, is \ {irq_num - 8}>>

Masked(mask, level) == (mask \div 2 ^ level) % 2 = 1

\* The level an IRQ occupies on the master: its own, or the cascade's.
MasterLevel(i) == IF i < 8 THEN i ELSE CASCADE_IRQ

\* IRQ i reaches the CPU: raised, unmasked, and no level of the same or
\* higher priority in service on its chip and on the master.
Presented(i) ==
    /\ i \in irr
    /\ ~Masked(master_mask, MasterLevel(i))
    /\ \A l \in isr_m : l > MasterLevel(i)
    /\ i >= 8 => /\ ~Masked(slave_mask, i - 8)
                 /\ \A l \in isr_s : l > i - 8

\* The PIC presents the highest-priority request (lowest master level, then
\* lowest slave level).
Highest(i) ==
    /\ Presented(i)
    /\ \A j \in irr \ {i} : Presented(j) =>
          \/ MasterLevel(i) < MasterLevel(j)
          \/ MasterLevel(i) = MasterLevel(j) /\ i < j

-----------------------------------------------------------------------------
(* The devices                                                             *)

\* The PIT raises IRQ0 periodically (the BIOS leaves it running before
\* pit_init reprograms it to 100 Hz).
PitRaise ==
    /\ PIT_IRQ \notin irr
    /\ irr' = irr \cup {PIT_IRQ}
    /\ UNCHANGED <<master_mask, slave_mask, isr_m, isr_s, rtc_armed,
                   rtc_counter, freq, intr, run_terminal, rpc, uninit>>

\* A key is pressed.
KeyRaise ==
    /\ KEYBOARD_IRQ \notin irr
    /\ irr' = irr \cup {KEYBOARD_IRQ}
    /\ UNCHANGED <<master_mask, slave_mask, isr_m, isr_s, rtc_armed,
                   rtc_counter, freq, intr, run_terminal, rpc, uninit>>

\* The RTC's periodic flag is set; the line stays up until register C is
\* read.
RtcRaise ==
    /\ rtc_armed
    /\ irr' = irr \cup {RTC_IRQ}
    /\ rtc_armed' = FALSE
    /\ UNCHANGED <<master_mask, slave_mask, isr_m, isr_s, rtc_counter, freq,
                   intr, run_terminal, rpc, uninit>>

-----------------------------------------------------------------------------
(* Acknowledge and handle                                                  *)

\* The CPU acknowledges IRQ i: the request is cleared and its levels go in
\* service, then the handler runs to its iret.
Acknowledge(i) ==
    /\ Highest(i)
    /\ irr' = irr \ {i}

\* rtc_handler (rtc.c 57-85): count, set intr of every terminal whose
\* period the count completes, read register C, EOI.
RtcTick(c) ==
    /\ rtc_counter' = c
    /\ intr' = [t \in Terms |->
                  IF c % (RTC_HZ \div freq[t]) = 0 THEN 1 ELSE intr[t]]
    /\ rtc_armed' = TRUE

\* The handlers.  The in-service sets after the handler are those of the
\* acknowledge with the handler's send_eoi applied.
Handle(i) ==
    /\ uninit = {}
    /\ Acknowledge(i)
    /\ LET im == isr_m \cup {MasterLevel(i)}
           is == IF i >= 8 THEN isr_s \cup {i - 8} ELSE isr_s
           eoi == SendEoi(im, is, i)
       IN  /\ isr_m' = eoi[1]
           /\ isr_s' = eoi[2]
    /\ CASE i = PIT_IRQ ->
              /\ run_terminal' = (run_terminal + 1) % NUM_TERMINALS
              /\ UNCHANGED <<rtc_armed, rtc_counter, intr, uninit>>
         [] i = RTC_IRQ ->
              /\ RtcTick((rtc_counter + 1) % RTC_HZ)
              /\ UNCHANGED run_terminal
         [] OTHER ->
              UNCHANGED <<rtc_armed, rtc_counter, intr, run_terminal>>
    /\ UNCHANGED <<master_mask, slave_mask, freq, rpc, uninit>>

-----------------------------------------------------------------------------
(* The RTC file operations, by the process of the running terminal         *)

\* RTC_open (rtc.c 147-158): the terminal's rate back to 2 Hz, intr cleared.
RTC_open(t) ==
    /\ uninit = {} /\ run_terminal = t /\ rpc[t] = "idle"
    /\ freq' = [freq EXCEPT ![t] = 2]
    /\ intr' = [intr EXCEPT ![t] = 0]
    /\ UNCHANGED <<master_mask, slave_mask, irr, isr_m, isr_s, rtc_armed,
                   rtc_counter, run_terminal, rpc, uninit>>

\* freq_to_rate (rtc.c 120-136) returns a rate, not -1, exactly for the
\* frequencies of its table.
freq_to_rate_ok(f) == f \in FreqTable

\* Mutant: the frequency is stored without freq_to_rate's check.
RtcWriteUnchecked(t, f) ==
    /\ uninit = {} /\ run_terminal = t /\ rpc[t] = "idle"
    /\ freq' = [freq EXCEPT ![t] = f]
    /\ UNCHANGED <<master_mask, slave_mask, irr, isr_m, isr_s, rtc_armed,
                   rtc_counter, intr, run_terminal, rpc, uninit>>

\* RTC_write (rtc.c 190-209): a frequency freq_to_rate knows becomes the
\* terminal's; any other leaves it (the call returns -1).
RTC_write(t, f) ==
    /\ uninit = {} /\ run_terminal = t /\ rpc[t] = "idle"
    /\ freq' = IF freq_to_rate_ok(f) THEN [freq EXCEPT ![t] = f] ELSE freq
    /\ UNCHANGED <<master_mask, slave_mask, irr, isr_m, isr_s, rtc_armed,
                   rtc_counter, intr, run_terminal, rpc, uninit>>

\* RTC_read (rtc.c 171-177): enter the loop ...
ReadStart(t) ==
    /\ uninit = {} /\ run_terminal = t /\ rpc[t] = "idle"
    /\ rpc' = [rpc EXCEPT ![t] = "wait"]
    /\ UNCHANGED <<master_mask, slave_mask, irr, isr_m, isr_s, rtc_armed,
                   rtc_counter, freq, intr, run_terminal, uninit>>

\* ... and leave it once intr[run_terminal] is set, clearing it.
ReadReturn(t) ==
    /\ run_terminal = t /\ rpc[t] = "wait"
    /\ intr[t] = 1
    /\ intr' = [intr EXCEPT ![t] = 0]
    /\ rpc' = [rpc EXCEPT ![t] = "idle"]
    /\ UNCHANGED <<master_mask, slave_mask, irr, isr_m, isr_s, rtc_armed,
                   rtc_counter, freq, run_terminal, uninit>>

-----------------------------------------------------------------------------

\* The drivers' inits, in an order kernel.c (not in the repository) fixes:
\* keyboard_init (keyboard.c 66-70) and pit_init (pit.c 22-28) unmask
\* their line; rtc_init (rtc.c 28-47) also turns on the periodic interrupt
\* (register B bit 6) and zeroes rtc_counter.
DriverInit(i) ==
    /\ i \in uninit
    /\ LET masks == EnableIrq(master_mask, slave_mask, i) IN
       /\ master_mask' = masks[1]
       /\ slave_mask' = masks[2]
    /\ uninit' = uninit \ {i}
    /\ IF i = RTC_IRQ
         THEN rtc_armed' = TRUE /\ rtc_counter' = 0
         ELSE UNCHANGED <<rtc_armed, rtc_counter>>
    /\ UNCHANGED <<irr, isr_m, isr_s, freq, intr, run_terminal, rpc>>

\* After i8259_init (i8259.c 19-43): every line masked but the cascade.
\* Interrupts stay off until every driver is initialised.  freq[] and
\* intr[] start at their initialisers (rtc.c 17-18).
Init ==
    /\ master_mask = EnableIrq(255, 255, CASCADE_IRQ)[1]
    /\ slave_mask = EnableIrq(255, 255, CASCADE_IRQ)[2]
    /\ irr = {}
    /\ isr_m = {} /\ isr_s = {}
    /\ rtc_armed = FALSE
    /\ rtc_counter = 0
    /\ freq = [t \in Terms |-> 2]
    /\ intr = [t \in Terms |-> 0]
    /\ run_terminal = 0
    /\ rpc = [t \in Terms |-> "idle"]
    /\ uninit = Devices

Next ==
    \/ \E i \in Devices : DriverInit(i)
    \/ PitRaise \/ KeyRaise \/ RtcRaise
    \/ \E i \in Devices : Handle(i)
    \/ \E t \in Terms :
          \/ RTC_open(t) \/ ReadStart(t) \/ ReadReturn(t)
          \/ \E f \in WriteFreqs : RTC_write(t, f)

\* The PIT and the RTC keep raising their lines; the CPU keeps taking the
\* request the PIC presents (user code and system calls run with IF set;
\* the PIT's 10 ms are far longer than any handler, so a request presented
\* again and again is taken).  A process the scheduler keeps resuming
\* keeps polling.  Keys and the programs' calls are not assumed.
Fairness ==
    /\ WF_vars(PitRaise) /\ WF_vars(RtcRaise)
    /\ \A i \in Devices : SF_vars(Handle(i))
    /\ \A t \in Terms : SF_vars(ReadReturn(t))

Spec == Init /\ [][Next]_vars /\ Fairness

-----------------------------------------------------------------------------
(* Properties                                                              *)

TypeOK ==
    /\ master_mask \in 0 .. 255 /\ slave_mask \in 0 .. 255
    /\ irr \subseteq Devices
    /\ isr_m \subseteq 0 .. 7 /\ isr_s \subseteq 0 .. 7
    /\ rtc_armed \in BOOLEAN
    /\ rtc_counter \in 0 .. RTC_HZ - 1
    /\ freq \in [Terms -> FreqTable]
    /\ intr \in [Terms -> {0, 1}]
    /\ run_terminal \in Terms
    /\ rpc \in [Terms -> {"idle", "wait"}]
    /\ uninit \subseteq Devices

\* The IRQs the two masks leave open, numbered 0..15.
Open(mm, sm) == {i \in 0 .. 7 : ~Masked(mm, i)} \cup
                {i \in 8 .. 15 : ~Masked(sm, i - 8)}

\* enable_irq and disable_irq open or close exactly the line they name, on
\* the right chip, and ignore numbers above 15: from every value of either
\* mask byte, the other chip's mask as it is.  Checked while the drivers
\* initialise, the only time the kernel calls them.
MaskOps ==
    uninit # {} =>
    \A m \in 0 .. 255, n \in 0 .. 16 :
        \A masks \in {<<m, slave_mask>>, <<master_mask, m>>} :
            LET en == EnableIrq(masks[1], masks[2], n)
                dis == DisableIrq(masks[1], masks[2], n)
                open == Open(masks[1], masks[2])
            IN  /\ Open(en[1], en[2]) = IF n <= 15 THEN open \cup {n} ELSE open
                /\ Open(dis[1], dis[2]) = IF n <= 15 THEN open \ {n} ELSE open

\* A process waiting in RTC_read returns: the RTC keeps interrupting (its
\* IRQ acknowledged at both PICs, register C read), the count reaches the
\* terminal's period, and the scheduler brings the process back.
RtcReadCompletes ==
    \A t \in Terms : rpc[t] = "wait" ~> rpc[t] = "idle"

=============================================================================
