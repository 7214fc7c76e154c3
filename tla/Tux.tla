--------------------------------- MODULE Tux ---------------------------------
(***************************************************************************)
(* The Tux controller driver of MP2 (src/mp2_wendiw2-master/module/        *)
(* tuxctl-ioctl.c) against the controller on the other end of the serial   *)
(* line.  The driver has three globals: ack (an MTCP_ACK arrived), button  *)
(* and led (the last value shown, to restore after a reset).  The ioctls   *)
(* run in process context; tuxctl_handle_packet runs from the line         *)
(* discipline's receive callback, in interrupt context, and may run        *)
(* between any two statements of an ioctl.  Nothing in the driver locks.   *)
(*                                                                         *)
(* The controller is the environment, modelled from the MTCP protocol the  *)
(* driver speaks (mtcp.h is not in the repository): it executes commands   *)
(* in the order they were put on the line and answers each with MTCP_ACK;  *)
(* its reset button blanks the LEDs, turns button events off and sends     *)
(* MTCP_RESET; with events on it reports the buttons held.  A command is   *)
(* a record of its opcode and bytes; a packet one of its opcode and bytes. *)
(***************************************************************************)
EXTENDS Integers, Sequences, FiniteSets

CONSTANTS
    LedArgs,      \* the arguments a program passes to TUX_SET_LED
    PressedSets,  \* sets of buttons held when the controller reports
    MaxCalls,     \* bound on the program's ioctl calls
    MaxResets,    \* bound on presses of the controller's reset button
    MaxEvents     \* bound on button reports

Buttons == {"START", "A", "B", "C", "UP", "DOWN", "LEFT", "RIGHT"}
Leds == 0 .. 3

\* number[16] of tux_set_led: the segments of the hex digits 0..F.
NUMBER == <<\hE7, \h06, \hCB, \h8F, \h2E, \hAD, \hED, \h86,
            \hEF, \hAF, \hEE, \h6D, \hE1, \h4F, \hE9, \hE8>>

\* A command and its bytes; arg records, as history, the TUX_SET_LED
\* argument an LED_SET was built from.
Cmd(op, bytes, arg) == [op |-> op, bytes |-> bytes, arg |-> arg]
Pkt(op, b, c, held) == [op |-> op, b |-> b, c |-> c, held |-> held]

VARIABLES
    ack, button, led,   \* the driver's globals
    ppc,                \* the program: "init" before TUX_INIT, "idle",
                        \* or inside TUX_SET_LED: "put", "store"
    parg,               \* the argument of the TUX_SET_LED in progress
    calls,              \* ioctl calls made (bound)
    to_dev,             \* commands queued on the line to the controller
    to_host,            \* packets on their way to the driver
    bioc,               \* the controller reports button events
    display,            \* display[i]: the segment byte LED i shows
    resets, events,     \* reset presses and button reports (bounds)
    reported,           \* history: the buttons of the last report handled
    got,                \* the byte the program's last TUX_BUTTONS copied
                        \* out, and the buttons last reported at the call
    wanted              \* history: the display the program's last LED_SET
                        \* asks for

vars == <<ack, button, led, ppc, parg, calls, to_dev, to_host, bioc, display,
          resets, events, reported, wanted, got>>

NONE == [low |-> -1, seen |-> {}]   \* no TUX_BUTTONS call yet

Blank == [i \in Leds |-> 0]

\* The LEDs as a TUX_SET_LED argument describes them: LED i, if its bit of
\* the third byte is set, shows the hex digit of the i-th nibble.
Shown(arg) ==
    [i \in Leds |-> IF (arg \div 2 ^ (16 + i)) % 2 = 1
                     THEN NUMBER[((arg \div 2 ^ (4 * i)) % 16) + 1] ELSE 0]

-----------------------------------------------------------------------------
(* The driver's pure parts                                                 *)

\* The masks and shifts of the code on nonnegative integers: bit i of x,
\* and the 4-bit field at bit k ((x & (0xF << k)) >> k).
Bit(x, i) == (x \div 2 ^ i) % 2 = 1
Nibble(x, k) == (x \div 2 ^ k) % 16

\* The fields of a TUX_SET_LED argument (tuxctl-ioctl.c 187-189, 227).
Which(arg) == Nibble(arg, 16)
Decimal(arg) == Nibble(arg, 24)
\* Mutant: the digits are taken from the wrong end of the argument.
DigitReversed(arg, i) == Nibble(arg, 4 * (3 - i))

Digit(arg, i) == Nibble(arg, 4 * i)

\* One LED's byte: its digit's segments, or'ed with its decimal-point
\* test, which is 0 or 1.
LedByte(arg, i) ==
    LET seg == NUMBER[Digit(arg, i) + 1]
    IN  IF Bit(Decimal(arg), i) /\ ~Bit(seg, 0) THEN seg + 1 ELSE seg

\* The MTCP_LED_SET packet after the opcode: buf[1] = which, then from
\* buf[2] one byte for each LED whose bit is set, in LED order (224-230).
RECURSIVE LedLoop(_, _)
LedLoop(arg, i) ==
    IF i > 3 THEN <<>>
    ELSE (IF Bit(Which(arg), i) THEN <<LedByte(arg, i)>> ELSE <<>>)
         \o LedLoop(arg, i + 1)

\* Mutant: ct starts at 3, leaving buf[2] (uninitialised, here 0) in the
\* packet.
LedSetBytesCtOff(arg) == <<Which(arg), 0>> \o LedLoop(arg, 0)

LedSetBytes(arg) == <<Which(arg)>> \o LedLoop(arg, 0)

\* Mutant: the direction bits are taken in the order they arrive.
ButtonByteUnordered(b, c) == 16 * (15 - Nibble(c, 0)) + (15 - Nibble(b, 0))

\* The button byte from an MTCP_BIOC_EVENT's two bytes (78-85): the
\* direction bits of c reordered into the high nibble, the bits of b low,
\* both active low.
ButtonByte(b, c) ==
    LET direction == 15 - Nibble(c, 0)            \* (~c) & 0x0F
        bit(i) == IF Bit(direction, i) THEN 1 ELSE 0
        \* bit 1 up to bit 2, bit 2 down to bit 1, bits 0 and 3 stay
        moved == 4 * bit(1) + 2 * bit(2) + bit(0) + 8 * bit(3)
    IN  16 * moved + (15 - Nibble(b, 0))          \* | ((~b) & 0x0F)

-----------------------------------------------------------------------------
(* The driver                                                              *)

\* Mutant: tux_init puts nothing on the line.
TuxInitSilent == [cmds |-> <<>>, led |-> 0, ack |-> 0, button |-> 0]

\* tux_init (138-155): MTCP_BIOC_ON and MTCP_LED_USR on the line, then
\* led, ack and button zeroed.
TuxInit == [cmds |-> <<Cmd("BIOC_ON", <<>>, 0), Cmd("LED_USR", <<>>, 0)>>,
            led |-> 0, ack |-> 0, button |-> 0]

\* tux_set_led (181-238) run without interruption, as from the packet
\* handler: what it puts on the line and the ack and led it leaves.
SetLedAtomic(a, l, arg) ==
    IF a = 0
      THEN [cmds |-> <<Cmd("LED_USR", <<>>, 0)>>, ack |-> a, led |-> l]
      ELSE [cmds |-> <<Cmd("LED_USR", <<>>, 0), Cmd("LED_SET", LedSetBytes(arg), arg)>>,
            ack |-> 0, led |-> arg]

\* The ioctl TUX_INIT (115-117), once, as the program's first call.
TUX_INIT ==
    /\ ppc = "init" /\ calls < MaxCalls
    /\ to_dev' = to_dev \o TuxInit.cmds
    /\ ack' = TuxInit.ack /\ button' = TuxInit.button /\ led' = TuxInit.led
    /\ reported' = {}
    /\ ppc' = "idle" /\ calls' = calls + 1
    /\ UNCHANGED <<parg, to_host, bioc, display, resets, events, wanted, got>>

\* The ioctl TUX_SET_LED (121-122) enters tux_set_led: MTCP_LED_USR goes
\* out; without an ack the call returns, else ack is taken (194-221).
SetLedStart(arg) ==
    /\ ppc = "idle" /\ calls < MaxCalls
    /\ to_dev' = Append(to_dev, Cmd("LED_USR", <<>>, 0))
    /\ calls' = calls + 1
    /\ IF ack = 0
         THEN UNCHANGED <<ack, ppc, parg>>
         ELSE ack' = 0 /\ ppc' = "put" /\ parg' = arg
    /\ UNCHANGED <<button, led, to_host, bioc, display, resets, events,
                   reported, wanted, got>>

\* ... builds the LED_SET packet and puts it on the line (223-231) ...
SetLedPut ==
    /\ ppc = "put"
    /\ to_dev' = Append(to_dev, Cmd("LED_SET", LedSetBytes(parg), parg))
    /\ ppc' = "store"
    /\ wanted' = Shown(parg)
    /\ UNCHANGED <<ack, button, led, parg, calls, to_host, bioc, display,
                   resets, events, reported, got>>

\* ... and records the value for a reset (234-237).
SetLedStore ==
    /\ ppc = "store"
    /\ led' = parg
    /\ ppc' = "idle"
    /\ UNCHANGED <<ack, button, parg, calls, to_dev, to_host, bioc, display,
                   resets, events, reported, wanted, got>>

\* tuxctl_handle_packet (65-95) on the packet at the head of the line.
\* MTCP_RESET runs tux_init and then tux_set_led(led), with the led and
\* ack tux_init has just left.
HandlePacket ==
    /\ to_host # <<>>
    /\ LET p == Head(to_host) IN
       CASE p.op = "ACK" ->
              /\ ack' = 1
              /\ UNCHANGED <<button, led, to_dev, reported>>
         [] p.op = "BIOC_EVENT" ->
              /\ button' = ButtonByte(p.b, p.c)
              /\ reported' = p.held
              /\ UNCHANGED <<ack, led, to_dev>>
         [] p.op = "RESET" ->
              LET set == SetLedAtomic(TuxInit.ack, TuxInit.led, TuxInit.led)
              IN  /\ to_dev' = to_dev \o TuxInit.cmds \o set.cmds
                  /\ ack' = set.ack /\ led' = set.led
                  /\ button' = TuxInit.button
                  /\ reported' = {}
    /\ to_host' = Tail(to_host)
    /\ UNCHANGED <<ppc, parg, calls, bioc, display, resets, events, wanted, got>>

\* The ioctl TUX_BUTTONS (118-120) runs tux_buttons (162-172): for a non-NULL
\* pointer, copy_to_user of the 4 bytes at &button, whose low byte is
\* button; the other three are whatever the linker put after it, and the
\* model keeps only the low one.
TUX_BUTTONS ==
    /\ ppc = "idle" /\ calls < MaxCalls
    /\ got' = [low |-> button, seen |-> reported]
    /\ calls' = calls + 1
    /\ UNCHANGED <<ack, button, led, ppc, parg, to_dev, to_host, bioc, display,
                   resets, events, reported, wanted>>

-----------------------------------------------------------------------------
(* The controller (MTCP)                                                   *)

\* The bytes of an MTCP_BIOC_EVENT for the buttons held: byte b carries
\* C B A START and byte c R D L U in their low nibbles, active low.
Mask(P, names) == LET bit(k) == IF names[k] \in P THEN 2 ^ (k - 1) ELSE 0
                  IN  bit(1) + bit(2) + bit(3) + bit(4)
WireB(P) == 128 + 15 - Mask(P, <<"START", "A", "B", "C">>)
WireC(P) == 128 + 15 - Mask(P, <<"UP", "LEFT", "DOWN", "RIGHT">>)

\* The display after an MTCP_LED_SET: LED i, if its bit of the mask is
\* set, takes the next byte; the others go dark.
LedsAfter(bytes) ==
    [i \in Leds |-> IF Bit(bytes[1], i)
                    THEN bytes[1 + Cardinality({j \in 0 .. i : Bit(bytes[1], j)})]
                    ELSE 0]

\* The controller executes the command at the head of the line and
\* acknowledges it.
DeviceCommand ==
    /\ to_dev # <<>>
    /\ LET c == Head(to_dev) IN
       /\ bioc' = (bioc \/ c.op = "BIOC_ON")
       /\ display' = IF c.op = "LED_SET" THEN LedsAfter(c.bytes) ELSE display
    /\ to_dev' = Tail(to_dev)
    /\ to_host' = Append(to_host, Pkt("ACK", 0, 0, {}))
    /\ UNCHANGED <<ack, button, led, ppc, parg, calls, resets, events,
                   reported, wanted, got>>

\* Its reset button: LEDs dark, button events off, MTCP_RESET sent.
DeviceReset ==
    /\ resets < MaxResets
    /\ display' = Blank /\ bioc' = FALSE
    /\ to_host' = Append(to_host, Pkt("RESET", 0, 0, {}))
    /\ resets' = resets + 1
    /\ UNCHANGED <<ack, button, led, ppc, parg, calls, to_dev, events,
                   reported, wanted, got>>

\* With events on, it reports the buttons held.
DeviceReport(P) ==
    /\ bioc /\ events < MaxEvents
    /\ to_host' = Append(to_host, Pkt("BIOC_EVENT", WireB(P), WireC(P), P))
    /\ events' = events + 1
    /\ UNCHANGED <<ack, button, led, ppc, parg, calls, to_dev, bioc, display,
                   resets, reported, wanted, got>>

-----------------------------------------------------------------------------

\* The module loaded: its globals zero; the controller on, LEDs dark.
Init ==
    /\ ack = 0 /\ button = 0 /\ led = 0
    /\ ppc = "init" /\ parg = 0 /\ calls = 0
    /\ to_dev = <<>> /\ to_host = <<>>
    /\ bioc = FALSE /\ display = Blank
    /\ resets = 0 /\ events = 0
    /\ reported = {} /\ wanted = Blank /\ got = NONE

Next ==
    \/ TUX_INIT
    \/ \E arg \in LedArgs : SetLedStart(arg)
    \/ SetLedPut \/ SetLedStore \/ TUX_BUTTONS
    \/ HandlePacket
    \/ DeviceCommand \/ DeviceReset
    \/ \E P \in PressedSets : DeviceReport(P)

\* The rest of an ioctl already entered runs (kernel code on the CPU); the
\* serial interrupt is taken and the controller works through its input.
\* The program's calls, the reset button and the buttons are not assumed.
Fairness ==
    /\ WF_vars(SetLedPut) /\ WF_vars(SetLedStore)
    /\ WF_vars(HandlePacket) /\ WF_vars(DeviceCommand)

Spec == Init /\ [][Next]_vars /\ Fairness

-----------------------------------------------------------------------------
(* Properties                                                              *)

TypeOK ==
    /\ ack \in {0, 1} /\ button \in 0 .. 255
    /\ led \in {0} \cup LedArgs /\ parg \in {0} \cup LedArgs
    /\ ppc \in {"init", "idle", "put", "store"}
    /\ \A k \in 1 .. Len(to_dev) :
          /\ to_dev[k].op \in {"BIOC_ON", "LED_USR", "LED_SET"}
          /\ Len(to_dev[k].bytes) <= 5     \* buf[6] less the opcode
    /\ bioc \in BOOLEAN /\ display \in [Leds -> 0 .. 255]
    /\ got \in {NONE} \cup [low : 0 .. 255, seen : SUBSET Buttons]

\* The buttons as TUX_BUTTONS should hand them out: R L D U C B A START,
\* bit 7 to bit 0.
Layout(P) ==
    Mask(P, <<"START", "A", "B", "C">>) + 16 * Mask(P, <<"UP", "DOWN", "LEFT", "RIGHT">>)

\* The byte TUX_BUTTONS hands the program is the layout of the buttons
\* the controller last reported before the call: the reordering of the
\* direction bits in tuxctl_handle_packet puts each button on its own
\* bit, and a reset, which tux_init answers by zeroing button, reports
\* none held.
ButtonsReported == got # NONE => got.low = Layout(got.seen)

\* Every LED value tux_set_led puts on the line is shown: the packet the
\* loop builds carries each selected LED's digit to that LED, whatever
\* resets and interrupts come between.
LedSetShown ==
    \A a \in LedArgs :
        (\E k \in 1 .. Len(to_dev) : to_dev[k].op = "LED_SET" /\ to_dev[k].arg = a)
            ~> display = Shown(a)

\* The ack gate never closes for good: once the program has initialised
\* the driver, ack = 0 (after tux_init, a taken ack or a reset) is always
\* followed by an MTCP_ACK that sets it, so TUX_SET_LED works again.
AckReturns == (ppc # "init" /\ ack = 0) ~> ack = 1

\* Once the line is quiet and the program is not inside TUX_SET_LED, the
\* LEDs show the last value the program got through to the driver; in
\* particular a controller reset is repaired, as the comment at
\* tuxctl_handle_packet's MTCP_RESET case ("Reinitialize and store led
\* when resetting") intends.
QuietShowsWanted ==
    (to_dev = <<>> /\ to_host = <<>> /\ ppc \in {"init", "idle"})
        => display = wanted

=============================================================================
