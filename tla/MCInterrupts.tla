---------------------------- MODULE MCInterrupts ----------------------------
(* Model-checking instance of Interrupts.  The RTC's 1024 Hz is scaled to  *)
(* 8 ticks a second, and freq_to_rate's table to the frequencies that      *)
(* divide it: 2, 4 and 8 Hz give periods of 4, 2 and 1 ticks, which is    *)
(* every relation between a terminal's period and the counter (a tick that *)
(* completes some periods and not others).  Programs also write 3, which   *)
(* the table refuses.                                                      *)
EXTENDS Interrupts

MCFreqTable == {2, 4, 8}
MCWriteFreqs == {2, 8, 3}
=============================================================================
