----------------------------- MODULE MCProcesses -----------------------------
(* Model-checking instance of Processes: three terminals, the code's six   *)
(* pids, three descriptor slots (0, 1 and one user file).                  *)
EXTENDS Processes

\* Programs halt(0); an exception halts with 1.  These are the two returns
\* the code distinguishes.  Status 2 shows what happens to other values.
MCStatuses    == {0}
MCAllStatuses == {0, 2}

\* Never-used PCBs: zeroed memory, or any garbage in the flags.
MCZeroedPcbs  == {{}}
MCGarbagePcbs == SUBSET (0 .. 2)
=============================================================================
