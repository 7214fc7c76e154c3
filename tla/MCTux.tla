--------------------------------- MODULE MCTux --------------------------------
EXTENDS Tux

\* Two LED values: all four LEDs (the longest packet), and LEDs 0 and 2
\* only (a mask with a gap, so the loop's ct and the LED order matter).
MCLedArgs == {\h000F1234, \h00050021}

\* A direction the reordering moves (LEFT) and one beside a plain button.
MCPressedSets == {{"LEFT"}, {"DOWN", "A"}}
=============================================================================
