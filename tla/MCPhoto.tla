-------------------------------- MODULE MCPhoto -------------------------------
EXTENDS Photo

\* Four pixel values: 0 and 1 share a level-4 node in different colours
\* (so the averages are real averages), 2 is the next level-4 node inside
\* the same level-2 node, and 8 lies in another level-2 node.
MCPixelValues == {0, 1, 2, 8}

\* The transparent byte, above the 2:2:2 object colours 0..63.
MCTransp == 64

\* Three objects, files bottom row first.  A (2x2) hangs off the photo's
\* left edge with one transparent pixel; B (2x1), later in the list,
\* overlaps A's bottom row with a transparent pixel over A's; C (1x1)
\* lies past the right edge, where the photo gives 0.
MCObjects ==
    << [x |-> -1, y |-> 0, width |-> 2, height |-> 2, file |-> <<6, 7, 5, MCTransp>>],
       [x |-> 0, y |-> 1, width |-> 2, height |-> 1, file |-> <<MCTransp, 9>>],
       [x |-> 3, y |-> 0, width |-> 1, height |-> 1, file |-> <<8>>] >>
=============================================================================
