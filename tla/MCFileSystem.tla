---------------------------- MODULE MCFileSystem ----------------------------
(* Model-checking instance of FileSystem.  Blocks of 2 bytes stand for the  *)
(* 4 KiB blocks, so that a read of up to 3 bytes can start mid-block, end   *)
(* mid-block, or cross a whole block.  The file's data blocks are out of    *)
(* order in the image (7, 5, 6), so a wrong block index shows.  Files of 0  *)
(* to 6 bytes cover the empty file, a partial last block and exact block    *)
(* multiples.                                                               *)
EXTENDS FileSystem, TLC

CONSTANTS p1, p2

MCProcs == {p1, p2}
MCOneProc == {p1}
MCDataBlocks == <<7, 5, 6>>
MCFileLengths == 0 .. 6

\* Names of up to 2 bytes stand for the 32-byte file_name.  Entry 0, the
\* regular file, fills its file_name with no terminator; entry 1, the
\* directory ".", has a name that is a prefix of it.
MCDirNames == <<<<1, 2>>, <<1>>>>
MCDirTypes == <<2, 1>>

\* Headers of 3 bytes and a magic of 2 stand for 40 and 4: the header
\* crosses a block, and files of 0 to 6 bytes are shorter than it, as
\* long, and longer.  The magic is the file's first two bytes (an
\* executable) or two bytes it does not begin with.
MCMagics == {<<<<7, 0>>, <<7, 1>>>>, <<<<7, 0>>, <<5, 0>>>>}

\* The processes are interchangeable.
MCSymmetry == Permutations(MCProcs)
=============================================================================
