------------------------------ MODULE FileSystem ------------------------------
(***************************************************************************)
(* The read-only file system as processes see it through the system calls *)
(* (src/mp3/student-distrib/filesystem.c and system_calls.c): open of a    *)
(* regular file or of the directory, read, close.                          *)
(*                                                                         *)
(* A regular file read goes read() -> file_read -> read_data, which copies *)
(* block by block through the inode's data_block_num array; read() then    *)
(* advances the descriptor's file_position by the count.  A byte of the    *)
(* image is abstracted to its address, <<data block, offset in block>>.    *)
(* A directory read goes read() -> dir_read, which ignores the descriptor  *)
(* and walks the module-global cursor file_idx.  Each process holds at     *)
(* most one descriptor of each kind; fd allocation is modelled in          *)
(* Processes.                                                              *)
(***************************************************************************)
EXTENDS Integers, Sequences

CONSTANTS
    Procs,            \* processes using the file system
    BLOCK_SIZE,       \* 4096 in the code
    FileLengths,      \* inode lengths the image may give the regular file
    DATA_BLOCKS,      \* data_block_num of the file's inode
    NUM_DIR_ENTRIES,  \* boot_block_ptr->num_dir_entries
    MaxNbytes,        \* largest nbytes a program passes to read
    MaxDirReads,      \* bound on dir reads per open
    NAME_LEN,         \* 32: the bytes of a dentry's file_name
    NameChars,        \* the nonzero bytes names are made of
    DIR_NAMES,        \* file_name of each directory entry, up to its
                      \* first zero byte (NAME_LEN bytes if it has none)
    DIR_TYPES,        \* file_type of each entry: 1 the directory, 2 the file
    SP,               \* the space byte of a command line
    CMD_LEN,          \* bound on the length of a command passed to execute
    HEADER_LEN,       \* 40: the header execute reads
    MAGIC_LEN,        \* 4: the bytes of the executable magic
    Magics,           \* what {0x7f, 'E', 'L', 'F'} may be in the model's bytes:
                      \* the file's first bytes (an executable) or others
    ARGS_LEN,         \* 128: execute's args array and the PCB's copy
    GARBAGE           \* an uninitialised byte of that array

ASSUME BLOCK_SIZE \in Nat \ {0} /\ MaxNbytes \in Nat \ {0}
ASSUME \A len \in FileLengths : len \in Nat /\ (len + BLOCK_SIZE - 1) \div BLOCK_SIZE <= Len(DATA_BLOCKS)

ASSUME NAME_LEN \in Nat \ {0} /\ Len(DIR_NAMES) = NUM_DIR_ENTRIES
ASSUME DIR_TYPES \in [1 .. NUM_DIR_ENTRIES -> {1, 2}]
ASSUME \A i \in 1 .. NUM_DIR_ENTRIES : Len(DIR_NAMES[i]) <= NAME_LEN
\* An argument, a word after the file name and a space, fits args with its
\* terminator (a shell line is at most 127 bytes, args 128).
ASSUME SP \notin NameChars /\ 0 \notin NameChars /\ CMD_LEN - 1 <= ARGS_LEN
ASSUME MAGIC_LEN <= HEADER_LEN /\ MaxNbytes <= ARGS_LEN

EOF  == -1    \* dir_read's "return 0" at the end of the directory
NONE == -1    \* no read since open

VARIABLES
    flen,       \* inode_ptr[inode].length of the file
    fopen,      \* p holds an open descriptor of the file
    fpos,       \* its file_position
    fgot,       \* the bytes p's reads have returned since open, in order
    fret,       \* what p's last read of the file returned
    file_idx,   \* filesystem.c's global directory cursor
    dopen,      \* p holds an open descriptor of the directory
    dgot,       \* the entries (EOF for the 0 return) p's dir reads returned
    fnamed,      \* history: the name p's open of the file was passed
    dnamed       \* history: the name p's open of the directory was passed

vars == <<flen, fopen, fpos, fgot, fret, file_idx, dopen, dgot, fnamed, dnamed>>

-----------------------------------------------------------------------------
(* read_data (filesystem.c 75-121)                                         *)

\* The byte at offset o of data block b of the image.
BlockByte(b, o) == <<b, o>>

\* Mutant: the last block is copied whole, past the end of the range.
RECURSIVE CopyBlocksWholeLast(_, _, _, _, _)
CopyBlocksWholeLast(i, sb, eb, start_offset, end_offset) ==
    IF i > eb THEN <<>>
    ELSE LET n == CASE i = sb -> BLOCK_SIZE - start_offset
                    [] OTHER  -> BLOCK_SIZE
         IN  [j \in 1 .. n |-> BlockByte(DATA_BLOCKS[i + 1], start_offset + j - 1)]
             \o CopyBlocksWholeLast(i + 1, sb, eb, 0, end_offset)

\* Mutant: start_offset is not reset after the first block.
RECURSIVE CopyBlocksNoReset(_, _, _, _, _)
CopyBlocksNoReset(i, sb, eb, start_offset, end_offset) ==
    IF i > eb THEN <<>>
    ELSE LET n == CASE i = sb /\ i = eb -> end_offset - start_offset + 1
                    [] i = sb           -> BLOCK_SIZE - start_offset
                    [] i = eb           -> end_offset + 1
                    [] OTHER            -> BLOCK_SIZE
         IN  [j \in 1 .. n |-> BlockByte(DATA_BLOCKS[i + 1], start_offset + j - 1)]
             \o CopyBlocksNoReset(i + 1, sb, eb, start_offset, end_offset)

\* The copy loop: blocks i .. eb of the file, bytes_to_copy from each, from
\* start_offset in the first block and from 0 after it (102-119).
RECURSIVE CopyBlocks(_, _, _, _, _)
CopyBlocks(i, sb, eb, start_offset, end_offset) ==
    IF i > eb THEN <<>>
    ELSE LET n == CASE i = sb /\ i = eb -> end_offset - start_offset + 1
                    [] i = sb           -> BLOCK_SIZE - start_offset
                    [] i = eb           -> end_offset + 1
                    [] OTHER            -> BLOCK_SIZE
         IN  [j \in 1 .. n |-> BlockByte(DATA_BLOCKS[i + 1], start_offset + j - 1)]
             \o CopyBlocks(i + 1, sb, eb, 0, end_offset)

\* The bytes read_data(inode, offset, buf, length) copies into buf; its
\* return value is their number.  length >= 1 on every call (read()
\* refuses nbytes <= 0; execute passes 40 and the image size), so
\* offset + length - 1 does not wrap; with files below 4 MiB and nbytes
\* below 2^31 neither does offset + length.
ReadData(len, offset, length) ==
    IF offset >= len THEN <<>>
    ELSE LET n  == IF offset + length > len THEN len - offset ELSE length
             sb == offset \div BLOCK_SIZE
             eb == (offset + n - 1) \div BLOCK_SIZE
         IN  CopyBlocks(sb, sb, eb, offset % BLOCK_SIZE,
                        (offset + n - 1) % BLOCK_SIZE)

-----------------------------------------------------------------------------
(* read_dentry_by_name (filesystem.c 19-41)                                *)

\* Byte i of a string: its characters, then zero bytes.  A file_name of
\* NAME_LEN characters has no terminator, and nothing below reads past it.
CharAt(s, i) == IF i <= Len(s) THEN s[i] ELSE 0

\* strncmp(s1, s2, n) of lib.c (not in the repository): compare bytes
\* until they differ, both end, or n have been compared.
RECURSIVE StrncmpFrom(_, _, _, _)
StrncmpFrom(s1, s2, n, i) ==
    IF i > n THEN 0
    ELSE IF CharAt(s1, i) # CharAt(s2, i) THEN CharAt(s1, i) - CharAt(s2, i)
    ELSE IF CharAt(s1, i) = 0 THEN 0
    ELSE StrncmpFrom(s1, s2, n, i + 1)

Strncmp(s1, s2, n) == StrncmpFrom(s1, s2, n, 1)

\* Mutant: the length check on fname is dropped.
ReadDentryByNameNoLenCheck(fname) ==
    LET hits == {i \in 1 .. NUM_DIR_ENTRIES :
                    Strncmp(fname, DIR_NAMES[i], NAME_LEN) = 0}
    IN  IF hits = {} THEN -1 ELSE (CHOOSE i \in hits : \A j \in hits : i <= j) - 1

\* The index of the entry read_dentry_by_name copies out, or -1: names
\* longer than 32 are refused, then the first entry that strncmp matches
\* within 32 bytes wins.
ReadDentryByName(fname) ==
    IF Len(fname) > NAME_LEN THEN -1
    ELSE LET hits == {i \in 1 .. NUM_DIR_ENTRIES :
                         Strncmp(fname, DIR_NAMES[i], NAME_LEN) = 0}
         IN  IF hits = {} THEN -1 ELSE (CHOOSE i \in hits : \A j \in hits : i <= j) - 1

-----------------------------------------------------------------------------
(* The system calls on a regular file                                      *)

\* The names open() may be passed: strings of NameChars up to one byte
\* longer than a file_name.
Names == UNION {[1 .. k -> NameChars] : k \in 0 .. NAME_LEN + 1}

\* open(f) looks f up and dispatches on the entry's file_type
\* (system_calls.c 404-493).  A name not found opens nothing.
OpensAs(f, type) ==
    /\ ReadDentryByName(f) # -1
    /\ DIR_TYPES[ReadDentryByName(f) + 1] = type

\* open(f) of the regular file: a free descriptor gets flags = 1,
\* file_position = 0 and the file operations; file_open only looks the
\* name up again.
OpenFile(p, f) ==
    /\ ~fopen[p]
    /\ OpensAs(f, 2)
    /\ fnamed' = [fnamed EXCEPT ![p] = f]
    /\ fopen' = [fopen EXCEPT ![p] = TRUE]
    /\ fpos' = [fpos EXCEPT ![p] = 0]
    /\ fgot' = [fgot EXCEPT ![p] = <<>>]
    /\ fret' = [fret EXCEPT ![p] = NONE]
    /\ UNCHANGED <<flen, file_idx, dopen, dgot, dnamed>>

\* Mutant: file_read's commented-out advance is restored, so the position
\* moves twice.
AdvanceTwice(pos, byte_read) == pos + 2 * byte_read

\* read() adds the count the read operation returned to file_position
\* (system_calls.c 351).
Advance(pos, byte_read) == pos + byte_read

\* read(fd, buf, nbytes) on the file: file_read passes the descriptor's
\* position to read_data (filesystem.c 187-204, system_calls.c 327-357).
ReadFile(p, nbytes) ==
    /\ fopen[p]
    /\ LET bytes == ReadData(flen, fpos[p], nbytes) IN
       /\ fgot' = [fgot EXCEPT ![p] = @ \o bytes]
       /\ fret' = [fret EXCEPT ![p] = Len(bytes)]
       /\ fpos' = [fpos EXCEPT ![p] = Advance(@, Len(bytes))]
    /\ UNCHANGED <<flen, fopen, file_idx, dopen, dgot, fnamed, dnamed>>

\* close(): file_close does nothing, flags = 0 (system_calls.c 501-524).
CloseFile(p) ==
    /\ fopen[p]
    /\ fopen' = [fopen EXCEPT ![p] = FALSE]
    /\ UNCHANGED <<flen, fpos, fgot, fret, file_idx, dopen, dgot, fnamed, dnamed>>

-----------------------------------------------------------------------------
(* The system calls on the directory                                       *)

\* open(f) of the directory: the same descriptor set-up with the dir
\* operations; dir_open only looks the name up, file_idx is left where it
\* is.
OpenDir(p, f) ==
    /\ ~dopen[p]
    /\ OpensAs(f, 1)
    /\ dnamed' = [dnamed EXCEPT ![p] = f]
    /\ dopen' = [dopen EXCEPT ![p] = TRUE]
    /\ dgot' = [dgot EXCEPT ![p] = <<>>]
    /\ UNCHANGED <<flen, fopen, fpos, fgot, fret, file_idx, fnamed>>

\* read() on the directory: dir_read returns the name at the global file_idx
\* and advances it, or at the end resets it and returns 0 (filesystem.c
\* 268-297).  The 32 read() adds to the unused file_position is left out.
ReadDir(p) ==
    /\ dopen[p]
    /\ Len(dgot[p]) < MaxDirReads
    /\ IF file_idx < NUM_DIR_ENTRIES
         THEN /\ dgot' = [dgot EXCEPT ![p] = Append(@, file_idx)]
              /\ file_idx' = file_idx + 1
         ELSE /\ dgot' = [dgot EXCEPT ![p] = Append(@, EOF)]
              /\ file_idx' = 0
    /\ UNCHANGED <<flen, fopen, fpos, fgot, fret, dopen, fnamed, dnamed>>

\* close() on the directory: dir_close does nothing.
CloseDir(p) ==
    /\ dopen[p]
    /\ dopen' = [dopen EXCEPT ![p] = FALSE]
    /\ UNCHANGED <<flen, fopen, fpos, fgot, fret, file_idx, dgot, fnamed, dnamed>>

-----------------------------------------------------------------------------
(* execute's command line and loader check (system_calls.c 134-197), and  *)
(* getargs (534-556), as operators of the command: the process side of    *)
(* execute (pid, PCB, paging) is in Processes.  A command is a string of   *)
(* NameChars and spaces; it holds no zero byte, so strlen is its length.   *)

\* The loops that skip spaces (138-141, 163-166): the first index at or
\* after i that is not a space, or Len(cmd) + 1.
RECURSIVE SkipSpaces(_, _)
SkipSpaces(cmd, i) ==
    IF i <= Len(cmd) /\ cmd[i] = SP THEN SkipSpaces(cmd, i + 1) ELSE i

\* The file-name loop (148-158): copy up to a space or the end; fail when a
\* character is left to copy with filename_length already 32.
RECURSIVE CopyFilename(_, _, _)
CopyFilename(cmd, i, name) ==
    IF i > Len(cmd) \/ cmd[i] = SP THEN [ok |-> TRUE, name |-> name, next |-> i]
    ELSE IF Len(name) >= NAME_LEN THEN [ok |-> FALSE]
    ELSE CopyFilename(cmd, i + 1, Append(name, cmd[i]))

\* The argument loop (172-181): copy up to a space or the end, so args is
\* the one word after the file name.
RECURSIVE CopyArg(_, _, _)
CopyArg(cmd, i, arg) ==
    IF i > Len(cmd) \/ cmd[i] = SP THEN arg ELSE CopyArg(cmd, i + 1, Append(arg, cmd[i]))

\* filename[filename_length] = '\0' (161) stores one byte past filename
\* when the name fills its 32 bytes, into whatever the compiler put there:
\* "pad", a byte read again only after it is rewritten (padding,
\* filename_length, dentry, buf_header); "args", args[0], which the
\* argument loop overwrites, so the name runs on into the argument; "i",
\* the low byte of i (below 256, so i becomes 0): the argument loop starts
\* over at the command's first character, and the i it ends with, nonzero
\* past the 32-byte name, is then filename[32], so the name
\* read_dentry_by_name measures has 33 characters.
Layouts == {"pad", "args", "i"}

\* execute's parse (134-181): the string read_dentry_by_name is passed and
\* the string left in args, or ok = FALSE for the -1 returns.
Parse(cmd, layout) ==
    LET i0   == SkipSpaces(cmd, 1)
        fn   == CopyFilename(cmd, i0, <<>>)
        full == fn.ok /\ Len(fn.name) = NAME_LEN
        arg  == CopyArg(cmd, IF full /\ layout = "i" THEN SkipSpaces(cmd, 1)
                             ELSE SkipSpaces(cmd, fn.next), <<>>)
    IN  IF i0 > Len(cmd) \/ ~fn.ok THEN [ok |-> FALSE]
        ELSE [ok |-> TRUE, arg |-> arg,
              lookup |-> CASE full /\ layout = "args" -> fn.name \o arg
                           [] full /\ layout = "i"    ->
                                fn.name \o <<SkipSpaces(cmd, 1) - 1 + Len(arg)>>
                           [] OTHER                   -> fn.name]

\* buf_header (133) after read_data put header into it: bytes past those
\* read are uninitialised.
BufHeader(header) == header \o [k \in 1 .. HEADER_LEN - Len(header) |-> GARBAGE]

\* Mutant: only a failed read_data (no bytes) refuses the header.
ExecuteLoadEmptyHeader(len, cmd, layout, magic) ==
    LET pr     == Parse(cmd, layout)
        d      == ReadDentryByName(pr.lookup)
        header == ReadData(len, 0, HEADER_LEN)
    IN  IF ~pr.ok \/ d = -1 \/ Len(header) = 0 THEN -1
        ELSE IF SubSeq(BufHeader(header), 1, MAGIC_LEN) # magic THEN -1
        ELSE d

\* The loader check (182-197) on a file of length len whose first
\* MAGIC_LEN bytes the code's {0x7f, 'E', 'L', 'F'} equals when they are
\* magic: the index of the entry execute goes on to load, or -1.  Every
\* entry names the one modelled inode (read_dentry_by_name copies
\* inode_num whatever the file_type).
ExecuteLoad(len, cmd, layout, magic) ==
    LET pr     == Parse(cmd, layout)
        d      == ReadDentryByName(pr.lookup)
        header == ReadData(len, 0, HEADER_LEN)
    IN  IF ~pr.ok \/ d = -1 \/ Len(header) # HEADER_LEN THEN -1
        ELSE IF SubSeq(BufHeader(header), 1, MAGIC_LEN) # magic THEN -1
        ELSE d

\* memcpy(pcb_ptr->args, args, 128) (239): the argument, its terminator,
\* and the uninitialised rest of execute's args array.
ArgsArray(arg) ==
    [k \in 1 .. ARGS_LEN |-> IF k <= Len(arg) THEN arg[k]
                             ELSE IF k = Len(arg) + 1 THEN 0 ELSE GARBAGE]

\* strlen of lib.c (not in the repository): bytes before the first zero.
StrLen(a) ==
    LET z == {k \in DOMAIN a : a[k] = 0}
    IN  IF z = {} THEN Len(a) ELSE (CHOOSE k \in z : \A m \in z : k <= m) - 1

\* getargs(buf, nbytes) into a user buffer (534-556): <<>> for the -1 of an
\* empty or a longer argument, else the nbytes bytes memcpy copies.
Getargs(a, nbytes) ==
    IF a[1] = 0 \/ StrLen(a) > nbytes THEN <<>> ELSE SubSeq(a, 1, nbytes)

-----------------------------------------------------------------------------

\* file_system_init points at the image; file_idx = 0 (filesystem.c 8).
Init ==
    /\ flen \in FileLengths
    /\ fopen = [p \in Procs |-> FALSE]
    /\ fpos = [p \in Procs |-> 0]
    /\ fgot = [p \in Procs |-> <<>>]
    /\ fret = [p \in Procs |-> NONE]
    /\ file_idx = 0
    /\ dopen = [p \in Procs |-> FALSE]
    /\ dgot = [p \in Procs |-> <<>>]
    /\ fnamed = [p \in Procs |-> <<>>]
    /\ dnamed = [p \in Procs |-> <<>>]

Next ==
    \E p \in Procs :
        \/ \E f \in Names : OpenFile(p, f) \/ OpenDir(p, f)
        \/ CloseFile(p)
        \/ \E n \in 1 .. MaxNbytes : ReadFile(p, n)
        \/ ReadDir(p) \/ CloseDir(p)

Spec == Init /\ [][Next]_vars

-----------------------------------------------------------------------------
(* Properties                                                              *)

\* Byte k of a file of the image, from the layout of spec 3: data block
\* DATA_BLOCKS[k \div BLOCK_SIZE + 1], offset k % BLOCK_SIZE.
FileByte(k) == BlockByte(DATA_BLOCKS[k \div BLOCK_SIZE + 1], k % BLOCK_SIZE)

\* The first m bytes of the file.
FilePrefix(m) == [k \in 1 .. m |-> FileByte(k - 1)]

TypeOK ==
    /\ flen \in FileLengths
    /\ fopen \in [Procs -> BOOLEAN] /\ dopen \in [Procs -> BOOLEAN]
    /\ fpos \in [Procs -> Nat] /\ fret \in [Procs -> {NONE} \cup 0 .. MaxNbytes]
    /\ file_idx \in 0 .. NUM_DIR_ENTRIES
    /\ fnamed \in [Procs -> Names] /\ dnamed \in [Procs -> Names]
    /\ \A p \in Procs :
          /\ Len(fgot[p]) <= flen
          /\ Len(dgot[p]) <= MaxDirReads

\* read_data on the image's file copies exactly min(length, len - offset)
\* bytes of the file starting at offset, for every offset and length,
\* whatever blocks the range starts, ends and crosses (checked for every
\* file length, as Init chooses flen from all of them).
ReadDataCorrect ==
    \A offset \in 0 .. Len(DATA_BLOCKS) * BLOCK_SIZE, length \in 1 .. MaxNbytes :
        LET m == IF offset >= flen THEN 0
                 ELSE IF length < flen - offset THEN length ELSE flen - offset
        IN  ReadData(flen, offset, length) = [k \in 1 .. m |-> FileByte(offset + k - 1)]

\* open() finds a file exactly by its name: a descriptor of the regular
\* file or of the directory was opened with that entry's whole file_name.
\* A name one byte longer than a full 32-byte file_name, or a prefix of
\* one, never opens it, even though strncmp compares only 32 bytes and
\* such a name carries no terminator.
LookupByName ==
    \A p \in Procs :
        /\ fopen[p] => \E i \in 1 .. NUM_DIR_ENTRIES :
                          DIR_TYPES[i] = 2 /\ DIR_NAMES[i] = fnamed[p]
        /\ dopen[p] => \E i \in 1 .. NUM_DIR_ENTRIES :
                          DIR_TYPES[i] = 1 /\ DIR_NAMES[i] = dnamed[p]

\* Successive reads of one open file return the file in order: what p has
\* read since open is the file's first bytes, file_position counts them,
\* and a read returns 0 only at the end of the file.
FileReadsSequential ==
    \A p \in Procs :
        fopen[p] =>
            /\ fgot[p] = FilePrefix(Len(fgot[p]))
            /\ fpos[p] = Len(fgot[p])
            /\ fret[p] = 0 => fpos[p] = flen

\* A directory freshly opened lists the directory from its first entry: the
\* entries p's reads return since open are 0, 1, ... and then the end
\* (spec 8, scenario 5: open(".") then read returns the first entry's
\* name).
DirListingFromStart ==
    \A p \in Procs :
        \A i \in 1 .. Len(dgot[p]) :
            dgot[p][i] = IF i <= NUM_DIR_ENTRIES THEN i - 1 ELSE EOF

\* The commands execute is tested on: up to CMD_LEN bytes.
Commands == UNION {[1 .. k -> NameChars \cup {SP}] : k \in 0 .. CMD_LEN}

\* The command's first word, by its spans: the least maximal run of
\* non-space bytes.
FirstWord(cmd) ==
    LET spans == {ab \in (1 .. Len(cmd)) \X (1 .. Len(cmd)) :
                    /\ ab[1] <= ab[2]
                    /\ \A k \in ab[1] .. ab[2] : cmd[k] # SP
                    /\ ab[1] = 1 \/ cmd[ab[1] - 1] = SP
                    /\ ab[2] = Len(cmd) \/ cmd[ab[2] + 1] = SP}
        first == CHOOSE ab \in spans : \A cd \in spans : ab[1] <= cd[1]
    IN  SubSeq(cmd, first[1], first[2])

\* execute loads only the program its command names (spec 4.7): whenever
\* the parse, the lookup and the header check let execute go on to load
\* an entry, that entry's file_name is the command's first word, the file
\* holds a whole header and begins with the magic.  Checked for every
\* command, every layout the terminator written past filename can hit,
\* every magic and every file length (a constant-level table, evaluated
\* once).
ExecuteLoadsNamedFor ==
    [len \in FileLengths |->
        \A cmd \in Commands, layout \in Layouts, magic \in Magics :
            LET d == ExecuteLoad(len, cmd, layout, magic)
            IN  d # -1 => /\ DIR_NAMES[d + 1] = FirstWord(cmd)
                          /\ len >= HEADER_LEN
                          /\ FilePrefix(MAGIC_LEN) = magic]

ExecuteLoadsNamed == ExecuteLoadsNamedFor[flen]

\* getargs hands the program its argument as a string, failing if it
\* "would not fit" (spec 4.9): what a successful getargs copies holds a
\* terminator.  getargs refuses only an argument longer than nbytes, so
\* one of exactly nbytes bytes arrives without it.  Stated for the
\* record: TLC finds it violated by "1 2" with nbytes = 1, a case one
\* call reaches, and no run keeps it.
GetargsTerminated ==
    \A cmd \in Commands, layout \in Layouts, n \in 1 .. MaxNbytes :
        LET pr == Parse(cmd, layout)
            b  == Getargs(ArgsArray(pr.arg), n)
        IN  pr.ok /\ b # <<>> => \E k \in DOMAIN b : b[k] = 0

=============================================================================
