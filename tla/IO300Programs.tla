---------------------------- MODULE IO300Programs ----------------------------
(***************************************************************************)
(* fileio/test_programs: seven programs that copy or change a file through *)
(* io300.h, each linked with one of the implementations in IO300.  A step  *)
(* is one io300 call and the code up to the next one.                      *)
(***************************************************************************)
EXTENDS IO300, SequencesExt

CONSTANTS
    Impls,            \* implementations to link with
    Sample,           \* the input file is a prefix of Sample, a sequence of bytes
    MAX_BLOCK_SIZE,   \* of random_block_cat, and of the block sizes tried
    MaxStride,        \* strides tried
    SIZE_T            \* how many values a size_t has

ASSUME ProgramsAssumption ==
    /\ Impls \subseteq {"naive", "student", "stdio"}
    /\ Sample \in Seq(0..255)
    /\ MAX_BLOCK_SIZE \in Nat \ {0} /\ MaxStride \in Nat \ {0} /\ SIZE_T \in Nat \ {0}

VARIABLES
    run,       \* [impl, prog, input, block, stride, limit]: how the program was started
    disk,      \* bytes of "in" and "out" on disk
    file,      \* open io300_files
    pc, i,     \* i: the loop counter, or stride_cat's pos
    block,     \* stride_cat's block_size
    written,   \* stride_cat's written
    buf,       \* the program's buffer
    call,      \* last io300 call and its result (history)
    turn,      \* changes with every call (history)
    hurt,      \* some call failed or was cut short (history)
    cut,       \* some call's short count put a block in the wrong place (history)
    status     \* exit status

history == <<call, turn, hurt, cut>>
vars == <<run, disk, file, pc, i, block, written, buf, history, status>>

Names == {"in", "out"}
Crash == 134   \* killed by a signal
Programs == {"byte_cat", "block_cat", "random_block_cat", "reverse_byte_cat",
             "reverse_block_cat", "rot13", "stride_cat"}
\* Programs that take a block size.
Blocked == {"block_cat", "reverse_block_cat", "stride_cat"}

-----------------------------------------------------------------------------
(* The implementation the program is linked with.                          *)

io300_open(d) == CASE run.impl = "naive" -> naive_open(d)
                   [] run.impl = "student" -> student_open(d)
                   [] run.impl = "stdio" -> stdio_open(d)
io300_close(f, d) == CASE run.impl = "naive" -> naive_close(f, d)
                       [] run.impl = "student" -> student_close(f, d)
                       [] run.impl = "stdio" -> stdio_close(f, d)
io300_seek(f, d, to) == CASE run.impl = "naive" -> naive_seek(f, d, to)
                          [] run.impl = "student" -> student_seek(f, d, to)
                          [] run.impl = "stdio" -> stdio_seek(f, d, to)
io300_readc(f, d) == CASE run.impl = "naive" -> naive_readc(f, d)
                       [] run.impl = "student" -> student_readc(f, d)
                       [] run.impl = "stdio" -> stdio_readc(f, d)
io300_read(f, d, n) == CASE run.impl = "naive" -> naive_read(f, d, n)
                         [] run.impl = "student" -> student_read(f, d, n)
                         [] run.impl = "stdio" -> stdio_read(f, d, n)
io300_writec(f, d, ch) == CASE run.impl = "naive" -> naive_writec(f, d, ch, run.limit)
                            [] run.impl = "student" -> student_writec(f, d, ch, run.limit)
                            [] run.impl = "stdio" -> stdio_writec(f, d, ch)
io300_write(f, d, s) == CASE run.impl = "naive" -> naive_write(f, d, s, run.limit)
                          [] run.impl = "student" -> student_write(f, d, s, run.limit)
                          [] run.impl = "stdio" -> stdio_write(f, d, s)

io300_filesize(d) == CASE run.impl = "naive" -> naive_filesize(d)
                       [] run.impl = "student" -> student_filesize(d)
                       [] run.impl = "stdio" -> stdio_filesize(d)

\* The programs ask for the size once; none makes the file they asked about longer.
filesize == io300_filesize(run.input)

\* A short count that puts the next block in the wrong place: a write's with room left on the
\* disk, or, for the program that goes through the blocks by their offsets, a read's.
CutShort(op, n, o) ==
    \/ op = "write" /\ o.ret \in 0..(n - 1) /\ ~(run.impl # "stdio" /\ o.f.off >= run.limit)
    \/ op = "read" /\ run.prog = "reverse_block_cat" /\ o.failed /\ o.ret # -1

\* The call on handle h had outcome o.
Returns(op, h, n, o) ==
    /\ file' = [file EXCEPT ![h] = o.f]
    /\ disk' = [disk EXCEPT ![h] = o.d]
    /\ hurt' = (hurt \/ o.failed)
    /\ cut' = (cut \/ CutShort(op, n, o))
    /\ call' = [op |-> op, h |-> h, n |-> n, to |-> n, data |-> o.data, ret |-> o.ret,
                failed |-> o.failed]
    /\ turn' = 1 - turn
    /\ UNCHANGED run

\* The calls as the programs use them: on success go on at label next, on -1 give up.
Exit(code) == pc' = "close" /\ status' = code
Seek(h, to, next) ==
    \E o \in io300_seek(file[h], disk[h], to) :
        /\ Returns("seek", h, to, o)
        /\ IF o.ret = -1 THEN Exit(1) ELSE pc' = next /\ UNCHANGED status
Readc(h, next) ==
    \E o \in io300_readc(file[h], disk[h]) :
        /\ Returns("readc", h, 1, o)
        /\ IF o.ret = -1 THEN Exit(1) /\ UNCHANGED buf
                         ELSE pc' = next /\ buf' = <<o.ret>> /\ UNCHANGED status
Writec(h, ch, next) ==
    \E o \in io300_writec(file[h], disk[h], ch) :
        /\ Returns("writec", h, 1, o)
        /\ IF o.ret = -1 THEN Exit(1) ELSE pc' = next /\ UNCHANGED status

\* main up to its loop: the opens, the size and the buffers, with their early returns.
\* Without memory a program closes its files and returns.
Setup(early, opensOut, refused, allocates, first, onNull) ==
    /\ pc = "start"
    /\ \/ early /\ status' = 1 /\ pc' = "done" /\ UNCHANGED <<disk, file, hurt>>
       \/ /\ ~early
          /\ \E oi \in io300_open(disk["in"]) :
             \E oo \in IF opensOut /\ ~oi.failed THEN io300_open(disk["out"])
                       ELSE {Done(NoFile, disk["out"], 0, <<>>)} :
             \E nomem \in {FALSE, MayFail /\ allocates} :
                LET null == oi.failed \/ oo.failed
                    stop == null \/ refused \/ nomem
                IN  /\ disk' = [in |-> oi.d, out |-> oo.d]
                    /\ file' = IF stop THEN file ELSE [in |-> oi.f, out |-> oo.f]
                    /\ hurt' = (null \/ nomem)
                    /\ status' = IF null THEN onNull ELSE IF stop THEN 1 ELSE 0
                    /\ pc' = IF stop THEN "done" ELSE "top"
    /\ i' = first
    /\ UNCHANGED <<run, block, written, buf, call, turn, cut>>

\* The closes at the end of main; nobody looks at what they return.
Close ==
    /\ pc = "close"
    /\ \E oi \in io300_close(file["in"], disk["in"]) :
       \E oo \in IF file["out"] = NoFile THEN {Done(NoFile, disk["out"], 0, <<>>)}
                 ELSE io300_close(file["out"], disk["out"]) :
          /\ file' = [in |-> oi.f, out |-> oo.f]
          /\ disk' = [in |-> oi.d, out |-> oo.d]
          /\ call' = [op |-> "close", ret |-> [in |-> oi.ret, out |-> oo.ret],
                      failed |-> oi.failed \/ oo.failed]
          /\ hurt' = (hurt \/ oi.failed \/ oo.failed)
    /\ turn' = 1 - turn
    /\ pc' = "done"
    /\ UNCHANGED <<run, i, block, written, buf, cut, status>>

\* The loop's condition is false, or its body breaks.
Leave == pc' = "close" /\ UNCHANGED <<run, disk, file, i, block, written, buf, history, status>>

-----------------------------------------------------------------------------
(* Programs that copy byte by byte.                                        *)

byte_cat ==
    /\ run.prog = "byte_cat"
    /\ \/ Setup(FALSE, TRUE, filesize <= 0, FALSE, 0, 1)
       \/ pc = "top" /\ i < filesize /\ Readc("in", "write") /\ UNCHANGED <<i, block, written>>
       \/ /\ pc = "write" /\ Writec("out", buf[1], "top")
          /\ i' = i + 1 /\ UNCHANGED <<block, written, buf>>
       \/ pc = "top" /\ i >= filesize /\ Leave

reverse_byte_cat ==
    /\ run.prog = "reverse_byte_cat"
    /\ \/ Setup(FALSE, TRUE, filesize <= 0, FALSE, filesize - 1, 1)
       \/ pc = "top" /\ i >= 0 /\ Seek("in", i, "read") /\ UNCHANGED <<i, block, written, buf>>
       \/ pc = "read" /\ Readc("in", "write") /\ UNCHANGED <<i, block, written>>
       \/ /\ pc = "write" /\ Writec("out", buf[1], "top")
          /\ i' = i - 1 /\ UNCHANGED <<block, written, buf>>
       \/ pc = "top" /\ i < 0 /\ Leave

\* 65..90 are the upper case letters, 97..122 the lower case ones.
rot13(ch) ==
    IF ch >= 65 /\ ch <= 90 THEN 65 + (((ch - 65) + 13) % 26)
    ELSE IF ch >= 97 /\ ch <= 122 THEN 97 + (((ch - 97) + 13) % 26)
    ELSE ch

\* In place: "in" is read and written.
rot13_main ==
    /\ run.prog = "rot13"
    /\ \/ Setup(FALSE, FALSE, FALSE, FALSE, 0, 1)
       \/ pc = "top" /\ i < filesize /\ Seek("in", i, "read") /\ UNCHANGED <<i, block, written, buf>>
       \/ pc = "read" /\ Readc("in", "back") /\ UNCHANGED <<i, block, written>>
       \/ pc = "back" /\ Seek("in", i, "write") /\ UNCHANGED <<i, block, written, buf>>
       \/ /\ pc = "write" /\ Writec("in", rot13(buf[1]), "top")
          /\ i' = i + 1 /\ UNCHANGED <<block, written, buf>>
       \/ pc = "top" /\ i >= filesize /\ Leave

-----------------------------------------------------------------------------
(* Programs that copy in blocks.                                           *)

ReadBlock_past_end(n) ==
    \E o \in io300_read(file["in"], disk["in"], n) :
        /\ Returns("read", "in", n, o)
        /\ buf' = o.data
        /\ pc' = IF o.ret = -1 THEN "close" ELSE "write"
        /\ UNCHANGED <<i, block, written, status>>
\* One read of the loop of block_cat and random_block_cat: 0 and -1 both end it.
ReadBlock(n) ==
    \E o \in io300_read(file["in"], disk["in"], n) :
        /\ Returns("read", "in", n, o)
        /\ buf' = o.data
        /\ pc' = IF o.ret \in {0, -1} THEN "close" ELSE "write"
        /\ UNCHANGED <<i, block, written, status>>
\* A write that fails is noted in the exit status and the loop goes on; one that is cut
\* short is not noted.
WriteBlock ==
    \E o \in io300_write(file["out"], disk["out"], buf) :
        /\ Returns("write", "out", Len(buf), o)
        /\ status' = IF o.ret = -1 THEN 1 ELSE status
        /\ pc' = "top"
        /\ UNCHANGED <<i, block, written, buf>>

\* A block size of 0 is complained about, but main goes on.
block_cat ==
    /\ run.prog = "block_cat"
    /\ \/ Setup(FALSE, TRUE, FALSE, TRUE, 0, 1)
       \/ pc = "top" /\ ReadBlock(run.block)
       \/ pc = "write" /\ WriteBlock

random_block_cat ==
    /\ run.prog = "random_block_cat"
    /\ \/ Setup(FALSE, TRUE, filesize <= 0, TRUE, 0, 1)
       \/ pc = "top" /\ \E n \in 1..MAX_BLOCK_SIZE : ReadBlock(n)
       \/ pc = "write" /\ WriteBlock

\* From the last, perhaps empty block back to the first.  A failed read ends the loop
\* without an error.
reverse_block_cat ==
    /\ run.prog = "reverse_block_cat"
    /\ \/ Setup(run.block = 0, TRUE, filesize <= 0, TRUE,
                IF run.block = 0 THEN 0 ELSE filesize - (filesize % run.block), 1)
       \/ pc = "top" /\ i >= 0 /\ Seek("in", i, "read") /\ UNCHANGED <<i, block, written, buf>>
       \/ /\ pc = "read"
          /\ \E o \in io300_read(file["in"], disk["in"], run.block) :
                /\ Returns("read", "in", run.block, o)
                /\ buf' = Reverse(o.data)
                /\ pc' = IF o.ret = -1 THEN "close" ELSE "write"
                /\ UNCHANGED <<i, block, written, status>>
       \/ /\ pc = "write"
          /\ \E o \in io300_write(file["out"], disk["out"], buf) :
                /\ Returns("write", "out", Len(buf), o)
                /\ IF o.ret = -1 THEN Exit(1) ELSE pc' = "top" /\ UNCHANGED status
          /\ i' = i - run.block /\ UNCHANGED <<block, written, buf>>
       \/ pc = "top" /\ i < 0 /\ Leave

\* Where stride_cat goes on, and with which block size, in the arithmetic of size_t.
next_column_full(p, b) ==
    LET q == (p + run.stride) % SIZE_T
    IN  IF q < filesize THEN <<q, b>> ELSE <<((q % run.stride) + b) % SIZE_T, b>>
next_column(p, b) ==
    LET q == (p + run.stride) % SIZE_T
        start == ((q % run.stride) + b) % SIZE_T
    IN  IF q < filesize THEN <<q, b>>
        ELSE <<start, IF (start + b) % SIZE_T > run.stride THEN (run.stride - start) % SIZE_T
                      ELSE b>>

\* A size_t passed as an off_t.
off_t(p) == IF p < SIZE_T \div 2 THEN p ELSE p - SIZE_T

\* stride_cat gives up before it opens its output.
NotSeekable ==
    /\ pc = "start" /\ pc' = "done" /\ status' = 1 /\ hurt' = TRUE
    /\ \E oi \in io300_open(disk["in"]) :
          /\ ~oi.failed /\ \E o \in io300_seek(oi.f, oi.d, 0) : o.ret < 0
          /\ disk' = [disk EXCEPT !["in"] = oi.d]
    /\ UNCHANGED <<run, file, i, block, written, buf, call, turn, cut>>

\* Reads column after column, each stride bytes apart; i is pos.  What io300_open and
\* io300_write return is not looked at, and a seek that fails is an assertion.  A read of
\* more than the buffer has room for is undefined: here the program goes on, or is killed.
stride_cat ==
    /\ run.prog = "stride_cat"
    /\ \/ Setup(FALSE, TRUE, FALSE, FALSE, 0, Crash)
       \/ NotSeekable
       \/ /\ pc = "top" /\ written < filesize
          /\ \E o \in io300_read(file["in"], disk["in"], block) :
                /\ Returns("read", "in", block, o)
                /\ buf' = o.data
                /\ \/ pc' = (IF o.ret <= 0 THEN "close" ELSE "write") /\ UNCHANGED status
                   \/ Len(o.data) > run.block /\ pc' = "done" /\ status' = Crash
          /\ UNCHANGED <<i, block, written>>
       \/ /\ pc = "write"
          /\ \E o \in io300_write(file["out"], disk["out"], buf) : Returns("write", "out", Len(buf), o)
          /\ written' = written + Len(buf)
          /\ i' = next_column(i, block)[1] /\ block' = next_column(i, block)[2]
          /\ pc' = "seek" /\ UNCHANGED <<buf, status>>
       \/ /\ pc = "seek"
          /\ \E o \in io300_seek(file["in"], disk["in"], off_t(i)) :
                /\ Returns("seek", "in", off_t(i), o)
                /\ IF o.ret = -1 THEN pc' = "done" /\ status' = Crash
                                 ELSE pc' = "top" /\ UNCHANGED status
          /\ UNCHANGED <<i, block, written, buf>>
       \/ pc = "top" /\ written >= filesize /\ Leave

-----------------------------------------------------------------------------

Init ==
    /\ run \in {r \in [impl : Impls, prog : Programs,
                       input : {SubSeq(Sample, 1, n) : n \in 0..Len(Sample)},
                       block : 0..MAX_BLOCK_SIZE, stride : 1..MaxStride,
                       limit : 0..(Len(Sample) + 1)] :
                  /\ r.prog \notin Blocked => r.block = 1
                  /\ r.prog # "stride_cat" => r.stride = 1
                  /\ \/ r.limit = Len(r.input) + 1
                     \/ /\ MayFail /\ r.impl # "stdio" /\ r.prog # "rot13"
                        /\ r.limit < Len(r.input)}
    /\ disk \in {[in |-> run.input, out |-> o] : o \in {Missing, <<>>}}
    /\ file = [h \in Names |-> NoFile]
    /\ pc = "start" /\ i = 0 /\ written = 0 /\ block = run.block /\ buf = <<>>
    /\ call = [op |-> "none"] /\ turn = 0 /\ hurt = FALSE /\ cut = FALSE /\ status = 0

Next == \/ byte_cat \/ reverse_byte_cat \/ rot13_main \/ block_cat \/ random_block_cat
        \/ reverse_block_cat \/ stride_cat \/ Close

\* A program runs until it exits.
Spec == Init /\ [][Next]_vars /\ WF_vars(Next)

-----------------------------------------------------------------------------
(* Properties.                                                             *)

\* What the user of handle h would read, buffered bytes included, and where from.
Contents(h) == IF disk[h] = Missing THEN <<>>
               ELSE IF file[h] = NoFile THEN disk[h]
               ELSE Overlaid(disk[h], file[h].off, file[h].pending)
Tell(h) == IF file[h] = NoFile THEN 0
           ELSE file[h].off - Len(file[h].ahead) + Len(file[h].pending)

OnDisk(h) == IF disk[h] = Missing THEN <<>> ELSE disk[h]

AFile == INSTANCE ByteFile WITH
    Handles <- Names, contents <- [h \in Names |-> Contents(h)],
    stored <- [h \in Names |-> OnDisk(h)], pos <- [h \in Names |-> Tell(h)]

\* Each implementation is the file io300.h describes, results of the calls included: a read
\* returns the bytes at the offset and an end of the file only where it is, a write that
\* reports success has replaced them, and stdio's buffer shows neither when it is refilled
\* nor when a seek, a flush or the close empties it.  A call that fails says so or returns a
\* short count, and loses no byte that is on disk already; so does the close, except that stdio.c's
\* may return 0 all the same: it drops the result of its flush, after which fclose finds
\* nothing left to write.
ImplementsFile == AFile!Spec

\* The bytes of the input in the order stride_cat's usage comment gives.
Strided(s, b, stride) ==
    LET key(p) == <<((p - 1) % stride) \div b, (p - 1) \div stride>>
        before(p, q) == \/ key(p)[1] < key(q)[1]
                        \/ key(p)[1] = key(q)[1] /\ key(p)[2] < key(q)[2]
                        \/ key(p) = key(q) /\ p < q
        order == SortSeq([p \in DOMAIN s |-> p], before)
    IN  [k \in DOMAIN s |-> s[order[k]]]
\* The letter half the alphabet away.
OtherLetter(c) == LET letters == IF c \in 65..90 THEN 65..90 ELSE 97..122
                  IN  IF c \in letters THEN CHOOSE e \in letters : e - c \in {13, -13} ELSE c
Expected == CASE run.prog \in {"reverse_byte_cat", "reverse_block_cat"} -> Reverse(run.input)
              [] run.prog = "rot13" -> [k \in DOMAIN run.input |-> OtherLetter(run.input[k])]
              [] run.prog = "stride_cat" -> Strided(run.input, run.block, run.stride)
              [] OTHER -> run.input

\* stride_cat is meant for blocks that are not larger than the stride, but refuses none: with
\* a larger one its columns overlap or stride - pos wraps around, and it may exit with 0 after
\* writing something of another length than its input.
Overlapping == run.prog = "stride_cat" /\ run.block \notin 1..run.stride

\* Whatever fails and whenever the program is stopped, the output holds the first bytes of
\* the right answer and nothing else, and the input file is as it was; rot13 has changed a
\* first part of its file.  The programs that write blocks do not look for a short count:
\* they leave a gap when a write is cut short on a disk with room left, but not when the
\* disk is full, as the next write then fails; reverse_block_cat leaves one after a read
\* that fails part of the way.  block_cat and random_block_cat go on after
\* a failed write, but then their exit status says so; stride_cat does not look.
OutputIsPrefix ==
    /\ run.prog = "rot13" =>
          \E k \in 0..filesize :
             Contents("in") = SubSeq(Expected, 1, k) \o SubSeq(run.input, k + 1, filesize)
    /\ run.prog # "rot13" => disk["in"] = run.input
    /\ \/ run.prog = "rot13"
       \/ run.prog \in {"block_cat", "random_block_cat"} /\ status # 0
       \/ run.prog = "stride_cat" /\ hurt
       \/ Overlapping \/ cut
       \/ IsPrefix(Contents("out"), Expected)

\* A program that returns 0 has done its work, if no call failed; the programs that move
\* one byte at a time, linked with an unbuffered implementation, even if some did.
ByteWise == {"byte_cat", "reverse_byte_cat", "rot13"}
ExitStatusTrue ==
    (/\ pc = "done" /\ status = 0
     /\ ~hurt \/ (run.prog \in ByteWise /\ run.impl # "stdio")
     /\ run.block > 0 /\ ~Overlapping)
    => disk[IF run.prog = "rot13" THEN "in" ELSE "out"] = Expected

\* The C standard leaves a write after a read undefined unless a seek or a flush comes
\* between; rot13's second io300_seek is there for that.
NoUndefinedSwitch == \A h \in Names : file[h] = NoFile \/ ~file[h].misused

\* Every program ends; stride_cat's columns come to an end.
Terminates == <>(pc = "done")
=============================================================================
