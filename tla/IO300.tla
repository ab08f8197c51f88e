------------------------------- MODULE IO300 --------------------------------
(***************************************************************************)
(* The three implementations of fileio/io300.h: naive.c, student.c (as it  *)
(* is handed out) and stdio.c.                                             *)
(*                                                                         *)
(* An operation maps an open file f and the bytes d of the file on disk to *)
(* the set of its outcomes [f, d, ret, data, failed].  The system calls    *)
(* and stdio's FILE are external.  `off' is the descriptor's offset; a     *)
(* FILE also has the bytes it has read ahead, the bytes it has not yet     *)
(* written, the direction of its last transfer and its error indicator.    *)
(***************************************************************************)
EXTENDS Integers, Sequences

CONSTANTS
    BUFSIZ,    \* size of stdio's buffer
    MayFail    \* calls may fail

ASSUME BufferAssumption == BUFSIZ \in Nat \ {0} /\ MayFail \in BOOLEAN

Missing == <<-1>>   \* no file holds this
NoFile == [closed |-> TRUE]
Opened == [off |-> 0, ahead |-> <<>>, pending |-> <<>>, dir |-> "none", err |-> FALSE,
           misused |-> FALSE]

Least(a, b) == IF a <= b THEN a ELSE b
Between(d, a, b) == SubSeq(d, a + 1, b)
Overlaid(d, off, s) ==
    [k \in 1..(IF Len(d) >= off + Len(s) \/ s = <<>> THEN Len(d) ELSE off + Len(s)) |->
        IF k \in (off + 1)..(off + Len(s)) THEN s[k - off]
        ELSE IF k <= Len(d) THEN d[k] ELSE 0]

Done(f, d, ret, data) == [f |-> f, d |-> d, ret |-> ret, data |-> data, failed |-> FALSE]
Failed(f, d, ret) == [f |-> f, d |-> d, ret |-> ret, data |-> <<>>, failed |-> TRUE]
\* A call that fails and does nothing.
Fault(f, d) == IF MayFail THEN {Failed(f, d, -1)} ELSE {}

-----------------------------------------------------------------------------
(* System calls on a descriptor.  limit is how long the file can get; a    *)
(* write may also be cut short before that.                                *)

sys_read(f, d, n) ==
    LET end == IF f.off >= Len(d) THEN f.off ELSE Least(f.off + n, Len(d))
    IN  {Done([f EXCEPT !.off = end], d, end - f.off, Between(d, f.off, end))}
            \cup Fault(f, d)

sys_write(f, d, s, limit) ==
    LET room == IF f.off >= limit THEN 0 ELSE Least(Len(s), limit - f.off)
        wrote(k) == [f |-> [f EXCEPT !.off = @ + k], d |-> Overlaid(d, f.off, SubSeq(s, 1, k)),
                     ret |-> IF k = 0 /\ s # <<>> THEN -1 ELSE k,
                     data |-> s, failed |-> k < Len(s)]
    IN  {wrote(k) : k \in {room} \cup (IF MayFail THEN 1..(room - 1) ELSE {})}
            \cup {[o EXCEPT !.data = s] : o \in Fault(f, d)}

\* No file has an offset below 0.
sys_lseek(f, d, to) ==
    IF to < 0 THEN {Failed(f, d, -1)}
    ELSE {Done([f EXCEPT !.off = to], d, to, <<>>)} \cup Fault(f, d)

-----------------------------------------------------------------------------
(* stdio's FILE.  Reading refills the buffer by BUFSIZ bytes at a time,    *)
(* writing empties it when it is full.  Writing after reading, or reading  *)
(* after writing, without a seek or a flush in between is undefined.  A    *)
(* write(2) that fails sets the error indicator, and the rest of what was  *)
(* to be written is dropped, as the GNU C library does.                    *)

Drained(f, d) == [f EXCEPT !.off = @ + Len(f.pending), !.pending = <<>>]
DrainedTo(f, d) == Overlaid(d, f.off, f.pending)

\* Only the first j bytes of s, which was to go to the offset, reached the file.
Dropped(f, j) == [f EXCEPT !.off = @ + j, !.pending = <<>>, !.err = TRUE]
DroppedTo(f, d, s, j) == Overlaid(d, f.off, SubSeq(s, 1, j))
FlushFaults(f, d) ==
    {Failed(Dropped(f, j), DroppedTo(f, d, f.pending, j), -1) :
        j \in IF MayFail THEN 0..(Len(f.pending) - 1) ELSE {}}

\* When a refill fails, the m bytes read until then are returned.
fread(f, d, n) ==
    LET at == f.off - Len(f.ahead)
        end == IF at >= Len(d) THEN at ELSE Least(at + n, Len(d))
        refills == IF end <= f.off THEN 0 ELSE (end - f.off + BUFSIZ - 1) \div BUFSIZ
        off == IF refills = 0 THEN f.off ELSE Least(f.off + refills * BUFSIZ, Len(d))
        g == [f EXCEPT !.dir = "read", !.misused = @ \/ f.dir = "write"]
    IN  {Done([g EXCEPT !.off = off, !.ahead = Between(d, end, off)],
              d, end - at, Between(d, at, end))}
        \cup {[f |-> [g EXCEPT !.off = at + m, !.ahead = <<>>, !.err = TRUE], d |-> d,
               ret |-> m, data |-> Between(d, at, at + m), failed |-> TRUE] :
                  m \in {m \in IF MayFail THEN Len(f.ahead)..(end - at) ELSE {} : m < n}}

\* When a write fails, the count r is short; it says nothing of what reached the file.
fwrite(f, d, s) ==
    LET all == f.pending \o s
        k == (Len(all) \div BUFSIZ) * BUFSIZ
        g == [f EXCEPT !.dir = "write", !.misused = @ \/ f.dir = "read"]
    IN  {Done([g EXCEPT !.off = @ + k, !.pending = SubSeq(all, k + 1, Len(all))],
              Overlaid(d, f.off, SubSeq(all, 1, k)), Len(s), s)}
        \cup {[f |-> Dropped(g, j), d |-> DroppedTo(f, d, all, j), ret |-> r,
               data |-> s, failed |-> TRUE] :
                  j \in IF MayFail THEN 0..(k - 1) ELSE {}, r \in 0..(Len(s) - 1)}

fseek(f, d, to) ==
    IF to < 0 THEN {Failed(f, d, -1)}
    ELSE {Done([Drained(f, d) EXCEPT !.off = to, !.ahead = <<>>, !.dir = "none"],
               DrainedTo(f, d), 0, <<>>)}
             \cup Fault(Drained(f, d), DrainedTo(f, d)) \cup FlushFaults(f, d)

fflush(f, d) == {Done([Drained(f, d) EXCEPT !.dir = "none"], DrainedTo(f, d), 0, <<>>)}
                    \cup FlushFaults(f, d)
\* Called when nothing is left to write; only close(2) can fail.
fclose(f, d) == {Done(NoFile, DrainedTo(f, d), 0, <<>>)} \cup Fault(NoFile, DrainedTo(f, d))

-----------------------------------------------------------------------------
(* naive.c *)

\* O_CREAT: a missing file is made.
naive_open(d) == {Done(Opened, IF d = Missing THEN <<>> ELSE d, 0, <<>>)}
                     \cup (IF MayFail THEN {Failed(NoFile, d, -1)} ELSE {})
naive_flush(f, d) == {Done(f, d, 0, <<>>)}
\* The descriptor itself stays open.
naive_close(f, d) == {Done(NoFile, o.d, 0, <<>>) : o \in naive_flush(f, d)}
naive_filesize(d) == Len(d)
naive_seek(f, d, to) == sys_lseek(f, d, to)
naive_readc(f, d) == {[o EXCEPT !.ret = IF @ = 1 THEN o.data[1] ELSE -1] : o \in sys_read(f, d, 1)}
naive_writec_blind(f, d, ch, limit) ==
    {[o EXCEPT !.ret = ch] : o \in sys_write(f, d, <<ch>>, limit)}
naive_writec(f, d, ch, limit) ==
    {[o EXCEPT !.ret = IF @ = 1 THEN ch ELSE -1] : o \in sys_write(f, d, <<ch>>, limit)}
naive_read(f, d, n) == sys_read(f, d, n)
naive_write(f, d, s, limit) == sys_write(f, d, s, limit)

-----------------------------------------------------------------------------
(* student.c *)

student_open(d) == {Done(Opened, IF d = Missing THEN <<>> ELSE d, 0, <<>>)}
                       \cup (IF MayFail THEN {Failed(NoFile, d, -1)} ELSE {})
student_flush(f, d) == {Done(f, d, 0, <<>>)}
student_close(f, d) == {Done(NoFile, d, 0, <<>>)}
student_filesize(d) == Len(d)
student_seek(f, d, to) == sys_lseek(f, d, to)
student_readc(f, d) ==
    {[o EXCEPT !.ret = IF @ = 1 THEN o.data[1] ELSE -1] : o \in sys_read(f, d, 1)}
student_writec(f, d, ch, limit) ==
    {[o EXCEPT !.ret = IF @ = 1 THEN ch ELSE -1] : o \in sys_write(f, d, <<ch>>, limit)}
student_read(f, d, n) == sys_read(f, d, n)
student_write(f, d, s, limit) == sys_write(f, d, s, limit)

-----------------------------------------------------------------------------
(* stdio.c *)

\* fopen("r+") does not make a missing file.
stdio_open(d) == (IF d = Missing THEN {} ELSE {Done(Opened, d, 0, <<>>)})
                     \cup (IF d = Missing \/ MayFail THEN {Failed(NoFile, d, -1)} ELSE {})
stdio_flush(f, d) == fflush(f, d)
\* What io300_flush returns is not looked at: a close that lost bytes returns 0.
stdio_close(f, d) ==
    UNION {{[c EXCEPT !.failed = @ \/ o.failed] : c \in fclose(o.f, o.d)} :
              o \in stdio_flush(f, d)}
stdio_filesize(d) == Len(d)
stdio_seek_lazy(f, d, to) ==
    IF to = f.off - Len(f.ahead) + Len(f.pending) THEN {Done(f, d, 0, <<>>)} ELSE fseek(f, d, to)
stdio_seek(f, d, to) == fseek(f, d, to)
stdio_readc(f, d) == {[o EXCEPT !.ret = IF @ = 1 THEN o.data[1] ELSE -1] : o \in fread(f, d, 1)}
\* Mutant: fputc's EOF is not passed on.
stdio_writec_blind(f, d, ch) == {[o EXCEPT !.ret = ch] : o \in fwrite(f, d, <<ch>>)}
stdio_writec(f, d, ch) == {[o EXCEPT !.ret = IF @ = 1 THEN ch ELSE -1] : o \in fwrite(f, d, <<ch>>)}
\* A count of 0 is an error if the FILE has its error indicator set, now or since before.
stdio_read(f, d, n) ==
    {IF o.data = <<>> /\ n # 0 /\ o.f.err THEN [o EXCEPT !.ret = -1, !.failed = TRUE] ELSE o :
        o \in fread(f, d, n)}
stdio_write(f, d, s) ==
    {IF o.ret = 0 /\ s # <<>> /\ o.f.err THEN [o EXCEPT !.ret = -1] ELSE o :
        o \in fwrite(f, d, s)}
=============================================================================
