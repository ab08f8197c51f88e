------------------------------ MODULE ByteFile ------------------------------
(***************************************************************************)
(* What fileio/io300.h promises of an open file, whatever the              *)
(* implementation does behind it: a sequence of bytes and an offset.       *)
(* `contents' is what the users of the file would read and `stored' what   *)
(* is on disk; `call' is the last completed call with its arguments and    *)
(* its result, and `turn' changes with each, so that no call is a stutter. *)
(*                                                                         *)
(* A call that does not fail does what it says and returns what it did.    *)
(* One that fails returns -1 or a short count, and may lose bytes written  *)
(* before, but only those not yet stored, and the last ones first.         *)
(***************************************************************************)
EXTENDS Integers, Sequences

CONSTANT Handles
VARIABLES contents, stored, pos, call, turn

file == <<contents, stored, pos, call, turn>>

\* d with the bytes s from offset off on; a gap before them reads as zeros.
Written(d, off, s) ==
    [k \in 1..(IF s = <<>> \/ off + Len(s) <= Len(d) THEN Len(d) ELSE off + Len(s)) |->
        IF k \in (off + 1)..(off + Len(s)) THEN s[k - off]
        ELSE IF k \in DOMAIN d THEN d[k] ELSE 0]

\* Some first part of the bytes e, and after it what d has there.
Torn(d, e, r) == \E m \in 0..Len(e) : r = SubSeq(e, 1, m) \o SubSeq(d, m + 1, Len(d))

Init ==
    /\ contents \in [Handles -> Seq(0..255)]
    /\ stored = contents
    /\ pos = [h \in Handles |-> 0]
    /\ call = [op |-> "none"]
    /\ turn = 0

\* A call on h: the others are left alone, and the disk gets nothing but the file's bytes.
Concerns(h) ==
    /\ call'.h = h
    /\ \A g \in Handles \ {h} : /\ contents'[g] = contents[g] /\ pos'[g] = pos[g]
                                /\ stored'[g] = stored[g]
    /\ Torn(stored[h], contents'[h], stored'[h])

\* "This causes subsequent reads and writes to take place from the new offset."  io300.h also
\* promises "the resulting offset location"; stdio.c returns what fseek does, which is 0.
Seek(h) ==
    /\ call'.op = "seek" /\ Concerns(h)
    /\ \/ /\ call'.ret # -1 /\ call'.ret \in {call'.to, 0}
          /\ pos'[h] = call'.to /\ contents'[h] = contents[h]
       \/ call'.ret = -1 /\ call'.failed /\ Torn(stored[h], contents[h], contents'[h])

\* The bytes from the offset on, at most as many as asked for, and the offset moves
\* past them.
Gets(h) ==
    /\ Concerns(h)
    /\ Len(call'.data) <= call'.n
    /\ call'.data = SubSeq(contents[h], pos[h] + 1, pos[h] + Len(call'.data))
    /\ pos'[h] = pos[h] + Len(call'.data)
    /\ contents'[h] = contents[h]

\* "return the number of bytes that were placed into the provided buffer": none, unless
\* none were asked for, only at the end of the file.
Read(h) ==
    /\ call'.op = "read" /\ Gets(h)
    /\ \/ /\ call'.ret = Len(call'.data)
          /\ call'.ret = 0 => call'.n = 0 \/ pos[h] >= Len(contents[h])
       \/ call'.ret = -1 /\ call'.failed /\ call'.data = <<>>

\* "-1 on failure or if the end of the file has been reached".
Readc(h) ==
    /\ call'.op = "readc" /\ Gets(h)
    /\ \/ call'.data # <<>> /\ call'.ret = call'.data[1]
       \/ /\ call'.data = <<>> /\ call'.ret = -1
          /\ call'.failed \/ pos[h] >= Len(contents[h])

\* The data replaces what was at the offset, and the offset moves past it.
Puts(h) ==
    /\ contents'[h] = Written(contents[h], pos[h], call'.data)
    /\ pos'[h] = pos[h] + Len(call'.data)

\* Some first part of the file as it was meant to be, over what is stored.
PutsPart(h) ==
    /\ call'.failed
    /\ Torn(stored[h], Written(contents[h], pos[h], call'.data), contents'[h])
    /\ pos'[h] \in 0..(pos[h] + Len(call'.data))

\* "return the number of bytes that were written to the file".
Write(h) ==
    /\ call'.op = "write" /\ Concerns(h)
    /\ \/ call'.ret = Len(call'.data) /\ Puts(h)
       \/ call'.ret < Len(call'.data) /\ PutsPart(h)

\* "Return the byte that was written upon success and -1 on failure."
Writec(h) ==
    /\ call'.op = "writec" /\ Concerns(h)
    /\ \/ call'.ret = call'.data[1] /\ Puts(h)
       \/ call'.ret = -1 /\ PutsPart(h)

\* "when a file is closed, you need to write any cached data that resides in RAM to disk"
Close ==
    /\ call'.op = "close"
    /\ pos' = [h \in Handles |-> 0]
    /\ stored' = contents'
    /\ \A h \in Handles : IF call'.failed THEN Torn(stored[h], contents[h], contents'[h])
                         ELSE contents'[h] = contents[h]

Next == /\ turn' = 1 - turn
        /\ \/ \E h \in Handles : Seek(h) \/ Read(h) \/ Readc(h) \/ Write(h) \/ Writec(h)
           \/ Close

Spec == Init /\ [][Next]_file
=============================================================================
