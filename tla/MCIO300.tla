------------------------------ MODULE MCIO300 ------------------------------
(* Letters at the ends and in the middle of both alphabets, bytes beside   *)
(* them, and 255, which must not be taken for an error.                    *)
EXTENDS IO300Programs

MCSample == <<255, 65, 78, 122, 109, 64, 97>>
=============================================================================
