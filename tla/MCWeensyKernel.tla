--------------------------- MODULE MCWeensyKernel ---------------------------
(***************************************************************************)
(* A small machine for TLC: page 0 is reserved, pages 1..3 are free, the   *)
(* kernel image is page 4, its stack page 6, I/O memory page 7, and the    *)
(* processes' regions start at page 8.  The configurations choose their    *)
(* number and size, the programs, the keys typed and who may fault.        *)
(***************************************************************************)
EXTENDS WeensyKernel

=============================================================================
