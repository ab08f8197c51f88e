------------------------------ MODULE MCVmIter ------------------------------
(* Instance of VmIter for TLC: three levels of two entries, eight pages of  *)
(* canonical addresses and eight others.                                    *)
EXTENDS VmIter

\* Unmapping, a read-only kernel page, and a page for the user.
TestPerms == {{}, {"P"}, {"P", "W", "U"}}
=============================================================================
