----------------------------- MODULE MCUsermode -----------------------------
(* Eleven of fourteen addresses are mapped, five of them the program's; a  *)
(* length can reach over the top of the address space, and the walk behind *)
(* a single % can leave the window.                                        *)
EXTENDS Usermode

MCKernelNul == {0, 9}
MCArgLengths == {0, 1, 3}
MCStoredLengths == {6}
MCFileSizes == {1, 7}
=============================================================================
