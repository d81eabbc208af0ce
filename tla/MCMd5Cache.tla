----------------------------- MODULE MCMd5Cache -----------------------------
(* As in the code, the list may hold more entries than the parser reads     *)
(* lines: 3 entries, 3 lines of which one is the header.                    *)
EXTENDS Md5Cache, TLC

Symmetry == Permutations(Keys)
=============================================================================
