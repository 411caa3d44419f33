--------------------------- MODULE MCTaskBreaker ---------------------------
(***************************************************************************)
(* Small instances of the task breaker for TLC.  Two failures in a row     *)
(* stand for three.                                                        *)
(***************************************************************************)
EXTENDS TaskBreaker, TLC

CONSTANTS r1, r2, t1, t2

MCSymmetry == Permutations({r1, r2}) \cup Permutations({t1, t2})
=============================================================================
