--------------------------- MODULE MCWorkingCopy ---------------------------
(* The working copy on a small instance.                                   *)
EXTENDS WorkingCopy, TLC

CONSTANTS s1, s2

Sessions == {s1, s2}

(* Sound for the safety runs: the sessions are interchangeable.            *)
Symmetry == Permutations(Sessions)
=============================================================================
