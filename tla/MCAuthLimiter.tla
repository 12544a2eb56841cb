--------------------------- MODULE MCAuthLimiter ---------------------------
(***************************************************************************)
(* Instances of AuthLimiter for TLC: two addresses and two or three        *)
(* request threads, a window short enough that it ends within MaxClock.    *)
(***************************************************************************)
EXTENDS AuthLimiter, TLC

Symmetry == Permutations(Thread) \cup Permutations(Key)
=============================================================================
