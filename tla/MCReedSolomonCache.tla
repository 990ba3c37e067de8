------------------------- MODULE MCReedSolomonCache -------------------------
(* Small instances of the codec cache for TLC.                             *)
EXTENDS ReedSolomonCache, TLC

CONSTANTS t1, t2, t3, k1, k2, k3, c1, c2, c3, c4

(* ReedSolomon::new fails for one of the keys: errors are cached as well. *)
MCNew(k) == IF k = k1 THEN <<"Err", k>> ELSE <<"Ok", k>>

Symmetry == Permutations(Thread) \cup Permutations(Cell)
=============================================================================
