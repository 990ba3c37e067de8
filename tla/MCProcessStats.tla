--------------------------- MODULE MCProcessStats ---------------------------
(* Two workers, and sizes on both sides of every bucket's limits. *)
EXTENDS ProcessStats, TLC

MCSizes == {0, 7, 8, 15, 16, 31, 32, 63, 64, 255}
Interchangeable == Permutations(Worker)
=============================================================================
