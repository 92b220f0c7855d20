----------------------------- MODULE MCRunsvdir -----------------------------
(***************************************************************************)
(* Runsvdir for TLC: directories and process ids are only compared, so     *)
(* states that differ by a renaming of either behave alike.                *)
(***************************************************************************)
EXTENDS Runsvdir, TLC

Symmetry == Permutations(Dirs) \cup Permutations(Pids)
=============================================================================
