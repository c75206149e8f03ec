----------------------------- MODULE MCLaunchTree -----------------------------
EXTENDS LaunchTree, TLC

(* Neither script looks at more of a pid or a map than whether two agree.  *)
Symmetry == Permutations(Pids) \cup Permutations(Maps)
===============================================================================
