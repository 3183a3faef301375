-------------------------------- MODULE MCKv ---------------------------------
(***************************************************************************)
(* Two tasks, two keys with two values each and blocks for two items: the  *)
(* third write needs a collection, a collected item can come back to the   *)
(* place it was updated from, and one task can wait while the other        *)
(* starts a collection.  Keys, values and tasks are interchangeable.       *)
(***************************************************************************)
EXTENDS Kv, TLC

Symmetry == Permutations(Keys) \cup Permutations(Vals) \cup Permutations(Tasks)
=============================================================================
