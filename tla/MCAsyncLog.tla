----------------------------- MODULE MCAsyncLog -----------------------------
(* Small instances of AsyncLogRuntime for TLC. *)
EXTENDS AsyncLogInvariant, TLC

\* Control threads are interchangeable, and so are producers.
Symmetry == Permutations(Controllers) \cup Permutations(Producers)
=============================================================================
