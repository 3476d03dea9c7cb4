---------------------------- MODULE MCCookSession ----------------------------
(* Instances of CookSession for TLC. *)
EXTENDS CookSession


\* Handlers are interchangeable, and so are the goroutines that deliver
\* readings.
Symmetry == Permutations(Handlers) \cup Permutations(Readers)
=============================================================================
