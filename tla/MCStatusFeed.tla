---------------------------- MODULE MCStatusFeed ----------------------------
(* Instances of StatusFeed for TLC. *)
EXTENDS StatusFeed, TLC

\* Writers are interchangeable, and so are streams.
Symmetry == Permutations(Writers) \cup Permutations(Streams)
=============================================================================
