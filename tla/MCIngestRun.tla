---------------------------- MODULE MCIngestRun ----------------------------
(* Instances of IngestRun: two records with two versions each. *)
EXTENDS IngestRun, TLC

CONSTANTS r1, r2, v1, v2

\* r2's second version supersedes r1, and r1's second version supersedes r2:
\* the two second versions together are a cycle.
MutualSupersession ==
  r1 :> (v1 :> None @@ v2 :> r2) @@ r2 :> (v1 :> None @@ v2 :> r1)

\* An addition and an update, a removal and a revert, and the cycle.
ThreeManifests ==
  {r1 :> v1 @@ r2 :> None, r1 :> v2 @@ r2 :> v1, r1 :> v2 @@ r2 :> v2}

TwoManifests == {r1 :> v1 @@ r2 :> v1, r1 :> v2 @@ r2 :> None}

Symmetry == Permutations(GenIds)
=============================================================================
