----------------------------- MODULE MCQueryRun -----------------------------
(* An instance of QueryRun: two records, of which one supersedes the other   *)
(* in its second version only, and manifests that update and remove it.      *)
EXTENDS QueryRun, TLC

CONSTANTS r1, r2, v1, v2

\* r2 supersedes r1 in its second version only.
LateSupersession ==
  r1 :> (v1 :> None @@ v2 :> None) @@ r2 :> (v1 :> None @@ v2 :> r1)

\* Both records, the second one updated, and the second one removed: the steps
\* between them add, update, revert, remove and list again.
ThreeManifests ==
  {r1 :> v1 @@ r2 :> v1, r1 :> v1 @@ r2 :> v2, r1 :> v1 @@ r2 :> None}
=============================================================================
