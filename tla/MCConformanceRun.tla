-------------------------- MODULE MCConformanceRun --------------------------
(***************************************************************************)
(* An instance of ConformanceRun: two sources over a file each; a case     *)
(* requires only the first file, so that a corrupted copy affects one      *)
(* source and must leave the other as it was.                              *)
(***************************************************************************)
EXTENDS ConformanceRun, TLC

CONSTANTS s1, s2, f1, f2

OneFileEach == s1 :> {f1} @@ s2 :> {f2}

FirstFileRequired == s1 :> {f1} @@ s2 :> {}
=============================================================================
