---------------------------- MODULE AnswerPromise ----------------------------
(***************************************************************************)
(* What a query promises whoever asks: it ends with an answer only after   *)
(* it gathered evidence and kept sentences, and what the answer cites is   *)
(* of that evidence.  It may abstain before it kept a sentence that covers *)
(* the question, or end in a failure, with nothing cited.                  *)
(***************************************************************************)
CONSTANT Chunks

VARIABLES phase,     \* "asked", "gathered", "answered", "abstained" or "failed"
          evidence,  \* the chunks the model is shown
          cited      \* the chunks that the answer cites

promiseVars == <<phase, evidence, cited>>

Init == phase = "asked" /\ evidence = {} /\ cited = {}

Gather(S) ==
  /\ phase = "asked"
  /\ S # {}
  /\ phase' = "gathered" /\ evidence' = S
  /\ UNCHANGED cited

Answer(C) ==
  /\ phase = "gathered"
  /\ C # {} /\ C \subseteq evidence
  /\ phase' = "answered" /\ cited' = C
  /\ UNCHANGED evidence

GiveUp ==
  /\ phase \in {"asked", "gathered"}
  /\ phase' \in {"abstained", "failed"}
  /\ UNCHANGED <<evidence, cited>>

Next == GiveUp \/ \E S \in SUBSET Chunks : Gather(S) \/ Answer(S)

Spec == Init /\ [][Next]_promiseVars
=============================================================================
