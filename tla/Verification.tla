----------------------------- MODULE Verification -----------------------------
(***************************************************************************)
(* The deterministic tests of answer verification (verification.py).  A    *)
(* text is the sequence of its normalised tokens; two tokens match when    *)
(* they are equal or are content words that share a stem.  A decomposition *)
(* is the sequence of the claims the model split a sentence into.          *)
(***************************************************************************)
EXTENDS Naturals, Sequences, FiniteSets, SequencesExt

CONSTANTS FunctionWords,  \* words that match by equality only
          Connectives,    \* content words that a division may leave out
          SameStem,       \* the pairs {a, b} of words that share a stem
          MaxSubClaims,
          MaxAddedFunctionWords

ASSUME VerificationAssumption ==
  /\ FunctionWords \intersect Connectives = {}
  /\ MaxSubClaims \in Nat /\ MaxAddedFunctionWords \in Nat

CompletenessExempt == FunctionWords \union Connectives

\* deterministic_containment in one chunk's text, word by word: the code looks
\* for a substring of characters, which may also begin or end inside a word.
ContainedIn(text, chunkText) ==
  /\ text # <<>>
  /\ \E i \in 1..Len(chunkText) :
       /\ i + Len(text) - 1 <= Len(chunkText)
       /\ SubSeq(chunkText, i, i + Len(text) - 1) = text

TokensMatch(a, b) ==
  \/ a = b
  \/ {a, b} \intersect FunctionWords = {} /\ {a, b} \in SameStem

\* The parent tokens that a token of a claim may still take.
FreeMatches(token, parent, used) ==
  {k \in DOMAIN parent \ used : TokensMatch(token, parent[k])}

\* Greedy and in order: each token takes the first unused parent token that
\* it matches, a function word without one is counted.
ScanToken(scan, token, parent) ==
  LET free == FreeMatches(token, parent, scan.used)
  IN IF free # {}
       THEN [scan EXCEPT !.used = @ \union {CHOOSE k \in free : \A l \in free : k <= l}]
       ELSE [scan EXCEPT !.added = @ + 1,
                         !.free = @ /\ token \in FunctionWords
                                    /\ scan.added < MaxAddedFunctionWords]

\* Mutant: a parent token may be taken again.
AdditiveFreeReusing(claim, parent) ==
  FoldLeft(LAMBDA scan, token :
             [ScanToken(scan, token, parent) EXCEPT !.used = {}],
           [used |-> {}, added |-> 0, free |-> TRUE], claim).free

\* sub_claim_is_additive_free: the claim says nothing its sentence does not.
AdditiveFree(claim, parent) ==
  FoldLeft(LAMBDA scan, token : ScanToken(scan, token, parent),
           [used |-> {}, added |-> 0, free |-> TRUE], claim).free

\* response_is_complete: no content word of the sentence is left out.
Complete(response, parent) ==
  \A token \in Range(parent) \ CompletenessExempt :
    \E claim \in Range(response) : \E t \in Range(claim) : TokensMatch(token, t)

\* classify_decomposition_detail, the first test that fails.
Disposition(response, parent) ==
  IF Len(response) > MaxSubClaims THEN "over_cap"
  ELSE IF Cardinality(Range(response)) < Len(response) THEN "duplicate"
  ELSE IF \E claim \in Range(response) : ~AdditiveFree(claim, parent) THEN "not_additive"
  ELSE IF ~Complete(response, parent) THEN "incomplete"
  ELSE "valid"

RetryableDispositions == {"not_additive", "incomplete"}

-----------------------------------------------------------------------------
(* What a division of a sentence is, without an order of scanning. *)

\* The claim's words, but for a few function words, are distinct occurrences
\* of words of the sentence.
Borrows(claim, parent) ==
  \E from \in [DOMAIN claim -> DOMAIN parent \union {0}] :
    LET new == {i \in DOMAIN claim : from[i] = 0}
    IN /\ \A i \in DOMAIN claim \ new : TokensMatch(claim[i], parent[from[i]])
       /\ \A i, j \in DOMAIN claim \ new : from[i] = from[j] => i = j
       /\ \A i \in new : claim[i] \in FunctionWords
       /\ Cardinality(new) <= MaxAddedFunctionWords

Divides(response, parent) ==
  /\ \A i \in DOMAIN response : Borrows(response[i], parent)
  /\ \A i, j \in DOMAIN response : response[i] = response[j] => i = j
  /\ \A token \in Range(parent) \ CompletenessExempt :
       \E i \in DOMAIN response : \E t \in Range(response[i]) : TokensMatch(token, t)
=============================================================================
