----------------------------- MODULE ProviderCall -----------------------------
(***************************************************************************)
(* One operation at the provider, as a command waits for it:               *)
(* run_with_retries (openai_common.py) sends a request again after a       *)
(* retryable failure, up to MaxAttempts times; the generation stages       *)
(* (openai_generation.py) send a repair request after a response that does *)
(* not validate, MaxTries in all, each with its own attempts.  The actions *)
(* here move the call; the command that waits adds what it does with the   *)
(* outcome.  A request is one call of the provider's client, whose own     *)
(* retries underneath are left on (_client) and not counted here.          *)
(***************************************************************************)
EXTENDS Naturals

CONSTANTS MaxAttempts,  \* requests of one try
          MaxTries      \* tries of a structured operation

ASSUME CallAssumption == MaxAttempts \in Nat \ {0} /\ MaxTries \in Nat \ {0}

VARIABLES call,  \* the operation under way, its try and its attempt
          sent   \* history: the requests sent for it

callVars == <<call, sent>>

Structured == {"facets", "answer", "decompose", "entailment", "coverage"}

Operations == Structured \union {"embedding"}

NoCall == [op |-> "none", try |-> 0, attempt |-> 0]

Calling == call.op # "none"

CallTypeOK ==
  /\ call \in [op : Operations, try : 1..MaxTries, attempt : 1..MaxAttempts] \union {NoCall}
  /\ sent \in Nat

CallInit == call = NoCall /\ sent = 0

Dial(op) ==
  /\ call' = [op |-> op, try |-> 1, attempt |-> 1]
  /\ sent' = 1

HangUp == call' = NoCall /\ sent' = 0

\* Mutant: the attempts are not counted.
RetryWithoutEnd ==
  /\ Calling
  /\ call' = call
  /\ sent' = sent + 1

\* A connection error, a timeout, 408, 409, 429 or 5xx: the request is sent
\* again after a pause.
Retry ==
  /\ Calling
  /\ call.attempt < MaxAttempts
  /\ call' = [call EXCEPT !.attempt = @ + 1]
  /\ sent' = sent + 1

\* The same on the last attempt.
Exhausted == Calling /\ call.attempt = MaxAttempts /\ HangUp

\* Any other error, at any attempt.
FinalFailure == Calling /\ HangUp

\* An empty response, or text that is no JSON object: _parse_content raises
\* inside the retried call, so run_with_retries takes it for a final failure.
Malformed == call.op \in Structured /\ HangUp

\* Mutant: the operation starts anew.
RepairAnew == call.op \in Structured /\ Dial(call.op)

\* A JSON object that the stage's validator refuses: one repair request.
Repair ==
  /\ call.op \in Structured
  /\ call.try < MaxTries
  /\ call' = [call EXCEPT !.try = @ + 1, !.attempt = 1]
  /\ sent' = sent + 1

\* The same on the last try.
InvalidTwice == call.op \in Structured /\ call.try = MaxTries /\ HangUp

\* The call raises to the command.
CallFails == Exhausted \/ FinalFailure \/ Malformed \/ InvalidTwice

\* A response that validates, or the vectors, has come.
Replied(op) == call.op = op

-----------------------------------------------------------------------------
(* What correctness means. *)

\* However failures, malformed and invalid responses alternate, one operation
\* sends a bounded number of requests.
RequestsBounded ==
  sent <= IF call.op = "embedding" THEN MaxAttempts ELSE MaxTries * MaxAttempts
=============================================================================
