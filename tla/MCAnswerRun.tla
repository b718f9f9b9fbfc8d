----------------------------- MODULE MCAnswerRun -----------------------------
EXTENDS Evaluation, TLC

CONSTANTS c1, c2, c3, c4, r1, r2, r3, a, aa, b, the, while

Record == c1 :> r1 @@ c2 :> r1 @@ c3 :> r1 @@ c4 :> r2

Status == c1 :> "accepted" @@ c2 :> "accepted" @@ c3 :> "accepted" @@ c4 :> None

Tags == c1 :> {"t"} @@ c2 :> {"t"} @@ c3 :> {"t"} @@ c4 :> {}

Path == c1 :> [field |-> "chosen", index |-> None] @@ c2 :> [field |-> "why", index |-> 0]
        @@ c3 :> [field |-> "why", index |-> 1] @@ c4 :> [field |-> "why", index |-> 0]

Key == c1 :> 1 @@ c2 :> 2 @@ c3 :> 3 @@ c4 :> 4

Text == c1 :> <<the, a>> @@ c2 :> <<b, aa, b>> @@ c3 :> <<a>> @@ c4 :> <<the, b>>

Source == c1 :> <<"s1">> @@ c2 :> <<"s1", "s2">> @@ c3 :> <<"s2">> @@ c4 :> <<"s3">>

Successor == r1 :> {} @@ r2 :> {r3}

NoFilter == [record_id |-> {}, status |-> {}, tag |-> {}, value_path |-> {}]

SomeFilters ==
  {NoFilter, [NoFilter EXCEPT !.record_id = {r1}],
   [NoFilter EXCEPT !.status = {"accepted"}, !.tag = {"u"}],
   [NoFilter EXCEPT !.value_path = {[field |-> "why", index |-> Star]}]}

\* Two texts that stand in no chunk and one that does.
Loose == <<a, the, b, while>>

Other == <<aa, b, while>>

Exact == <<aa, b>>

S(text, cites) == [text |-> text, cites |-> cites]

SomeDrafts ==
  {<<>>, <<S(Loose, <<c1>>)>>, <<S(Loose, <<c2, c4>>)>>,
   <<S(Exact, <<c2>>), S(Loose, <<c2>>)>>, <<S(Loose, <<c1>>), S(Other, <<c4, c1>>)>>, <<S(Loose, <<c4, c2>>), S(Exact, <<c2>>)>>,
   <<S(Exact, <<c3, c3>>)>>}

SomeDivisions ==
  {<<>>, <<<<a>>, <<the, b>>>>, <<<<aa, b>>, <<the, the>>>>, <<<<a>>>>, <<<<b, b>>, <<a>>>>,
   <<<<a>>, <<a>>>>, <<<<a>>, <<b>>, <<the>>>>}

R(f, by) == [facet |-> f, covered |-> by # <<>>, by |-> by, reason |-> "model"]

\* Too few rows and rows out of order, sentences out of order, and facets that
\* are covered by nothing.
SomeCoverages ==
  {<<R(1, by)>> : by \in {<<>>, <<1>>, <<2>>, <<1, 2>>, <<2, 1>>}}
    \union {<<R(1, by), R(2, with)>> : by \in {<<1>>, <<2>>}, with \in {<<>>, <<1>>, <<1, 2>>}}
    \union {<<>>, <<R(2, <<1>>), R(1, <<1>>)>>, <<[R(1, <<>>) EXCEPT !.covered = TRUE]>>,
            <<[R(1, <<>>) EXCEPT !.reason = "none emitted"]>>}

O(state, cause) ==
  [state |-> state, cause |-> cause, required |-> {}, proposed |-> FALSE, prefixes |-> {},
   covering |-> FALSE]

Field(name) == [field |-> name, index |-> None]

SomeOracles ==
  {O("abstained", cause) : cause \in {None, "uncovered_facet", "no_emitted_sentences"}}
    \union {[O("answered", None) EXCEPT !.required = rs, !.prefixes = {Field("why")},
                                      !.covering = scope]
              : rs \in {{}, {r1}, {r2, r3}}, scope \in BOOLEAN}
    \union {[O("answered", None) EXCEPT !.proposed = TRUE, !.prefixes = {Field("chosen")}]}

TheProposed == [ids |-> {r1}, unparsed |-> 0]
=============================================================================
