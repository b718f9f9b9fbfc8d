------------------------------ MODULE MCEmbedRun ------------------------------
(***************************************************************************)
(* TLC's instance of EmbedRun: the text 1..TextLength with the tokens in   *)
(* MCStops as terminators, cut into values and the values into paragraphs  *)
(* in every way.                                                           *)
(***************************************************************************)
EXTENDS EmbedRun

CONSTANT TextLength

MCStops == {2, 6, 7}

Whole == [k \in 1..TextLength |-> k]

\* A text cut after the tokens in ends.
Cut(text, ends) ==
  FoldLeft(LAMBDA parts, t :
             IF parts = <<>> \/ Last(Last(parts)) \in ends THEN Append(parts, <<t>>)
             ELSE Append(Front(parts), Append(Last(parts), t)),
           <<>>, text)

Sourced ==
  {[values |-> [v \in DOMAIN Cut(Whole, ends) |->
                  [paragraphs |-> Cut(Cut(Whole, ends)[v], inner), sourced |-> TRUE]],
    headSourced |-> TRUE] :
     ends \in SUBSET (1..(TextLength - 1)), inner \in SUBSET (1..(TextLength - 1))}

\* Records of one word or none: its source, or that of the title, is missing.
Short(paragraphs, sourced, headSourced) ==
  [values |-> <<[paragraphs |-> paragraphs, sourced |-> sourced]>>,
   headSourced |-> headSourced]

MCRecords ==
  Sourced \union {Short(<<<<1>>>>, TRUE, FALSE), Short(<<<<1>>>>, FALSE, TRUE),
                  Short(<<>>, FALSE, TRUE)}
=============================================================================
