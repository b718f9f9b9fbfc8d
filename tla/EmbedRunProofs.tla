---------------------------- MODULE EmbedRunProofs ----------------------------
(***************************************************************************)
(* For every set of records, every text, target and overlap, every cap and *)
(* every number of attempts: the chunks of a value carry its text, the     *)
(* batches stay within the caps, a written record has the vectors of its   *)
(* chunks in their order and cost the calls that the dry run shows.        *)
(***************************************************************************)
EXTENDS EmbedRun, FoldTheorems

-----------------------------------------------------------------------------
(* The chunks of a value carry its text. *)

Text == Seq(Nat)

Pieces == [done : Seq(Text), open : Text]

\* All the text of some pieces.
TextOf(s) == FlattenSeq(s.done) \o s.open

\* A piece has no place to be split at.
Whole(c) == c # <<>> /\ \A i \in 2..Len(c) : c[i] \notin Stops

LEMMA TextOfType == ASSUME NEW s \in Pieces PROVE TextOf(s) \in Text
<1>1. s.done \in Seq(Text) /\ s.open \in Text
  BY DEF Pieces
<1>2. FlattenSeq(s.done) \in Text
  BY <1>1, FlattenType DEF Text
<1> QED BY <1>1, <1>2, ConcatProperties DEF Text, TextOf

LEMMA NothingType == Nothing \in Pieces /\ TextOf(Nothing) = <<>>
<1>1. Nothing \in Pieces
  BY DEF Nothing, Pieces, Text
<1>2. TextOf(Nothing) = <<>> \o <<>>
  BY FlattenEmpty DEF TextOf, Nothing
<1> QED BY <1>1, <1>2

\* What is closed has the same text.
LEMMA CloseKeepsText ==
  ASSUME NEW s \in Pieces
  PROVE  Close(s) \in Seq(Text) /\ FlattenSeq(Close(s)) = TextOf(s)
<1>1. s.done \in Seq(Text) /\ s.open \in Text /\ FlattenSeq(s.done) \in Text
  BY FlattenType DEF Pieces, Text
<1>2. CASE s.open = <<>>
  <2>1. FlattenSeq(s.done) \o <<>> = FlattenSeq(s.done)
    BY <1>1, ConcatEmptySeq DEF Text
  <2> QED BY <1>1, <1>2, <2>1 DEF Close, TextOf
<1>3. CASE s.open # <<>>
  <2>1. Append(s.done, s.open) \in Seq(Text)
    BY <1>1
  <2>2. FlattenSeq(Append(s.done, s.open)) = FlattenSeq(s.done) \o s.open
    BY <1>1, FlattenAppend DEF Text
  <2> QED BY <1>3, <2>1, <2>2 DEF Close, TextOf
<1> QED BY <1>2, <1>3

\* One token of the splitting into sentences.
Split(s, t) ==
  IF t \in Stops /\ s.open # <<>>
    THEN [done |-> Append(s.done, s.open), open |-> <<t>>]
    ELSE [s EXCEPT !.open = Append(@, t)]

SplitStep(text) == [vk \in Pieces \X (1..Len(text)) |-> Split(vk[1], text[vk[2]])]

AllWhole(s) ==
  /\ \A j \in 1..Len(s.done) : Whole(s.done[j])
  /\ s.open # <<>> => Whole(s.open)

LEMMA SplitType ==
  ASSUME NEW s \in Pieces, NEW t \in Nat
  PROVE  Split(s, t) \in Pieces
<1>1. s.done \in Seq(Text) /\ s.open \in Text
  BY DEF Pieces
<1>2. Append(s.done, s.open) \in Seq(Text) /\ <<t>> \in Text /\ Append(s.open, t) \in Text
  BY <1>1 DEF Text
<1>3. \A d \in Seq(Text), o \in Text : /\ [done |-> d, open |-> o] \in Pieces
                                       /\ [s EXCEPT !.open = o] \in Pieces
  BY DEF Pieces
<1> QED BY <1>1, <1>2, <1>3 DEF Split

LEMMA SplitKeeps ==
  ASSUME NEW s \in Pieces, NEW t \in Nat, AllWhole(s)
  PROVE  TextOf(Split(s, t)) = Append(TextOf(s), t) /\ AllWhole(Split(s, t))
<1> DEFINE d == s.done
           o == s.open
           one == <<t>>
           fd == FlattenSeq(d)
<1>1. d \in Seq(Text) /\ o \in Text /\ one \in Text /\ fd \in Text
  BY FlattenType DEF Pieces, Text
<1>2. /\ \A j \in 1..Len(d) : Whole(d[j])
      /\ o # <<>> => Whole(o)
  BY DEF AllWhole
<1> HIDE DEF d, o, fd
<1>3. TextOf(s) = fd \o o /\ Append(TextOf(s), t) = (fd \o o) \o one
  <2>1. TextOf(s) = fd \o o
    BY DEF TextOf, d, o, fd
  <2>2. fd \o o \in Seq(Nat)
    BY <1>1, ConcatProperties DEF Text
  <2> QED BY <2>1, <2>2, AppendIsConcat
<1>4. CASE t \in Stops /\ o # <<>>
  <2>1. Split(s, t).done = Append(d, o) /\ Split(s, t).open = one
    BY <1>4 DEF Split, d, o
  <2>2. FlattenSeq(Append(d, o)) = fd \o o
    BY <1>1, FlattenAppend DEF Text, fd
  <2>3. TextOf(Split(s, t)) = (fd \o o) \o one
    BY <2>1, <2>2 DEF TextOf
  <2>4. Whole(one)
    BY DEF Whole
  <2>5. \A j \in 1..Len(Append(d, o)) : Whole(Append(d, o)[j])
    BY <1>1, <1>2, <1>4
  <2> QED BY <1>3, <2>1, <2>3, <2>4, <2>5 DEF AllWhole
<1>5. CASE ~(t \in Stops /\ o # <<>>)
  <2>1. Split(s, t) = [s EXCEPT !.open = Append(o, t)]
    BY <1>5 DEF Split, o
  <2>2. Split(s, t).done = d /\ Split(s, t).open = Append(o, t)
    BY <2>1 DEF d, Pieces
  <2>3. Append(o, t) = o \o one
    BY <1>1, AppendIsConcat DEF Text
  <2>4. fd \o (o \o one) = (fd \o o) \o one
    <3>1. fd \in Seq(Nat) /\ o \in Seq(Nat) /\ one \in Seq(Nat)
      BY <1>1 DEF Text
    <3> HIDE DEF fd, o, one
    <3>2. Joined(Joined(fd, o), one) = Joined(fd, Joined(o, one))
      BY <3>1, JoinedAssociative
    <3> QED BY <3>2, Zenon DEF Joined
  <2>5. TextOf(Split(s, t)) = Append(TextOf(s), t)
    BY <1>3, <2>2, <2>3, <2>4 DEF TextOf, fd
  <2>6. Whole(Append(o, t))
    <3>0. o \in Seq(Nat)
      BY <1>1 DEF Text
    <3>1. /\ Append(o, t) # <<>> /\ Len(Append(o, t)) = Len(o) + 1 /\ Len(o) \in Nat
          /\ \A i \in 1..Len(o) : Append(o, t)[i] = o[i]
          /\ Append(o, t)[Len(o) + 1] = t
      BY <3>0, AppendProperties, LenProperties
    <3> DEFINE c == Append(o, t)
    <3> HIDE DEF c
    <3>2. CASE o = <<>>
      <4>1. Len(c) = 1 /\ c # <<>>
        BY <3>1, <3>2 DEF c
      <4> QED BY <4>1 DEF Whole, c
    <3>3. CASE o # <<>>
      BY <1>2, <1>5, <3>1, <3>3 DEF Whole
    <3> QED BY <3>2, <3>3
  <2> QED BY <1>2, <2>2, <2>5, <2>6 DEF AllWhole
<1> QED BY <1>4, <1>5

\* The run of the splitting, one value after each token.
SplitRun(run, text) ==
  /\ run \in [0..Len(text) -> Pieces]
  /\ run[0] = Nothing
  /\ \A k \in 1..Len(text) : run[k] = Split(run[k - 1], text[k])

LEMMA SentencesFold ==
  ASSUME NEW text \in Text
  PROVE  \E run : SplitRun(run, text) /\ Sentences(text) = Close(run[Len(text)])
<1> DEFINE n == Len(text)
           step == SplitStep(text)
           Solves(it) == it = [s \in SUBSET DOMAIN text |->
                                IF s = {} THEN Nothing ELSE Split(it[s \ {Max(s)}], text[Max(s)])]
           fold == CHOOSE it : Solves(it)
           run == [k \in 0..n |-> fold[1..k]]
<1>1. n \in Nat /\ DOMAIN text = 1..n /\ Nothing \in Pieces
  BY LenProperties, NothingType DEF Text
<1>2. step \in Steps(Pieces, n)
  BY SplitType, ElementOfSeq DEF SplitStep, Steps, Text
<1>3. PICK it : SolvesFold(it, step, Nothing, Pieces, n)
  <2> HIDE DEF step
  <2> QED BY <1>1, <1>2, FoldHasValue
<1>4. Solves(it)
  <2>1. ASSUME NEW s \in SUBSET (1..n), s # {}
        PROVE  it[s] = Split(it[s \ {Max(s)}], text[Max(s)])
    <3>1. Max(s) \in 1..n /\ s \ {Max(s)} \in SUBSET (1..n)
      BY <1>1, <2>1, MaxOfPrefix
    <3>2. it[s \ {Max(s)}] \in Pieces
      BY <1>3, <3>1 DEF SolvesFold
    <3> QED BY <1>3, <2>1, <3>1, <3>2 DEF SplitStep, SolvesFold
  <2> HIDE DEF n
  <2> QED BY <1>1, <1>3, <2>1 DEF SolvesFold
<1>5. Solves(fold)
  <2> HIDE DEF Solves
  <2> QED BY <1>4
<1>6. Sentences(text) = Close(fold[DOMAIN text])
  BY DEF Sentences, FoldLeft, MapThenFoldSet, Split
<1> HIDE DEF fold
<1>7. Repeats(run, step, Nothing, Pieces, n)
  <2>1. \A s \in SUBSET (1..n) : s = {} => fold[s] = Nothing
    BY <1>5, <1>1
  <2>2. ASSUME NEW k \in 1..n, fold[(1..k) \ {k}] \in Pieces
        PROVE  fold[1..k] = step[<<fold[(1..k) \ {k}], k>>]
    <3>1. 1..k \in SUBSET (1..n) /\ 1..k # {} /\ Max(1..k) = k
      BY <1>1, PrefixWithoutMax
    <3>2. fold[1..k] = Split(fold[(1..k) \ {k}], text[k])
      BY <1>1, <1>5, <3>1
    <3> QED BY <2>2, <3>2 DEF SplitStep
  <2> HIDE DEF step
  <2>3. OnPrefixes(fold, step, Nothing, Pieces, n)
    BY <2>1, <2>2 DEF OnPrefixes
  <2> QED BY <1>1, <1>2, <2>3, FoldOnPrefixes
<1>8. Sentences(text) = Close(run[n])
  BY <1>1, <1>6
<1> HIDE DEF run
<1>9. SplitRun(run, text)
  <2>1. run \in [0..n -> Pieces] /\ run[0] = Nothing
    BY <1>7 DEF Repeats
  <2>2. ASSUME NEW k \in 1..n PROVE run[k] = Split(run[k - 1], text[k])
    <3>1. run[k] = step[<<run[k - 1], k>>] /\ <<run[k - 1], k>> \in Pieces \X (1..n)
      <4> HIDE DEF step
      <4> QED BY <1>1, <1>7, RepeatsFacts
    <3> QED BY <3>1 DEF SplitStep
  <2> QED BY <2>1, <2>2 DEF SplitRun
<1> QED BY <1>8, <1>9

\* The sentences of a text carry it, and each can be split nowhere.
LEMMA SentencesKeepText ==
  ASSUME NEW text \in Text
  PROVE  /\ Sentences(text) \in Seq(Text)
         /\ FlattenSeq(Sentences(text)) = text
         /\ \A j \in 1..Len(Sentences(text)) : Whole(Sentences(text)[j])
<1>1. PICK run : SplitRun(run, text) /\ Sentences(text) = Close(run[Len(text)])
  BY SentencesFold
<1> DEFINE n == Len(text)
           UpTo(k) == run[k] \in Pieces /\ AllWhole(run[k]) /\ TextOf(run[k]) = SubSeq(text, 1, k)
           G == {k \in 0..n : UpTo(k)}
<1>2. n \in Nat /\ text \in Seq(Nat)
  BY LenProperties DEF Text
<1>3. 0 \in G
  <2>1. run[0] = Nothing /\ 0 \in 0..n
    BY <1>1, <1>2 DEF SplitRun
  <2>2. AllWhole(Nothing)
    BY DEF AllWhole, Nothing
  <2>3. SubSeq(text, 1, 0) = <<>>
    BY SubSeqEmpty
  <2>4. UpTo(0)
    BY <2>1, <2>2, <2>3, NothingType
  <2> QED BY <2>1, <2>4
<1>4. ASSUME NEW k \in 0..(n - 1), k \in G PROVE k + 1 \in G
  <2>1. k + 1 \in 1..n /\ k + 1 \in 0..n /\ (k + 1) - 1 = k /\ k \in 0..n /\ 1 \in 1..n
    BY <1>2
  <2> DEFINE s == run[k]
             t == text[k + 1]
  <2>2. run[k + 1] = Split(s, t) /\ s \in Pieces /\ t \in Nat
    BY <1>1, <1>2, <2>1, ElementOfSeq DEF SplitRun
  <2>3. AllWhole(s) /\ TextOf(s) = SubSeq(text, 1, k)
    BY <1>4
  <2> HIDE DEF s
  <2>4. SubSeq(text, 1, k + 1) = SubSeq(text, 1, k) \o <<t>>
    <3>1. k + 1 \in 1..Len(text) /\ 1 \in 1..Len(text)
      BY <2>1
    <3>2. SubSeq(text, 1, k + 1) = SubSeq(text, 1, (k + 1) - 1) \o <<text[k + 1]>>
      BY <1>2, <3>1, SubSeqRecursiveSecond
    <3> QED BY <2>1, <3>2
  <2> HIDE DEF t
  <2>5. TextOf(s) \in Seq(Nat)
    BY <2>2, TextOfType DEF Text
  <2>6. Append(TextOf(s), t) = TextOf(s) \o <<t>>
    BY <2>2, <2>5, AppendIsConcat
  <2>7. TextOf(Split(s, t)) = Append(TextOf(s), t) /\ AllWhole(Split(s, t))
    BY <2>2, <2>3, SplitKeeps
  <2>8. Split(s, t) \in Pieces
    BY <2>2, SplitType
  <2>9. UpTo(k + 1)
    BY <2>2, <2>3, <2>4, <2>6, <2>7, <2>8
  <2> HIDE DEF UpTo
  <2> QED BY <2>1, <2>9
<1>5. UpTo(n)
  <2> HIDE DEF UpTo
  <2>1. \A k \in 0..n : k \in G
    <3> HIDE DEF G
    <3> QED BY <1>2, <1>3, <1>4, PrefixInduction
  <2> QED BY <1>2, <2>1
<1> DEFINE s == run[n]
<1>6. s \in Pieces /\ AllWhole(s) /\ TextOf(s) = text
  BY <1>2, <1>5, SubSeqFull
<1>7. Sentences(text) = Close(s)
  BY <1>1
<1> HIDE DEF s
<1>8. \A j \in 1..Len(Close(s)) : Whole(Close(s)[j])
  BY <1>6 DEF Close, AllWhole, Pieces
<1> QED BY <1>6, <1>7, <1>8, CloseKeepsText

-----------------------------------------------------------------------------
(* Packing pieces to the target. *)

\* A chunk over the target is one that can be split nowhere.
Packed(c) == c # <<>> /\ (Len(c) > Target => \A i \in 2..Len(c) : c[i] \notin Stops)

AllPacked(s) ==
  /\ \A j \in 1..Len(s.done) : Packed(s.done[j])
  /\ Len(s.open) <= Target

\* How an oversize piece may be split.
IsSplit(split, piece) ==
  /\ split \in Seq(Text)
  /\ FlattenSeq(split) = piece
  /\ \A j \in 1..Len(split) : Packed(split[j])

LEMMA AllAppended ==
  ASSUME NEW d \in Seq(Text), NEW c \in Text, \A j \in 1..Len(d) : Packed(d[j]), Packed(c)
  PROVE  \A j \in 1..Len(Append(d, c)) : Packed(Append(d, c)[j])
BY AppendProperties, LenProperties

LEMMA AllJoined ==
  ASSUME NEW d \in Seq(Text), NEW e \in Seq(Text),
         \A j \in 1..Len(d) : Packed(d[j]), \A j \in 1..Len(e) : Packed(e[j])
  PROVE  \A j \in 1..Len(d \o e) : Packed((d \o e)[j])
<1>1. Len(d) \in Nat /\ Len(e) \in Nat
  BY LenProperties
<1> SUFFICES ASSUME NEW j \in 1..(Len(d) + Len(e)) PROVE Packed((d \o e)[j])
  BY ConcatProperties
<1>2. CASE j <= Len(d)
  BY <1>1, <1>2, ConcatProperties
<1>3. CASE j > Len(d)
  <2>1. j - Len(d) \in 1..Len(e) /\ ~(j <= Len(d))
    BY <1>1, <1>3
  <2>2. (d \o e)[j] = e[j - Len(d)]
    BY <2>1, ConcatProperties
  <2> QED BY <2>1, <2>2
<1> QED BY <1>1, <1>2, <1>3

\* What is closed is packed.
LEMMA CloseIsPacked ==
  ASSUME NEW s \in Pieces, AllPacked(s)
  PROVE  \A j \in 1..Len(Close(s)) : Packed(Close(s)[j])
<1>1. s.done \in Seq(Text) /\ s.open \in Text /\ Len(s.open) \in Nat
  BY DEF Pieces, Text
<1>2. s.open # <<>> => Packed(s.open)
  BY <1>1, ChunkingAssumption DEF AllPacked, Packed
<1> QED BY <1>1, <1>2, AllAppended DEF Close, AllPacked

\* The three ways a piece is packed.
PackCase(s, p, piece, split) ==
  \/ /\ Len(piece) > Target
     /\ p.done = Close(s) \o split /\ p.open = <<>>
  \/ /\ Len(piece) <= Target /\ Len(s.open) + Len(piece) <= Target
     /\ p.done = s.done /\ p.open = s.open \o piece
  \/ /\ Len(piece) <= Target /\ Len(s.open) + Len(piece) > Target /\ s.open # <<>>
     /\ p.done = Append(s.done, s.open) /\ p.open = piece

LEMMA PackCases ==
  ASSUME NEW s \in Pieces, NEW piece \in Text, NEW split,
         Len(piece) > Target => split \in Seq(Text)
  PROVE  Pack(s, piece, split) \in Pieces /\ PackCase(s, Pack(s, piece, split), piece, split)
<1> DEFINE l == Len(piece)
           o == s.open
           d == s.done
           m == Len(o)
           p == Pack(s, piece, split)
           a == [done |-> Close(s) \o split, open |-> <<>>]
           b == [s EXCEPT !.open = o \o piece]
           c == [done |-> Append(d, o), open |-> piece]
<1>1. d \in Seq(Text) /\ o \in Text /\ (o = <<>> => m = 0)
  BY DEF Pieces
<1>2. l \in Nat /\ m \in Nat /\ Target \in Nat
  BY <1>1, LenProperties, ChunkingAssumption DEF Text
<1>3. p = IF l > Target THEN a ELSE IF m + l <= Target THEN b ELSE c
  BY DEF Pack
<1>4. b.done = d /\ b.open = o \o piece
  BY DEF Pieces
<1>5. a.done = Close(s) \o split /\ a.open = <<>> /\ c.done = Append(d, o) /\ c.open = piece
  OBVIOUS
<1>6. \A e \in Seq(Text), t \in Text : /\ [done |-> e, open |-> t] \in Pieces
                                       /\ [s EXCEPT !.open = t] \in Pieces
  BY DEF Pieces
<1> HIDE DEF l, m, o, d, p
<1>7. l > Target => a \in Pieces
  <2>1. SUFFICES ASSUME l > Target PROVE a \in Pieces
    OBVIOUS
  <2>2. split \in Seq(Text) /\ Close(s) \in Seq(Text)
    BY <2>1, CloseKeepsText DEF l
  <2>3. Close(s) \o split \in Seq(Text) /\ <<>> \in Text
    BY <2>2, ConcatProperties DEF Text
  <2> QED BY <1>6, <2>3
<1>8. b \in Pieces
  <2>1. o \o piece \in Text
    BY <1>1, ConcatProperties DEF Text
  <2> QED BY <1>1, <1>6, <2>1
<1>9. c \in Pieces
  <2>1. Append(d, o) \in Seq(Text)
    BY <1>1, AppendProperties
  <2> QED BY <1>6, <2>1
<1> HIDE DEF a, b, c
<1>10. p \in Pieces
  BY <1>3, <1>7, <1>8, <1>9
<1>11. \/ l > Target /\ p = a
       \/ l <= Target /\ m + l <= Target /\ p = b
       \/ l <= Target /\ m + l > Target /\ o # <<>> /\ p = c
  BY <1>1, <1>2, <1>3
<1>12. PackCase(s, p, piece, split)
  BY <1>4, <1>5, <1>11 DEF PackCase, l, m, o, d
<1> QED BY <1>10, <1>12 DEF p

LEMMA PackKeeps ==
  ASSUME NEW s \in Pieces, NEW piece \in Text, NEW split,
         Len(piece) > Target => IsSplit(split, piece)
  PROVE  /\ Pack(s, piece, split) \in Pieces
         /\ TextOf(Pack(s, piece, split)) = TextOf(s) \o piece
         /\ AllPacked(s) => AllPacked(Pack(s, piece, split))
<1> DEFINE d == s.done
           o == s.open
           fd == FlattenSeq(d)
           p == Pack(s, piece, split)
<1>0. p \in Pieces /\ PackCase(s, p, piece, split)
  BY PackCases DEF IsSplit
<1>1. d \in Seq(Text) /\ o \in Text /\ fd \in Text /\ TextOf(s) = fd \o o
  BY FlattenType DEF Pieces, Text, TextOf
<1>2. AllPacked(s) <=> (\A j \in 1..Len(d) : Packed(d[j])) /\ Len(o) <= Target
  BY DEF AllPacked
<1>3. Len(o) \in Nat /\ Len(piece) \in Nat /\ Len(<<>>) = 0 /\ Target \in Nat
  BY <1>1, LenProperties, ChunkingAssumption DEF Text
<1>4. /\ AllPacked(p) <=> (\A j \in 1..Len(p.done) : Packed(p.done[j])) /\ Len(p.open) <= Target
      /\ TextOf(p) = FlattenSeq(p.done) \o p.open
  BY DEF AllPacked, TextOf
<1> HIDE DEF p
<1>5. CASE Len(piece) > Target /\ p.done = Close(s) \o split /\ p.open = <<>>
  <2> DEFINE c == Close(s)
             all == c \o split
  <2>1. /\ c \in Seq(Text) /\ FlattenSeq(c) = TextOf(s)
        /\ split \in Seq(Text) /\ FlattenSeq(split) = piece
    BY <1>5, CloseKeepsText DEF IsSplit
  <2>2. AllPacked(s) => \A j \in 1..Len(all) : Packed(all[j])
    BY <1>5, <2>1, CloseIsPacked, AllJoined DEF IsSplit
  <2> HIDE DEF c
  <2>3. FlattenSeq(all) = TextOf(s) \o piece /\ all \in Seq(Text)
    <3>1. FlattenSeq(c \o split) = FlattenSeq(c) \o FlattenSeq(split)
      BY <2>1, FlattenConcat DEF Text
    <3> QED BY <2>1, <3>1, ConcatProperties
  <2>4. p.done = all
    BY <1>5 DEF c
  <2> HIDE DEF all
  <2>5. FlattenSeq(all) \o <<>> = FlattenSeq(all)
    <3>1. FlattenSeq(all) \in Seq(Nat)
      BY <2>3, FlattenType DEF Text
    <3> QED BY <3>1, ConcatEmptySeq
  <2>6. Len(p.open) <= Target
    BY <1>3, <1>5
  <2> QED BY <1>0, <1>4, <1>5, <2>2, <2>3, <2>4, <2>5, <2>6 DEF p
<1> HIDE DEF d, o, fd
<1>6. CASE Len(o) + Len(piece) <= Target /\ p.done = d /\ p.open = o \o piece
  <2>1. Len(o \o piece) = Len(o) + Len(piece)
    BY <1>1, ConcatProperties DEF Text
  <2>2. fd \o (o \o piece) = (fd \o o) \o piece
    <3>1. fd \in Seq(Nat) /\ o \in Seq(Nat) /\ piece \in Seq(Nat)
      BY <1>1 DEF Text
    <3>2. Joined(Joined(fd, o), piece) = Joined(fd, Joined(o, piece))
      BY <3>1, JoinedAssociative
    <3> QED BY <3>2, Zenon DEF Joined
  <2>3. TextOf(p) = TextOf(s) \o piece
    BY <1>1, <1>4, <1>6, <2>2 DEF fd
  <2>4. AllPacked(s) => AllPacked(p)
    BY <1>2, <1>4, <1>6, <2>1
  <2> QED BY <1>0, <2>3, <2>4 DEF p
<1>7. CASE Len(piece) <= Target /\ o # <<>> /\ p.done = Append(d, o) /\ p.open = piece
  <2>1. FlattenSeq(Append(d, o)) = fd \o o
    BY <1>1, FlattenAppend DEF Text, fd
  <2>2. TextOf(p) = TextOf(s) \o piece
    BY <1>1, <1>4, <1>7, <2>1
  <2>3. Len(o) <= Target => ~(Len(o) > Target)
    BY <1>3
  <2>4. AllPacked(s) => Packed(o)
    BY <1>2, <1>7, <2>3, Zenon DEF Packed
  <2>5. AllPacked(s) => \A j \in 1..Len(Append(d, o)) : Packed(Append(d, o)[j])
    BY <1>1, <1>2, <2>4, AllAppended
  <2>6. AllPacked(s) => AllPacked(p)
    BY <1>4, <1>7, <2>5
  <2> QED BY <1>0, <2>2, <2>6 DEF p
<1> QED BY <1>0, <1>5, <1>6, <1>7 DEF PackCase, d, o

\* The run of a packing of pieces that have their splits.
PackRun(run, pieces, splits) ==
  /\ run \in [0..Len(pieces) -> Pieces]
  /\ run[0] = Nothing
  /\ \A k \in 1..Len(pieces) : run[k] = Pack(run[k - 1], pieces[k], splits[k])

PackStep(pieces, splits) ==
  [vk \in Pieces \X (1..Len(pieces)) |-> Pack(vk[1], pieces[vk[2]], splits[vk[2]])]

PackSolves(it, pieces, splits) ==
  it = [s \in SUBSET DOMAIN pieces |->
          IF s = {} THEN Nothing
          ELSE Pack(it[s \ {Max(s)}], pieces[Max(s)], splits[Max(s)])]

LEMMA PackStepType ==
  ASSUME NEW pieces \in Seq(Text), NEW splits \in [1..Len(pieces) -> Seq(Text)]
  PROVE  PackStep(pieces, splits) \in Steps(Pieces, Len(pieces))
<1>1. ASSUME NEW s \in Pieces, NEW k \in 1..Len(pieces)
      PROVE  Pack(s, pieces[k], splits[k]) \in Pieces
  BY ElementOfSeq, PackCases
<1> QED BY <1>1 DEF PackStep, Steps

LEMMA PackHasFold ==
  ASSUME NEW pieces \in Seq(Text), NEW splits \in [1..Len(pieces) -> Seq(Text)]
  PROVE  \E it : PackSolves(it, pieces, splits)
<1> DEFINE n == Len(pieces)
           step == PackStep(pieces, splits)
<1>1. n \in Nat /\ DOMAIN pieces = 1..n /\ Nothing \in Pieces
  BY LenProperties, NothingType
<1>2. step \in Steps(Pieces, n)
  BY PackStepType
<1>3. PICK it : SolvesFold(it, step, Nothing, Pieces, n)
  <2> HIDE DEF step
  <2> QED BY <1>1, <1>2, FoldHasValue
<1>4. PackSolves(it, pieces, splits)
  <2>1. ASSUME NEW s \in SUBSET (1..n), s # {}
        PROVE  it[s] = Pack(it[s \ {Max(s)}], pieces[Max(s)], splits[Max(s)])
    <3>1. Max(s) \in 1..n /\ s \ {Max(s)} \in SUBSET (1..n)
      BY <1>1, <2>1, MaxOfPrefix
    <3>2. it[s \ {Max(s)}] \in Pieces
      BY <1>3, <3>1 DEF SolvesFold
    <3> QED BY <1>3, <2>1, <3>1, <3>2 DEF PackStep, SolvesFold
  <2> HIDE DEF n
  <2> QED BY <1>1, <1>3, <2>1 DEF SolvesFold, PackSolves
<1> QED BY <1>4

LEMMA PackFoldRuns ==
  ASSUME NEW pieces \in Seq(Text), NEW splits \in [1..Len(pieces) -> Seq(Text)],
         NEW fold, PackSolves(fold, pieces, splits)
  PROVE  \E run : PackRun(run, pieces, splits) /\ fold[DOMAIN pieces] = run[Len(pieces)]
<1> DEFINE n == Len(pieces)
           step == PackStep(pieces, splits)
           run == [k \in 0..n |-> fold[1..k]]
<1>1. n \in Nat /\ DOMAIN pieces = 1..n /\ Nothing \in Pieces
  BY LenProperties, NothingType
<1>2. step \in Steps(Pieces, n)
  BY PackStepType
<1>3. Repeats(run, step, Nothing, Pieces, n)
  <2>1. \A s \in SUBSET (1..n) : s = {} => fold[s] = Nothing
    BY <1>1 DEF PackSolves
  <2>2. ASSUME NEW k \in 1..n, fold[(1..k) \ {k}] \in Pieces
        PROVE  fold[1..k] = step[<<fold[(1..k) \ {k}], k>>]
    <3>1. 1..k \in SUBSET (1..n) /\ 1..k # {} /\ Max(1..k) = k
      BY <1>1, PrefixWithoutMax
    <3>2. fold[1..k] = Pack(fold[(1..k) \ {k}], pieces[k], splits[k])
      BY <1>1, <3>1 DEF PackSolves
    <3> QED BY <2>2, <3>2 DEF PackStep
  <2> HIDE DEF step
  <2>3. OnPrefixes(fold, step, Nothing, Pieces, n)
    BY <2>1, <2>2 DEF OnPrefixes
  <2> QED BY <1>1, <1>2, <2>3, FoldOnPrefixes
<1>4. fold[DOMAIN pieces] = run[n]
  BY <1>1
<1> HIDE DEF run
<1>5. PackRun(run, pieces, splits)
  <2>1. run \in [0..n -> Pieces] /\ run[0] = Nothing
    BY <1>3 DEF Repeats
  <2>2. ASSUME NEW k \in 1..n PROVE run[k] = Pack(run[k - 1], pieces[k], splits[k])
    <3>1. run[k] = step[<<run[k - 1], k>>] /\ <<run[k - 1], k>> \in Pieces \X (1..n)
      <4> HIDE DEF step
      <4> QED BY <1>1, <1>3, RepeatsFacts
    <3> QED BY <3>1 DEF PackStep
  <2> QED BY <2>1, <2>2 DEF PackRun
<1> QED BY <1>4, <1>5

\* The pieces up to the k-th are all packed.
LEMMA PackRunKeeps ==
  ASSUME NEW pieces \in Seq(Text), NEW splits, NEW run, PackRun(run, pieces, splits),
         \A k \in 1..Len(pieces) : Len(pieces[k]) > Target => IsSplit(splits[k], pieces[k])
  PROVE  \A k \in 0..Len(pieces) :
           /\ run[k] \in Pieces /\ AllPacked(run[k])
           /\ TextOf(run[k]) = FlattenSeq(SubSeq(pieces, 1, k))
<1> DEFINE n == Len(pieces)
           Done(k) == /\ run[k] \in Pieces /\ AllPacked(run[k])
                      /\ TextOf(run[k]) = FlattenSeq(SubSeq(pieces, 1, k))
           G == {k \in 0..n : Done(k)}
<1>1. n \in Nat
  BY LenProperties
<1>2. 0 \in G
  <2>1. run[0] = Nothing /\ 0 \in 0..n
    BY <1>1 DEF PackRun
  <2>2. AllPacked(Nothing)
    BY ChunkingAssumption DEF AllPacked, Nothing
  <2>3. SubSeq(pieces, 1, 0) = <<>>
    BY SubSeqEmpty
  <2>4. Done(0)
    BY <2>1, <2>2, <2>3, NothingType, FlattenEmpty
  <2> QED BY <2>1, <2>4
<1>3. ASSUME NEW k \in 0..(n - 1), k \in G PROVE k + 1 \in G
  <2>1. k + 1 \in 1..n /\ k + 1 \in 0..n /\ (k + 1) - 1 = k /\ k \in 0..n
    BY <1>1
  <2> DEFINE s == run[k]
             c == pieces[k + 1]
             p == Pack(s, c, splits[k + 1])
             before == SubSeq(pieces, 1, k)
  <2>2. run[k + 1] = p /\ s \in Pieces /\ c \in Text
    BY <1>1, <2>1, ElementOfSeq DEF PackRun
  <2>3. AllPacked(s) /\ TextOf(s) = FlattenSeq(before)
    BY <1>3
  <2>4. Len(c) > Target => IsSplit(splits[k + 1], c)
    BY <2>1
  <2>5. SubSeq(pieces, 1, k + 1) = before \o <<c>> /\ before \in Seq(Text)
    <3>1. k + 1 \in 1..Len(pieces) /\ 1 \in 1..Len(pieces)
      BY <1>1, <2>1
    <3>2. SubSeq(pieces, 1, k + 1) = SubSeq(pieces, 1, (k + 1) - 1) \o <<pieces[k + 1]>>
      BY <3>1, SubSeqRecursiveSecond
    <3>3. \A i \in 1..k : pieces[i] \in Text
      BY <1>1, <2>1, ElementOfSeq
    <3>4. before \in Seq(Text)
      BY <2>1, <3>3, SubSeqProperties
    <3> QED BY <2>1, <3>2, <3>4
  <2> HIDE DEF s, c, before
  <2>6. Append(before, c) = before \o <<c>>
    BY <2>2, <2>5, AppendIsConcat
  <2>7. FlattenSeq(Append(before, c)) = FlattenSeq(before) \o c
    BY <2>2, <2>5, FlattenAppend DEF Text
  <2>8. p \in Pieces /\ TextOf(p) = TextOf(s) \o c /\ AllPacked(p)
    BY <2>2, <2>3, <2>4, PackKeeps
  <2> HIDE DEF p
  <2>9. Done(k + 1)
    BY <2>2, <2>3, <2>5, <2>6, <2>7, <2>8
  <2> HIDE DEF Done
  <2> QED BY <2>1, <2>9
<1> HIDE DEF G
<1>4. \A k \in 0..n : k \in G
  BY <1>1, <1>2, <1>3, PrefixInduction
<1> QED BY <1>4 DEF G

LEMMA PackedText ==
  ASSUME NEW pieces \in Seq(Text), NEW splits, NEW run, PackRun(run, pieces, splits),
         \A k \in 1..Len(pieces) : Len(pieces[k]) > Target => IsSplit(splits[k], pieces[k])
  PROVE  IsSplit(Close(run[Len(pieces)]), FlattenSeq(pieces))
<1> DEFINE s == run[Len(pieces)]
<1>1. Len(pieces) \in 0..Len(pieces)
  BY LenProperties
<1>2. s \in Pieces /\ AllPacked(s) /\ TextOf(s) = FlattenSeq(SubSeq(pieces, 1, Len(pieces)))
  BY <1>1, PackRunKeeps
<1>3. SubSeq(pieces, 1, Len(pieces)) = pieces
  BY SubSeqFull
<1> HIDE DEF s
<1>4. Close(s) \in Seq(Text) /\ FlattenSeq(Close(s)) = FlattenSeq(pieces)
  BY <1>2, <1>3, CloseKeepsText
<1>5. \A j \in 1..Len(Close(s)) : Packed(Close(s)[j])
  BY <1>2, CloseIsPacked
<1>6. IsSplit(Close(s), FlattenSeq(pieces))
  BY <1>4, <1>5 DEF IsSplit
<1> QED BY <1>6 DEF s

\* Packing the sentences of a paragraph splits it.
LEMMA SentencesSplit ==
  ASSUME NEW paragraph \in Text
  PROVE  IsSplit(PackSentences(paragraph), paragraph)
<1> DEFINE pieces == Sentences(paragraph)
           splits == [k \in 1..Len(pieces) |-> <<pieces[k]>>]
           Solves(it) == it = [s \in SUBSET DOMAIN pieces |->
                                IF s = {} THEN Nothing
                                ELSE Pack(it[s \ {Max(s)}], pieces[Max(s)], <<pieces[Max(s)]>>)]
           fold == CHOOSE it : Solves(it)
<1>1. /\ pieces \in Seq(Text) /\ FlattenSeq(pieces) = paragraph
      /\ \A j \in 1..Len(pieces) : Whole(pieces[j])
  BY SentencesKeepText
<1>2. PackSentences(paragraph) = Close(fold[DOMAIN pieces])
  BY DEF PackSentences, FoldLeft, MapThenFoldSet
<1> HIDE DEF pieces
<1>3. Len(pieces) \in Nat /\ DOMAIN pieces = 1..Len(pieces)
  BY <1>1, LenProperties
<1>4. splits \in [1..Len(pieces) -> Seq(Text)] /\ \A k \in 1..Len(pieces) : splits[k] = <<pieces[k]>>
  BY <1>1, ElementOfSeq
<1> HIDE DEF splits
<1>5. \A it : Solves(it) <=> PackSolves(it, pieces, splits)
  <2>1. \A s \in SUBSET DOMAIN pieces : s # {} => splits[Max(s)] = <<pieces[Max(s)]>>
    BY <1>3, <1>4, MaxOfPrefix
  <2> QED BY <2>1 DEF PackSolves
<1> HIDE DEF Solves
<1>6. \E it : Solves(it)
  BY <1>1, <1>4, <1>5, PackHasFold
<1>7. PackSolves(fold, pieces, splits)
  BY <1>5, <1>6
<1> HIDE DEF fold
<1>8. PICK run : PackRun(run, pieces, splits) /\ fold[DOMAIN pieces] = run[Len(pieces)]
  BY <1>1, <1>4, <1>7, PackFoldRuns
<1>9. ASSUME NEW k \in 1..Len(pieces) PROVE IsSplit(splits[k], pieces[k])
  <2> DEFINE c == pieces[k]
  <2>1. c \in Text /\ Whole(c) /\ splits[k] = <<c>>
    BY <1>1, <1>4, ElementOfSeq
  <2> HIDE DEF c
  <2>2. FlattenSeq(<<c>>) = c /\ <<c>> \in Seq(Text)
    BY <2>1, FlattenOne DEF Text
  <2>3. Packed(c)
    BY <2>1 DEF Packed, Whole
  <2> QED BY <2>1, <2>2, <2>3 DEF IsSplit, c
<1>10. IsSplit(Close(run[Len(pieces)]), FlattenSeq(pieces))
  BY <1>1, <1>8, <1>9, PackedText
<1> QED BY <1>1, <1>2, <1>8, <1>10

-----------------------------------------------------------------------------
(* Chunks are apart for a reason. *)

\* A chunk of an oversize paragraph.
Over(paragraphs, c) ==
  \E p \in DOMAIN paragraphs :
    Len(paragraphs[p]) > Target /\ Range(paragraphs[p]) \intersect Range(c) # {}

Apart(paragraphs, a, b) ==
  \/ Len(a) + Len(b) > Target
  \/ Over(paragraphs, a)
  \/ Over(paragraphs, b)

AllApart(paragraphs, d) == \A j \in 2..Len(d) : Apart(paragraphs, d[j - 1], d[j])

\* The last complete chunk and what is open.
LastApart(paragraphs, d, o) ==
  d # <<>> => IF o = <<>> THEN Over(paragraphs, d[Len(d)]) ELSE Apart(paragraphs, d[Len(d)], o)

Joints(paragraphs, s) == AllApart(paragraphs, s.done) /\ LastApart(paragraphs, s.done, s.open)

LEMMA RangeOfOpen ==
  ASSUME NEW a \in Text, NEW b \in Text
  PROVE  Range(a) \subseteq Range(a \o b)
BY RangeConcatenation DEF Text

LEMMA ApartAppended ==
  ASSUME NEW paragraphs, NEW d \in Seq(Text), NEW c \in Text,
         AllApart(paragraphs, d), d # <<>> => Apart(paragraphs, d[Len(d)], c)
  PROVE  AllApart(paragraphs, Append(d, c))
<1> DEFINE e == Append(d, c)
           n == Len(d)
<1>1. /\ n \in Nat /\ Len(e) = n + 1 /\ e[n + 1] = c
      /\ \A j \in 1..n : e[j] = d[j]
      /\ d = <<>> => n = 0
  BY LenProperties, AppendProperties
<1> HIDE DEF e
<1>2. ASSUME NEW j \in 2..Len(e) PROVE Apart(paragraphs, e[j - 1], e[j])
  <2>1. j \in 2..(n + 1) /\ j - 1 \in 1..n
    BY <1>1
  <2>2. CASE j = n + 1
    <3>1. d # <<>> /\ j - 1 = n
      BY <1>1, <2>1, <2>2
    <3> QED BY <1>1, <2>1, <2>2, <3>1
  <2>3. CASE j # n + 1
    <3>1. j \in 2..n /\ j \in 1..n
      BY <1>1, <2>1, <2>3
    <3> QED BY <1>1, <2>1, <3>1 DEF AllApart
  <2> QED BY <2>2, <2>3
<1>3. AllApart(paragraphs, e)
  BY <1>2 DEF AllApart
<1> QED BY <1>3 DEF e

LEMMA ApartJoined ==
  ASSUME NEW paragraphs, NEW d \in Seq(Text), NEW e \in Seq(Text),
         AllApart(paragraphs, d), \A j \in 1..Len(e) : Over(paragraphs, e[j])
  PROVE  AllApart(paragraphs, d \o e)
<1> DEFINE a == d \o e
           m == Len(d)
           n == Len(e)
<1>1. /\ m \in Nat /\ n \in Nat /\ Len(a) = m + n
      /\ \A j \in 1..(m + n) : a[j] = IF j <= m THEN d[j] ELSE e[j - m]
  BY LenProperties, ConcatProperties
<1> HIDE DEF a
<1>2. ASSUME NEW j \in 2..Len(a) PROVE Apart(paragraphs, a[j - 1], a[j])
  <2>1. j \in 2..(m + n) /\ j \in 1..(m + n) /\ j - 1 \in 1..(m + n)
    BY <1>1
  <2>2. CASE j <= m
    <3>1. j \in 2..m /\ j - 1 <= m
      BY <1>1, <2>1, <2>2
    <3> QED BY <1>1, <2>1, <2>2, <3>1 DEF AllApart
  <2>3. CASE ~(j <= m)
    <3>1. j - m \in 1..n
      BY <1>1, <2>1, <2>3
    <3> QED BY <1>1, <2>1, <2>3, <3>1 DEF Apart
  <2> QED BY <2>2, <2>3
<1>3. AllApart(paragraphs, a)
  BY <1>2 DEF AllApart
<1> QED BY <1>3 DEF a

LEMMA CloseIsApart ==
  ASSUME NEW paragraphs, NEW s \in Pieces, Joints(paragraphs, s)
  PROVE  AllApart(paragraphs, Close(s))
<1>1. s.done \in Seq(Text) /\ s.open \in Text
  BY DEF Pieces
<1>2. AllApart(paragraphs, s.done)
  BY DEF Joints
<1>3. s.open # <<>> => (s.done # <<>> => Apart(paragraphs, s.done[Len(s.done)], s.open))
  BY DEF Joints, LastApart
<1> QED BY <1>1, <1>2, <1>3, ApartAppended DEF Close

\* The chunks of an oversize paragraph are of it.
LEMMA SplitIsOver ==
  ASSUME NEW paragraphs \in Seq(Text), NEW k \in 1..Len(paragraphs),
         Len(paragraphs[k]) > Target, NEW split, IsSplit(split, paragraphs[k])
  PROVE  split # <<>> /\ \A j \in 1..Len(split) : Over(paragraphs, split[j])
<1> DEFINE c == paragraphs[k]
<1>1. c \in Text /\ DOMAIN paragraphs = 1..Len(paragraphs)
  BY ElementOfSeq, LenProperties
<1>2. split \in Seq(Text) /\ FlattenSeq(split) = c /\ \A j \in 1..Len(split) : split[j] # <<>>
  BY DEF IsSplit, Packed
<1>3. split # <<>>
  <2>1. Len(<<>>) = 0
    OBVIOUS
  <2>2. c # <<>>
    BY <2>1, ChunkingAssumption
  <2> QED BY <1>2, <2>2, FlattenEmpty
<1>4. ASSUME NEW j \in 1..Len(split) PROVE Over(paragraphs, split[j])
  <2> DEFINE t == split[j]
  <2>1. t \in Text /\ t # <<>>
    BY <1>2, ElementOfSeq
  <2>2. Range(t) \subseteq Range(c)
    BY <1>2, FlattenRange DEF Text
  <2> HIDE DEF t, c
  <2>3. t[1] \in Range(t)
    <3>1. Len(t) \in Nat \ {0} /\ DOMAIN t = 1..Len(t)
      BY <2>1, EmptySeq, LenProperties DEF Text
    <3>2. 1 \in DOMAIN t
      BY <3>1
    <3> QED BY <3>2 DEF Range
  <2>4. Range(c) \intersect Range(t) # {}
    BY <2>2, <2>3
  <2> QED BY <1>1, <2>4 DEF Over, c, t
<1> QED BY <1>3, <1>4

\* Packing one more paragraph keeps the chunks apart.
LEMMA PackKeepsJoints ==
  ASSUME NEW paragraphs \in Seq(Text), NEW k \in 1..Len(paragraphs),
         NEW s \in Pieces, AllPacked(s), Joints(paragraphs, s),
         NEW split, IsSplit(split, paragraphs[k])
  PROVE  Joints(paragraphs, Pack(s, paragraphs[k], split))
<1> DEFINE c == paragraphs[k]
           d == s.done
           o == s.open
           p == Pack(s, c, split)
<1>1. c \in Text /\ d \in Seq(Text) /\ o \in Text
  BY ElementOfSeq DEF Pieces
<1>2. PackCase(s, p, c, split)
  BY <1>1, PackCases DEF IsSplit
<1>3. AllApart(paragraphs, d) /\ LastApart(paragraphs, d, o)
  BY DEF Joints
<1>4. Joints(paragraphs, p) <=> AllApart(paragraphs, p.done) /\ LastApart(paragraphs, p.done, p.open)
  BY DEF Joints
<1>5. Len(o) \in Nat /\ Len(c) \in Nat /\ Target \in Nat
  BY <1>1, LenProperties, ChunkingAssumption DEF Text
<1> HIDE DEF p
<1>6. CASE Len(c) > Target /\ p.done = Close(s) \o split /\ p.open = <<>>
  <2> DEFINE e == Close(s)
             all == e \o split
  <2>1. e \in Seq(Text) /\ AllApart(paragraphs, e) /\ split \in Seq(Text)
    BY CloseKeepsText, CloseIsApart DEF IsSplit
  <2>2. split # <<>> /\ \A j \in 1..Len(split) : Over(paragraphs, split[j])
    BY <1>6, SplitIsOver
  <2>3. p.done = all
    BY <1>6
  <2> HIDE DEF e
  <2>4. AllApart(paragraphs, all)
    BY <2>1, <2>2, ApartJoined
  <2>5. all[Len(all)] = split[Len(split)] /\ Len(split) \in 1..Len(split)
    <3>1. Len(e) \in Nat /\ Len(split) \in Nat \ {0}
      BY <2>1, <2>2, LenProperties, EmptySeq
    <3>2. /\ Len(all) = Len(e) + Len(split)
          /\ \A i \in 1..(Len(e) + Len(split)) :
               all[i] = IF i <= Len(e) THEN e[i] ELSE split[i - Len(e)]
      BY <2>1, ConcatProperties
    <3> HIDE DEF all
    <3>3. /\ Len(all) \in 1..(Len(e) + Len(split)) /\ ~(Len(all) <= Len(e))
          /\ Len(all) - Len(e) = Len(split)
      BY <3>1, <3>2
    <3> QED BY <3>1, <3>2, <3>3
  <2> HIDE DEF all
  <2>6. LastApart(paragraphs, p.done, p.open)
    BY <1>6, <2>2, <2>3, <2>5 DEF LastApart
  <2> QED BY <1>4, <2>3, <2>4, <2>6 DEF p
<1> HIDE DEF c, d, o
<1>7. CASE p.done = d /\ p.open = o \o c
  <2> DEFINE q == o \o c
  <2>1. q \in Text /\ Len(q) = Len(o) + Len(c) /\ Range(o) \subseteq Range(q)
    BY <1>1, ConcatProperties, RangeOfOpen DEF Text
  <2>2. q = <<>> => o = <<>>
    BY <1>1, ConcatEqualIffEmpty DEF Text
  <2> HIDE DEF q
  <2>3. ASSUME d # <<>> PROVE IF q = <<>> THEN Over(paragraphs, d[Len(d)])
                              ELSE Apart(paragraphs, d[Len(d)], q)
    <3> DEFINE l == d[Len(d)]
    <3>1. IF o = <<>> THEN Over(paragraphs, l) ELSE Apart(paragraphs, l, o)
      BY <1>3, <2>3 DEF LastApart
    <3>2. Len(l) \in Nat
      <4>1. Len(d) \in 1..Len(d)
        BY <1>1, <2>3, EmptySeq
      <4>2. l \in Text
        BY <1>1, <4>1, ElementOfSeq
      <4> QED BY <4>2, LenProperties DEF Text
    <3> HIDE DEF l
    <3>3. Over(paragraphs, o) => Over(paragraphs, q)
      BY <2>1 DEF Over
    <3>4. Apart(paragraphs, l, o) => Apart(paragraphs, l, q)
      <4>1. Len(l) + Len(o) > Target => Len(l) + Len(q) > Target
        BY <1>5, <2>1, <3>2
      <4> QED BY <3>3, <4>1 DEF Apart
    <3>5. Over(paragraphs, l) => Apart(paragraphs, l, q)
      BY DEF Apart
    <3> QED BY <2>2, <3>1, <3>4, <3>5 DEF l
  <2>4. LastApart(paragraphs, p.done, p.open)
    BY <1>7, <2>3 DEF LastApart, q
  <2> QED BY <1>3, <1>4, <1>7, <2>4 DEF p, c
<1>8. CASE /\ Len(o) + Len(c) > Target /\ o # <<>> /\ Len(c) <= Target
           /\ p.done = Append(d, o) /\ p.open = c
  <2> DEFINE e == Append(d, o)
  <2>1. AllApart(paragraphs, e)
    BY <1>1, <1>3, <1>8, ApartAppended DEF LastApart
  <2>2. e[Len(e)] = o
    BY <1>1, AppendProperties, LenProperties
  <2>3. c # <<>>
    <3>1. c = <<>> => Len(c) = 0
      OBVIOUS
    <3>2. Len(o) <= Target
      BY DEF AllPacked, o
    <3> QED BY <1>5, <1>8, <3>1, <3>2
  <2> HIDE DEF e
  <2>4. LastApart(paragraphs, e, c)
    BY <1>8, <2>2, <2>3 DEF LastApart, Apart
  <2> QED BY <1>4, <1>8, <2>1, <2>4 DEF p, c, e
<1> QED BY <1>2, <1>6, <1>7, <1>8 DEF PackCase, p, c, d, o

\* The chunks of the paragraphs carry their text, are packed and are apart.
LEMMA ParagraphsArePacked ==
  ASSUME NEW paragraphs \in Seq(Text)
  PROVE  /\ IsSplit(PackParagraphs(paragraphs), FlattenSeq(paragraphs))
         /\ AllApart(paragraphs, PackParagraphs(paragraphs))
<1> DEFINE n == Len(paragraphs)
           splits == [k \in 1..n |-> PackSentences(paragraphs[k])]
           Solves(it) == it = [s \in SUBSET DOMAIN paragraphs |->
                                IF s = {} THEN Nothing
                                ELSE Pack(it[s \ {Max(s)}], paragraphs[Max(s)],
                                          PackSentences(paragraphs[Max(s)]))]
           fold == CHOOSE it : Solves(it)
<1>1. PackParagraphs(paragraphs) = Close(fold[DOMAIN paragraphs])
  BY DEF PackParagraphs, FoldLeft, MapThenFoldSet
<1>2. n \in Nat /\ DOMAIN paragraphs = 1..n
  BY LenProperties
<1>3. ASSUME NEW k \in 1..n
      PROVE  /\ splits[k] = PackSentences(paragraphs[k])
             /\ IsSplit(splits[k], paragraphs[k]) /\ splits[k] \in Seq(Text)
  <2>1. IsSplit(PackSentences(paragraphs[k]), paragraphs[k])
    BY ElementOfSeq, SentencesSplit
  <2> QED BY <2>1 DEF IsSplit
<1>4. splits \in [1..n -> Seq(Text)]
  BY <1>3
<1> HIDE DEF splits
<1>5. \A it : Solves(it) <=> PackSolves(it, paragraphs, splits)
  <2>1. \A s \in SUBSET DOMAIN paragraphs :
          s # {} => splits[Max(s)] = PackSentences(paragraphs[Max(s)])
    BY <1>2, <1>3, MaxOfPrefix
  <2> QED BY <2>1 DEF PackSolves
<1> HIDE DEF Solves
<1>6. \E it : Solves(it)
  BY <1>4, <1>5, PackHasFold
<1>7. PackSolves(fold, paragraphs, splits)
  BY <1>5, <1>6
<1> HIDE DEF fold
<1>8. PICK run : PackRun(run, paragraphs, splits) /\ fold[DOMAIN paragraphs] = run[n]
  BY <1>4, <1>7, PackFoldRuns
<1>9. IsSplit(Close(run[n]), FlattenSeq(paragraphs))
  BY <1>3, <1>8, PackedText
<1>10. \A k \in 0..n : run[k] \in Pieces /\ AllPacked(run[k])
  BY <1>3, <1>8, PackRunKeeps
<1> DEFINE G == {k \in 0..n : Joints(paragraphs, run[k])}
<1>11. 0 \in G
  <2>1. run[0] = Nothing /\ 0 \in 0..n
    BY <1>2, <1>8 DEF PackRun
  <2>2. Joints(paragraphs, Nothing)
    BY DEF Joints, AllApart, LastApart, Nothing
  <2> QED BY <2>1, <2>2
<1>12. ASSUME NEW k \in 0..(n - 1), k \in G PROVE k + 1 \in G
  <2>1. k + 1 \in 1..n /\ k + 1 \in 0..n /\ (k + 1) - 1 = k /\ k \in 0..n
    BY <1>2
  <2> DEFINE s == run[k]
  <2>2. run[k + 1] = Pack(s, paragraphs[k + 1], splits[k + 1])
    BY <1>8, <2>1 DEF PackRun
  <2>3. s \in Pieces /\ AllPacked(s) /\ Joints(paragraphs, s)
    BY <1>10, <1>12, <2>1
  <2> HIDE DEF s
  <2>4. IsSplit(splits[k + 1], paragraphs[k + 1])
    BY <1>3, <2>1
  <2>5. Joints(paragraphs, Pack(s, paragraphs[k + 1], splits[k + 1]))
    BY <2>1, <2>3, <2>4, PackKeepsJoints
  <2> QED BY <2>1, <2>2, <2>5
<1>13. n \in G
  <2> HIDE DEF G
  <2>1. \A k \in 0..n : k \in G
    BY <1>2, <1>11, <1>12, PrefixInduction
  <2> QED BY <1>2, <2>1
<1>14. AllApart(paragraphs, Close(run[n]))
  <2>1. n \in 0..n
    BY <1>2
  <2>2. Joints(paragraphs, run[n]) /\ run[n] \in Pieces
    BY <1>10, <1>13, <2>1
  <2> QED BY <2>2, CloseIsApart
<1> QED BY <1>1, <1>8, <1>9, <1>14

LEMMA LimitNat == ASSUME NEW chunk \in Text PROVE OverlapLimit(chunk) \in Nat
<1>1. Len(chunk) \in Nat /\ OverlapPercent \in Nat
  BY LenProperties, ChunkingAssumption DEF Text
<1> DEFINE a == Len(chunk) * OverlapPercent
<1>2. a \in Nat
  BY <1>1
<1> HIDE DEF a
<1>3. a \div 100 \in Int
  BY <1>2
<1> QED BY <1>3 DEF OverlapLimit, a

\* What is repeated is the end of the chunk before, within the limit.
LEMMA OverlapIsTail ==
  ASSUME NEW chunk \in Text
  PROVE  /\ Overlap(chunk) \in Text
         /\ IsSuffix(Overlap(chunk), chunk)
         /\ Len(Overlap(chunk)) <= OverlapLimit(chunk)
<1> DEFINE sentences == Sentences(chunk)
           n == Len(sentences)
           From(k) == FlattenSeq(SubSeq(sentences, k, n))
           tails == {From(k) : k \in DOMAIN sentences}
           short == {tail \in tails : Len(tail) <= OverlapLimit(chunk)}
           Longest(t) == \A u \in short : Len(u) <= Len(t)
           longest == CHOOSE t \in short : Longest(t)
<1>1. Overlap(chunk) = IF short = {} THEN <<>> ELSE longest
  BY DEF Overlap
<1>2. sentences \in Seq(Text) /\ FlattenSeq(sentences) = chunk /\ DOMAIN sentences = 1..n
  BY SentencesKeepText, LenProperties
<1>3. ASSUME NEW t \in tails
      PROVE  t \in Text /\ IsSuffix(t, chunk) /\ Len(t) \in Nat /\ Len(t) <= Len(chunk)
  <2>1. PICK k \in 1..n : t = From(k)
    BY <1>2
  <2> DEFINE front == FlattenSeq(SubSeq(sentences, 1, k - 1))
  <2> HIDE DEF sentences
  <2>2. front \in Seq(Nat) /\ t \in Seq(Nat) /\ chunk = front \o t
    BY <1>2, <2>1, FlattenTail DEF Text
  <2> HIDE DEF front
  <2>3. IsSuffix(t, front \o t) /\ Len(t) <= Len(front \o t)
    BY <2>2, SuffixOfConcat
  <2> QED BY <2>2, <2>3, LenProperties DEF Text
<1>4. OverlapLimit(chunk) \in Nat /\ Len(chunk) \in Nat
  BY LimitNat, LenProperties DEF Text
<1> HIDE DEF tails, Longest
<1>5. CASE short = {}
  <2>1. chunk \o <<>> = chunk /\ <<>> \in Text /\ Len(<<>>) = 0
    BY ConcatEmptySeq DEF Text
  <2>2. IsSuffix(<<>>, chunk \o <<>>)
    BY <2>1, SuffixOfConcat DEF Text
  <2> QED BY <1>1, <1>4, <1>5, <2>1, <2>2
<1>6. CASE short # {}
  <2> DEFINE T == {Len(chunk) - Len(t) : t \in short}
  <2>1. \A t \in short : t \in tails
    OBVIOUS
  <2> HIDE DEF short
  <2>2. T \subseteq Nat /\ T # {}
    BY <1>3, <1>4, <1>6, <2>1
  <2>3. PICK x \in T : \A y \in T : x <= y
    <3> HIDE DEF T
    <3> QED BY <2>2, LeastNumber
  <2>4. PICK t \in short : x = Len(chunk) - Len(t)
    BY <2>3
  <2>5. ASSUME NEW u \in short PROVE Len(u) <= Len(t)
    <3>1. Len(chunk) - Len(t) <= Len(chunk) - Len(u)
      BY <2>3, <2>4
    <3>2. Len(t) \in Nat /\ Len(u) \in Nat
      BY <1>3, <2>1
    <3> QED BY <1>4, <3>1, <3>2
  <2>6. Longest(t)
    BY <2>5 DEF Longest
  <2>7. longest \in short
    BY <2>6
  <2> HIDE DEF longest
  <2>8. Len(longest) <= OverlapLimit(chunk) /\ longest \in tails
    BY <2>7 DEF short
  <2> QED BY <1>1, <1>3, <1>6, <2>8
<1> QED BY <1>5, <1>6

\* For every value, whatever its paragraphs.
LEMMA ChunksCarryText ==
  ASSUME NEW paragraphs \in Seq(Text)
  PROVE  ChunksOf(paragraphs) \in Seq(Chunk) /\ KeepsText(paragraphs, ChunksOf(paragraphs))
<1> DEFINE packed == PackParagraphs(paragraphs)
           n == Len(packed)
           texts == [k \in DOMAIN ChunksOf(paragraphs) |-> ChunksOf(paragraphs)[k].text]
           c == ChunksOf(paragraphs)
<1>1. /\ packed \in Seq(Text) /\ FlattenSeq(packed) = FlattenSeq(paragraphs)
      /\ \A k \in 1..n : Packed(packed[k])
      /\ AllApart(paragraphs, packed)
  BY ParagraphsArePacked DEF IsSplit
<1>2. c = [k \in DOMAIN packed |->
             [overlap |-> IF k = 1 THEN <<>> ELSE Overlap(packed[k - 1]), text |-> packed[k]]]
  BY DEF ChunksOf, ApplyOverlap
<1> HIDE DEF packed, c
<1>3. n \in Nat /\ DOMAIN packed = 1..n /\ \A k \in 1..n : packed[k] \in Text
  BY <1>1, LenProperties, ElementOfSeq
<1>4. \A k \in 2..n : k - 1 \in 1..n /\ k \in 1..n
  BY <1>3
<1>5. ASSUME NEW k \in 1..n
      PROVE  /\ c[k].text = packed[k]
             /\ c[k].overlap = IF k = 1 THEN <<>> ELSE Overlap(packed[k - 1])
             /\ c[k] \in Chunk
  <2> DEFINE overlap == IF k = 1 THEN <<>> ELSE Overlap(packed[k - 1])
  <2>1. k # 1 => k - 1 \in 1..n
    BY <1>3
  <2>2. overlap \in Text
    <3>1. <<>> \in Text
      BY DEF Text
    <3> QED BY <1>3, <2>1, <3>1, OverlapIsTail
  <2>3. c[k] = [overlap |-> overlap, text |-> packed[k]]
    BY <1>2, <1>3
  <2> HIDE DEF overlap
  <2>4. c[k].text = packed[k] /\ c[k].overlap = overlap /\ c[k] \in Chunk
    BY <1>3, <2>2, <2>3 DEF Chunk, Text
  <2> QED BY <2>4 DEF overlap
<1>6. DOMAIN c = 1..n /\ c \in [1..n -> Chunk]
  BY <1>2, <1>3, <1>5
<1>7. c \in Seq(Chunk)
  BY <1>3, <1>6, SeqDef
<1>8. [k \in DOMAIN c |-> c[k].text] = packed
  <2>1. packed = [k \in 1..n |-> packed[k]]
    BY <1>1, <1>3
  <2>2. \A k \in 1..n : c[k].text = packed[k]
    BY <1>5
  <2> QED BY <1>6, <2>1, <2>2
<1>9. ASSUME NEW k \in 1..n
      PROVE  /\ Len(c[k].text) > Target => \A i \in 2..Len(c[k].text) : c[k].text[i] \notin Stops
             /\ IF k = 1 THEN c[k].overlap = <<>>
                ELSE /\ IsSuffix(c[k].overlap, c[k - 1].text)
                     /\ Len(c[k].overlap) <= OverlapLimit(c[k - 1].text)
                     /\ \/ Len(c[k - 1].text) + Len(c[k].text) > Target
                        \/ \E p \in DOMAIN paragraphs :
                             /\ Len(paragraphs[p]) > Target
                             /\ Range(paragraphs[p]) \intersect
                                  (Range(c[k - 1].text) \union Range(c[k].text)) # {}
  <2>1. c[k].text = packed[k] /\ Packed(packed[k])
    BY <1>1, <1>5
  <2>2. k = 1 => c[k].overlap = <<>>
    BY <1>5
  <2>3. ASSUME k # 1
        PROVE  /\ IsSuffix(c[k].overlap, c[k - 1].text)
               /\ Len(c[k].overlap) <= OverlapLimit(c[k - 1].text)
               /\ Apart(paragraphs, c[k - 1].text, c[k].text)
    <3>1. k - 1 \in 1..n /\ k \in 2..n
      BY <1>3, <2>3
    <3>2. c[k - 1].text = packed[k - 1] /\ c[k].overlap = Overlap(packed[k - 1])
      BY <1>5, <2>3, <3>1
    <3>3. Apart(paragraphs, packed[k - 1], packed[k])
      BY <1>1, <3>1 DEF AllApart
    <3>4. packed[k - 1] \in Text
      BY <1>3, <3>1
    <3> QED BY <2>1, <3>2, <3>3, <3>4, OverlapIsTail
  <2>4. ASSUME NEW a, NEW b, Over(paragraphs, a) \/ Over(paragraphs, b)
        PROVE  \E p \in DOMAIN paragraphs :
                 /\ Len(paragraphs[p]) > Target
                 /\ Range(paragraphs[p]) \intersect (Range(a) \union Range(b)) # {}
    BY <2>4 DEF Over
  <2> QED BY <2>1, <2>2, <2>3, <2>4 DEF Packed, Apart
<1>10. KeepsText(paragraphs, c)
  BY <1>1, <1>6, <1>8, <1>9 DEF KeepsText
<1> QED BY <1>7, <1>10 DEF c

\* A plan is a sequence of chunks.
LEMMA PlanType ==
  ASSUME NEW r \in Records
  PROVE  PlanOf(r) \in Seq(Chunk)
<1> DEFINE plans == [v \in DOMAIN r.values |-> ChunksOf(r.values[v].paragraphs)]
<1>1. r.values \in Seq(Values)
  BY EmbedAssumption
<1>2. Len(r.values) \in Nat /\ DOMAIN r.values = 1..Len(r.values)
  BY <1>1, LenProperties
<1>3. ASSUME NEW v \in 1..Len(r.values) PROVE ChunksOf(r.values[v].paragraphs) \in Seq(Chunk)
  <2>1. r.values[v] \in Values
    BY <1>1, ElementOfSeq
  <2>2. r.values[v].paragraphs \in Seq(Text)
    BY <2>1 DEF Values, Text
  <2> QED BY <2>2, ChunksCarryText
<1>4. plans \in [1..Len(r.values) -> Seq(Chunk)]
  BY <1>2, <1>3
<1>5. plans \in Seq(Seq(Chunk))
  BY <1>2, <1>4, SeqDef
<1> HIDE DEF plans
<1>6. FlattenSeq(plans) \in Seq(Chunk)
  BY <1>5, FlattenType
<1> QED BY <1>6 DEF PlanOf, plans

-----------------------------------------------------------------------------
(* The steps of the run. *)

PlanTypeOK ==
  /\ chunks \in Seq(Chunk)
  /\ rest \in Seq(Chunk)
  /\ batch \in Seq(Chunk)
  /\ vectors \in Seq(Chunk)

Fresh == rest = <<>> /\ batch = <<>> /\ vectors = <<>> /\ chunks = <<>>

\* What holds of the record's ingest at each of its steps.
StepOK ==
  /\ pc \in {"idle", "read", "embed", "end"}
  /\ Calling => pc = "embed"
  /\ pc \in {"idle", "read"} => Fresh
  /\ pc # "end" => result = "none"
  /\ pc \in {"read", "embed"} => record \in Records
  /\ pc = "embed" => ~MissingProvenance(record)

EmbedInv == PlanTypeOK /\ StepOK /\ WithinCaps /\ VectorsMatchInputs

LEMMA HeadAndTail ==
  ASSUME NEW S, NEW r \in Seq(S), r # <<>>
  PROVE  <<Head(r)>> \o Tail(r) = r
<1> DEFINE h == Head(r)
           t == Tail(r)
<1>1. /\ h \in S /\ t \in Seq(S)
      /\ Len(t) = Len(r) - 1
      /\ \A i \in 1..Len(t) : t[i] = r[i + 1]
  BY HeadTailProperties
<1>2. h = r[1] /\ Len(r) \in Nat \ {0}
  BY HeadTailProperties
<1>3. <<h>> \in Seq(S) /\ Len(<<h>>) = 1 /\ <<h>>[1] = h
  BY <1>1
<1> HIDE DEF h, t
<1>4. /\ <<h>> \o t \in Seq(S)
      /\ Len(<<h>> \o t) = Len(r)
      /\ \A i \in 1..Len(r) : (<<h>> \o t)[i] = IF i <= 1 THEN <<h>>[i] ELSE t[i - 1]
  BY <1>1, <1>2, <1>3, ConcatProperties
<1>5. \A i \in 1..Len(r) : (<<h>> \o t)[i] = r[i]
  BY <1>1, <1>2, <1>3, <1>4
<1>6. <<h>> \o t = r
  BY <1>4, <1>5, SeqEqual
<1> QED BY <1>6 DEF h, t

LEMMA FourParts ==
  \A S : \A v, b, o, t \in Seq(S) :
    Joined(Joined(v, Joined(b, o)), t) = Joined(Joined(v, b), Joined(o, t))
BY JoinedAssociative

\* Taking the next chunk into the batch leaves the order of all chunks.
LEMMA TakeKeepsOrder ==
  ASSUME NEW S, NEW v \in Seq(S), NEW b \in Seq(S), NEW r \in Seq(S), r # <<>>
  PROVE  /\ Append(b, Head(r)) \in Seq(S)
         /\ Tail(r) \in Seq(S)
         /\ Joined(Joined(v, Append(b, Head(r))), Tail(r)) = Joined(Joined(v, b), r)
<1>1. Head(r) \in S /\ Tail(r) \in Seq(S)
  BY HeadTailProperties
<1>2. Append(b, Head(r)) = b \o <<Head(r)>> /\ Append(b, Head(r)) \in Seq(S)
  BY <1>1, AppendIsConcat, AppendProperties
<1> DEFINE one == <<Head(r)>>
           left == Tail(r)
<1>3. one \in Seq(S) /\ left \in Seq(S)
  BY <1>1
<1>4. Joined(one, left) = r
  BY HeadAndTail DEF Joined
<1> HIDE DEF one, left
<1>5. Joined(Joined(v, Joined(b, one)), left) = Joined(Joined(v, b), r)
  BY <1>3, <1>4, FourParts
<1>6. Append(b, Head(r)) = Joined(b, one)
  BY <1>2 DEF Joined, one
<1>7. Joined(Joined(v, Append(b, Head(r))), Tail(r)) = Joined(Joined(v, b), r)
  BY <1>5, <1>6, Zenon DEF left
<1> QED BY <1>1, <1>2, <1>7, Zenon

\* Nothing is lost when the vectors of a batch come.
LEMMA ReplyKeepsOrder ==
  ASSUME NEW S, NEW v \in Seq(S), NEW b \in Seq(S), NEW r \in Seq(S)
  PROVE  v \o b \in Seq(S) /\ (v \o b) \o <<>> \o r = v \o b \o r
BY ConcatProperties, ConcatEmptySeq

LEMMA InitEmbed == Init => EmbedInv
<1> SUFFICES ASSUME Init PROVE EmbedInv
  OBVIOUS
<1>1. PlanTypeOK
  BY DEF Init, PlanTypeOK
<1>2. StepOK
  BY DEF Init, StepOK, Fresh, CallInit, NoCall, Calling
<1>3. WithinCaps
  BY EmbedAssumption DEF Init, WithinCaps
<1>4. VectorsMatchInputs
  BY DEF Init, VectorsMatchInputs
<1> QED BY <1>1, <1>2, <1>3, <1>4 DEF EmbedInv

\* Each step keeps the invariant.
LEMMA NextEmbed == EmbedInv /\ [Next]_vars => EmbedInv'
<1> SUFFICES ASSUME EmbedInv, [Next]_vars PROVE EmbedInv'
  OBVIOUS
<1> USE DEF EmbedInv
<1>1. CASE Read
  BY <1>1 DEF Read, PlanTypeOK, StepOK, Fresh, Calling, callVars, WithinCaps, VectorsMatchInputs
<1>2. CASE Refuse
  BY <1>2 DEF Refuse, End, PlanTypeOK, StepOK, Fresh, Calling, callVars, WithinCaps,
              VectorsMatchInputs
<1>3. CASE PlanRecord
  <2>1. /\ chunks' \in Seq(Chunk) /\ rest' = chunks'
        /\ batch' = <<>> /\ vectors' = <<>>
    BY <1>3, PlanType DEF PlanRecord, StepOK, Fresh
  <2>2. <<>> \o <<>> \o chunks' = chunks'
    BY <2>1
  <2> QED
    BY <1>3, <2>1, <2>2 DEF PlanRecord, PlanTypeOK, StepOK, Fresh, Calling, callVars, WithinCaps,
                            VectorsMatchInputs
<1>4. CASE Take
  <2>1. /\ batch' \in Seq(Chunk) /\ rest' \in Seq(Chunk)
        /\ vectors \o batch' \o rest' = vectors \o batch \o rest
    <3>1. vectors \in Seq(Chunk) /\ batch \in Seq(Chunk) /\ rest \in Seq(Chunk)
      BY DEF PlanTypeOK
    <3>2. /\ rest # <<>> /\ batch' = Append(batch, Head(rest)) /\ rest' = Tail(rest)
          /\ vectors' = vectors
      BY <1>4 DEF Take
    <3>3. /\ Append(batch, Head(rest)) \in Seq(Chunk) /\ Tail(rest) \in Seq(Chunk)
          /\ Joined(Joined(vectors, Append(batch, Head(rest))), Tail(rest))
               = Joined(Joined(vectors, batch), rest)
      BY <3>1, <3>2, TakeKeepsOrder
    <3>4. Joined(Joined(vectors, batch'), rest') = Joined(Joined(vectors, batch), rest)
      BY <3>2, <3>3, Zenon
    <3> QED BY <3>2, <3>3, <3>4 DEF Joined
  <2>2. PlanTypeOK' /\ StepOK'
    BY <1>4, <2>1 DEF Take, PlanTypeOK, StepOK, Fresh, Gathering, Calling, callVars
  <2>3. WithinCaps'
    <3>1. Len(batch') = Len(batch) + 1 /\ Len(batch) \in Nat
      BY <1>4 DEF Take, PlanTypeOK
    <3>2. Fits(Len(batch), tokens, Head(rest))
      BY <1>4 DEF Take, BatchFull
    <3>3. tokens' = tokens + InputTokens(Head(rest))
      BY <1>4 DEF Take
    <3> QED BY <3>1, <3>2, <3>3, EmbedAssumption DEF Fits, WithinCaps
  <2>4. VectorsMatchInputs'
    BY <1>4, <2>1 DEF Take, Gathering, StepOK, VectorsMatchInputs
  <2> QED BY <2>2, <2>3, <2>4
<1>5. CASE SendBatch
  BY <1>5 DEF SendBatch, Gathering, PlanTypeOK, StepOK, Fresh, WithinCaps, VectorsMatchInputs
<1>6. CASE Embedded
  <2>1. /\ vectors' \in Seq(Chunk) /\ batch' = <<>>
        /\ vectors' \o batch' \o rest = vectors \o batch \o rest
    BY <1>6, ReplyKeepsOrder DEF Embedded, PlanTypeOK
  <2>2. pc = "embed"
    BY <1>6 DEF Embedded, Replied, StepOK, Calling
  <2>3. PlanTypeOK' /\ StepOK' /\ WithinCaps'
    BY <1>6, <2>1, <2>2, EmbedAssumption
    DEF Embedded, HangUp, NoCall, PlanTypeOK, StepOK, Fresh, Calling, WithinCaps
  <2>4. VectorsMatchInputs'
    BY <1>6, <2>1, <2>2 DEF Embedded, StepOK, VectorsMatchInputs
  <2> QED BY <2>3, <2>4
<1>7. CASE Redial
  BY <1>7 DEF Redial, runVars, PlanTypeOK, StepOK, Fresh, WithinCaps, VectorsMatchInputs
<1>8. CASE EmbeddingFails
  <2>1. call' = NoCall
    BY <1>8 DEF EmbeddingFails, CallFails, Exhausted, FinalFailure, Malformed, InvalidTwice, HangUp
  <2> QED
    BY <1>8, <2>1 DEF EmbeddingFails, End, NoCall, PlanTypeOK, StepOK, Fresh, Calling, WithinCaps,
                      VectorsMatchInputs
<1>9. CASE WriteRecord
  <2>1. vectors \o <<>> \o <<>> = vectors
    BY DEF PlanTypeOK
  <2> QED
    BY <1>9, <2>1 DEF WriteRecord, End, Gathering, PlanTypeOK, StepOK, Fresh, Calling, callVars,
                      WithinCaps, VectorsMatchInputs
<1>10. CASE NextRecord
  BY <1>10, EmbedAssumption
  DEF NextRecord, PlanTypeOK, StepOK, Fresh, Calling, callVars, WithinCaps, VectorsMatchInputs
<1>11. CASE UNCHANGED vars
  BY <1>11 DEF vars, runVars, callVars, PlanTypeOK, StepOK, Fresh, Calling, WithinCaps,
               VectorsMatchInputs
<1> QED
  BY <1>1, <1>2, <1>3, <1>4, <1>5, <1>6, <1>7, <1>8, <1>9, <1>10, <1>11 DEF Next

LEMMA EmbedInvariant == Spec => []EmbedInv
BY InitEmbed, NextEmbed, PTL DEF Spec

\* No batch passes a cap unless a single input does (AC-7), for all caps.
THEOREM BatchesWithinCaps == Spec => []WithinCaps
<1>1. EmbedInv => WithinCaps
  BY DEF EmbedInv
<1> QED BY <1>1, EmbedInvariant, PTL

\* Every chunk of a written record has its own vector, whatever the batches
\* and the failures of the provider; a failed record keeps none.
THEOREM VectorsAreOfTheirChunks == Spec => []VectorsMatchInputs
<1>1. EmbedInv => VectorsMatchInputs
  BY DEF EmbedInv
<1> QED BY <1>1, EmbedInvariant, PTL

\* The chunks of every value carry its text whole and in order, repeat only
\* the end of the chunk before within the limit, pass the target only where a
\* piece cannot be split, and are apart for a reason: for every text.
THEOREM ChunksKeepAllText == Spec => []ChunksKeepText
<1>1. EmbedInv => ChunksKeepText
  <2>1. SUFFICES ASSUME EmbedInv, pc = "embed", NEW v \in DOMAIN record.values
                 PROVE  KeepsText(record.values[v].paragraphs, ChunksOf(record.values[v].paragraphs))
    BY DEF ChunksKeepText
  <2>2. record \in Records
    BY <2>1 DEF EmbedInv, StepOK
  <2>3. record.values \in Seq(Values)
    BY <2>2, EmbedAssumption
  <2>4. record.values[v] \in Values
    BY <2>3, LenProperties, ElementOfSeq
  <2>5. record.values[v].paragraphs \in Seq(Text)
    BY <2>4 DEF Values, Text
  <2> QED BY <2>5, ChunksCarryText
<1> QED BY <1>1, EmbedInvariant, PTL

-----------------------------------------------------------------------------
(* The two loops over the inputs agree. *)

Count == [count : Nat, size : Nat, sum : Nat]

Counting(s, c) ==
  IF Fits(s.size, s.sum, c)
    THEN [s EXCEPT !.size = @ + 1, !.sum = @ + InputTokens(c)]
    ELSE [count |-> s.count + 1, size |-> 1, sum |-> InputTokens(c)]

NoCount == [count |-> 0, size |-> 0, sum |-> 0]

CountStep(plan) == [vk \in Count \X (1..Len(plan)) |-> Counting(vk[1], plan[vk[2]])]

Counted(f) == IF f.size > 0 THEN f.count + 1 ELSE f.count

LEMMA InputTokensNat == ASSUME NEW c \in Chunk PROVE InputTokens(c) \in Nat
  BY ChunkingAssumption DEF Chunk, InputTokens

LEMMA CountingType == ASSUME NEW s \in Count, NEW c \in Chunk PROVE Counting(s, c) \in Count
<1>1. s.count + 1 \in Nat /\ s.size + 1 \in Nat /\ s.sum + InputTokens(c) \in Nat
  BY InputTokensNat DEF Count
<1>2. \A a, b \in Nat : /\ [s EXCEPT !.size = a, !.sum = b] \in Count
                        /\ [count |-> a, size |-> 1, sum |-> b] \in Count
  BY DEF Count
<1> QED BY <1>1, <1>2, InputTokensNat DEF Counting

LEMMA BatchCountFold ==
  ASSUME NEW plan \in Seq(Chunk)
  PROVE  \E f : /\ Repeats(f, CountStep(plan), NoCount, Count, Len(plan))
                /\ BatchCount(plan) = Counted(f[Len(plan)])
<1> DEFINE n == Len(plan)
           step == CountStep(plan)
           Solves(it) == it = [s \in SUBSET DOMAIN plan |->
                                IF s = {} THEN NoCount ELSE Counting(it[s \ {Max(s)}], plan[Max(s)])]
           fold == CHOOSE it : Solves(it)
           f == [k \in 0..n |-> fold[1..k]]
<1>1. n \in Nat /\ DOMAIN plan = 1..n /\ NoCount \in Count
  BY LenProperties DEF NoCount, Count
<1>2. step \in Steps(Count, n)
  BY CountingType, ElementOfSeq DEF CountStep, Steps
<1>3. PICK it : SolvesFold(it, step, NoCount, Count, n)
  <2> HIDE DEF step
  <2> QED BY <1>1, <1>2, FoldHasValue
<1>4. Solves(it)
  <2>1. ASSUME NEW s \in SUBSET (1..n), s # {}
        PROVE  it[s] = Counting(it[s \ {Max(s)}], plan[Max(s)])
    <3>1. Max(s) \in 1..n /\ s \ {Max(s)} \in SUBSET (1..n)
      BY <1>1, <2>1, MaxOfPrefix
    <3>2. it[s \ {Max(s)}] \in Count
      BY <1>3, <3>1 DEF SolvesFold
    <3> QED BY <1>3, <2>1, <3>1, <3>2 DEF CountStep, SolvesFold
  <2> HIDE DEF n
  <2> QED BY <1>1, <1>3, <2>1 DEF SolvesFold
<1>5. Solves(fold)
  <2> HIDE DEF Solves
  <2> QED BY <1>4
<1>6. BatchCount(plan) = Counted(fold[DOMAIN plan])
  BY DEF BatchCount, FoldLeft, MapThenFoldSet, Counted, Counting, NoCount
<1> HIDE DEF fold
<1>7. Repeats(f, step, NoCount, Count, n)
  <2>1. \A s \in SUBSET (1..n) : s = {} => fold[s] = NoCount
    BY <1>5, <1>1
  <2>2. ASSUME NEW k \in 1..n, fold[(1..k) \ {k}] \in Count
        PROVE  fold[1..k] = step[<<fold[(1..k) \ {k}], k>>]
    <3>1. 1..k \in SUBSET (1..n) /\ 1..k # {} /\ Max(1..k) = k
      BY <1>1, PrefixWithoutMax
    <3>2. fold[1..k] = Counting(fold[(1..k) \ {k}], plan[k])
      BY <1>1, <1>5, <3>1
    <3> QED BY <2>2, <3>2 DEF CountStep
  <2> HIDE DEF step
  <2>3. OnPrefixes(fold, step, NoCount, Count, n)
    BY <2>1, <2>2 DEF OnPrefixes
  <2> QED BY <1>1, <1>2, <2>3, FoldOnPrefixes
<1>8. BatchCount(plan) = Counted(f[n])
  BY <1>1, <1>6
<1> QED BY <1>7, <1>8

CountRun(plan) ==
  CHOOSE f : /\ Repeats(f, CountStep(plan), NoCount, Count, Len(plan))
             /\ BatchCount(plan) = Counted(f[Len(plan)])

LEMMA CountRunRepeats ==
  ASSUME NEW plan \in Seq(Chunk)
  PROVE  /\ CountRun(plan) \in [0..Len(plan) -> Count]
         /\ CountRun(plan)[0] = NoCount
         /\ \A k \in 1..Len(plan) : CountRun(plan)[k] = Counting(CountRun(plan)[k - 1], plan[k])
         /\ BatchCount(plan) = Counted(CountRun(plan)[Len(plan)])
<1> DEFINE f == CountRun(plan)
           n == Len(plan)
<1>1. Repeats(f, CountStep(plan), NoCount, Count, n) /\ BatchCount(plan) = Counted(f[n])
  BY BatchCountFold DEF CountRun
<1> HIDE DEF f
<1>2. f \in [0..n -> Count] /\ f[0] = NoCount
  BY <1>1 DEF Repeats
<1>3. ASSUME NEW k \in 1..n PROVE f[k] = Counting(f[k - 1], plan[k])
  <2>1. f[k] = CountStep(plan)[<<f[k - 1], k>>] /\ f[k - 1] \in Count
    BY <1>1, <1>2 DEF Repeats
  <2> QED BY <2>1 DEF CountStep
<1> QED BY <1>1, <1>2, <1>3 DEF f

\* The count never falls, and a batch is open once a chunk was counted.
LEMMA CountRunGrows ==
  ASSUME NEW plan \in Seq(Chunk)
  PROVE  \A k \in 0..Len(plan) :
           /\ k > 0 => CountRun(plan)[k].size > 0
           /\ Counted(CountRun(plan)[k]) \in Nat
           /\ Counted(CountRun(plan)[k]) <= BatchCount(plan)
<1> DEFINE f == CountRun(plan)
           n == Len(plan)
           G == {d \in 0..n : Counted(f[n - d]) <= Counted(f[n])}
<1>1. /\ f \in [0..n -> Count] /\ f[0] = NoCount /\ n \in Nat
      /\ \A k \in 1..n : f[k] = Counting(f[k - 1], plan[k])
      /\ BatchCount(plan) = Counted(f[n])
  BY CountRunRepeats
<1> HIDE DEF f
<1>2. ASSUME NEW k \in 0..n
      PROVE  f[k].size \in Nat /\ f[k].count \in Nat /\ Counted(f[k]) \in Nat
  BY <1>1 DEF Count, Counted
<1>3. ASSUME NEW k \in 1..n
      PROVE  f[k].size > 0 /\ Counted(f[k - 1]) <= Counted(f[k])
  <2>1. f[k] = Counting(f[k - 1], plan[k]) /\ f[k - 1] \in Count /\ k - 1 \in 0..n
    BY <1>1
  <2> DEFINE s == f[k - 1]
             t == f[k]
  <2>2. /\ t = Counting(s, plan[k]) /\ s \in Count
    BY <2>1
  <2> HIDE DEF s, t
  <2>3. \/ t.size = s.size + 1 /\ t.count = s.count
        \/ t.size = 1 /\ t.count = s.count + 1
    BY <2>2 DEF Counting, Count
  <2>4. s.size \in Nat /\ s.count \in Nat
    BY <2>2 DEF Count
  <2>5. t.size > 0 /\ Counted(s) <= Counted(t)
    BY <2>3, <2>4 DEF Counted
  <2> QED BY <2>5 DEF s, t
<1>4. \A d \in 0..n : d \in G
  <2>1. 0 \in G
    BY <1>2
  <2>2. ASSUME NEW d \in 0..(n - 1), d \in G PROVE d + 1 \in G
    <3>1. n - d \in 1..n /\ d + 1 \in 0..n /\ n - (d + 1) = (n - d) - 1
          /\ n - d \in 0..n /\ (n - d) - 1 \in 0..n
      OBVIOUS
    <3>2. Counted(f[(n - d) - 1]) <= Counted(f[n - d])
      BY <1>3, <3>1
    <3>3. Counted(f[n - d]) <= Counted(f[n])
      BY <2>2
    <3>4. /\ Counted(f[(n - d) - 1]) \in Nat /\ Counted(f[n - d]) \in Nat
          /\ Counted(f[n]) \in Nat
      BY <1>1, <1>2, <3>1
    <3>5. Counted(f[n - (d + 1)]) <= Counted(f[n])
      BY <3>1, <3>2, <3>3, <3>4
    <3> QED BY <3>1, <3>5
  <2> HIDE DEF G
  <2> QED BY <1>1, <2>1, <2>2, PrefixInduction
<1>5. ASSUME NEW k \in 0..n PROVE Counted(f[k]) <= Counted(f[n])
  <2>1. n - k \in 0..n /\ n - (n - k) = k
    OBVIOUS
  <2> QED BY <1>4, <2>1
<1>6. \A k \in 0..n : k > 0 => k \in 1..n
  OBVIOUS
<1>7. \A k \in 0..n : /\ k > 0 => f[k].size > 0
                      /\ Counted(f[k]) \in Nat /\ Counted(f[k]) <= BatchCount(plan)
  BY <1>1, <1>2, <1>3, <1>5, <1>6
<1> QED BY <1>7 DEF f

\* The run of the count after the chunks that were taken.
CountAfter(p) == CountRun(chunks)[p]

\* The next chunk does not fit into the batch that was counted last.
FullAfter(p) == rest # <<>> => ~Fits(CountAfter(p).size, CountAfter(p).sum, Head(rest))

\* The run of the calls against the run of the count, after p chunks: an open
\* batch is counted and not sent, a sent one is counted with the next chunk.
InStep(p) ==
  /\ rest = SubSeq(chunks, p + 1, Len(chunks))
  /\ batch = <<>> =>
       /\ ~Calling /\ tokens = 0
       /\ p = 0 => calls = 0
       /\ p > 0 => calls = CountAfter(p).count + 1 /\ FullAfter(p)
  /\ batch # <<>> =>
       /\ p > 0 /\ CountAfter(p).size = Len(batch) /\ CountAfter(p).sum = tokens
       /\ Calling => calls = CountAfter(p).count + 1 /\ FullAfter(p)
       /\ ~Calling => calls = CountAfter(p).count

SpendInv ==
  /\ calls \in Nat /\ preview \in Nat
  /\ calls <= preview
  /\ result = "current" => calls = preview
  /\ pc \in {"idle", "read"} => calls = 0 /\ preview = 0 /\ tokens = 0
  /\ pc = "embed" => preview = BatchCount(chunks) /\ \E p \in 0..Len(chunks) : InStep(p)

\* What the run of the count is on the chunks of the record.
LEMMA CountOfChunks ==
  ASSUME chunks \in Seq(Chunk)
  PROVE  /\ BatchCount(chunks) \in Nat
         /\ CountAfter(0) = NoCount
         /\ \A p \in 1..Len(chunks) : CountAfter(p) = Counting(CountAfter(p - 1), chunks[p])
         /\ \A p \in 0..Len(chunks) :
              /\ CountAfter(p) \in Count
              /\ p > 0 => CountAfter(p).size > 0 /\ CountAfter(p).count + 1 <= BatchCount(chunks)
         /\ Len(chunks) > 0 => BatchCount(chunks) = CountAfter(Len(chunks)).count + 1
         /\ Len(chunks) = 0 => BatchCount(chunks) = 0
<1> DEFINE f == CountRun(chunks)
           n == Len(chunks)
<1>1. /\ f \in [0..n -> Count] /\ f[0] = NoCount /\ n \in Nat
      /\ \A p \in 1..n : f[p] = Counting(f[p - 1], chunks[p])
      /\ BatchCount(chunks) = Counted(f[n])
  BY CountRunRepeats
<1>2. \A p \in 0..n : /\ p > 0 => f[p].size > 0
                      /\ Counted(f[p]) \in Nat /\ Counted(f[p]) <= BatchCount(chunks)
  BY CountRunGrows
<1> HIDE DEF f, n
<1>3. \A p \in 0..n : p > 0 => f[p].size > 0 /\ Counted(f[p]) = f[p].count + 1
  BY <1>2 DEF Counted
<1>4. n = 0 => BatchCount(chunks) = 0
  BY <1>1 DEF NoCount, Counted
<1>5. n \in 0..n /\ 0 \in 0..n
  BY <1>1
<1>6. BatchCount(chunks) \in Nat
  BY <1>1, <1>2, <1>5
<1>7. \A p \in 0..n : f[p] \in Count
  BY <1>1
<1>8. \A p \in 0..n : p > 0 => f[p].size > 0 /\ f[p].count + 1 <= BatchCount(chunks)
  BY <1>2, <1>3
<1>9. n > 0 => BatchCount(chunks) = f[n].count + 1
  BY <1>1, <1>3, <1>5
<1> QED BY <1>1, <1>4, <1>6, <1>7, <1>8, <1>9, Zenon DEF f, n, CountAfter

\* Calls that are in step stay within the preview, and reach it at the end.
LEMMA InStepSpends ==
  ASSUME chunks \in Seq(Chunk), batch \in Seq(Chunk), NEW p \in 0..Len(chunks), InStep(p)
  PROVE  /\ calls \in Nat /\ calls <= BatchCount(chunks)
         /\ rest = <<>> => p = Len(chunks)
         /\ rest = <<>> /\ batch = <<>> => calls = BatchCount(chunks)
<1>1. rest = <<>> => p = Len(chunks)
  <2>1. \A i \in (p + 1)..Len(chunks) : chunks[i] \in Chunk
    BY ElementOfSeq
  <2>2. Len(rest) = IF p + 1 <= Len(chunks) THEN Len(chunks) - (p + 1) + 1 ELSE 0
    BY <2>1, SubSeqProperties DEF InStep
  <2> QED BY <2>2
<1> DEFINE c == CountAfter(p).count
           b == BatchCount(chunks)
<1>2. c \in Nat /\ b \in Nat /\ (p > 0 => c + 1 <= b)
  BY CountOfChunks DEF Count
<1>3. p = Len(chunks) => b = IF p > 0 THEN c + 1 ELSE 0
  BY CountOfChunks
<1>4. /\ batch = <<>> => IF p = 0 THEN calls = 0 ELSE calls = c + 1
      /\ batch # <<>> => p > 0 /\ (calls = c + 1 \/ calls = c)
  BY DEF InStep
<1> HIDE DEF c, b
<1>5. calls \in Nat /\ calls <= b
  BY <1>2, <1>4
<1>6. rest = <<>> /\ batch = <<>> => calls = b
  BY <1>1, <1>3, <1>4
<1> QED BY <1>1, <1>5, <1>6 DEF b

\* Taking the next chunk is a step of the count.
LEMMA TakeInStep ==
  ASSUME PlanTypeOK, EmbedAssumption, NEW p \in 0..Len(chunks), InStep(p), Take
  PROVE  p + 1 \in 0..Len(chunks) /\ InStep(p + 1)'
<1> DEFINE h == Head(rest)
           s == CountAfter(p)
           t == CountAfter(p + 1)
<1>1. /\ ~Calling /\ rest # <<>> /\ Fits(Len(batch), tokens, h) /\ rest' = Tail(rest)
      /\ batch' = Append(batch, h) /\ tokens' = tokens + InputTokens(h)
      /\ chunks' = chunks /\ calls' = calls /\ ~Calling'
  BY DEF Take, Gathering, BatchFull, callVars, Calling
<1>2. chunks \in Seq(Chunk) /\ batch \in Seq(Chunk)
  BY DEF PlanTypeOK
<1>3. p + 1 \in 1..Len(chunks)
  <2>1. p + 1 > Len(chunks) => rest = <<>>
    BY <1>2, SubSeqEmpty DEF InStep
  <2> QED BY <1>1, <1>2, <2>1
<1>4. h = chunks[p + 1] /\ rest' = SubSeq(chunks, p + 2, Len(chunks)) /\ h \in Chunk
  <2>1. Len(chunks) \in (p + 1)..Len(chunks) /\ (p + 1) + 1 = p + 2
    BY <1>2, <1>3
  <2>2. rest = SubSeq(chunks, p + 1, Len(chunks))
    BY DEF InStep
  <2> QED BY <1>1, <1>2, <1>3, <2>1, <2>2, HeadTailOfSubSeq, ElementOfSeq
<1>5. t = Counting(s, h) /\ s \in Count
  <2>1. (p + 1) - 1 = p
    OBVIOUS
  <2> QED BY <1>2, <1>3, <1>4, <2>1, CountOfChunks
<1>6. Len(batch') = Len(batch) + 1 /\ batch' # <<>> /\ Len(batch) \in Nat
  BY <1>1, <1>2, <1>4
<1>7. t.size = Len(batch') /\ t.sum = tokens' /\ calls = t.count
  <2>1. InputTokens(h) \in Nat
    BY <1>4, InputTokensNat
  <2>2. CASE batch # <<>>
    <3>1. s.size = Len(batch) /\ s.sum = tokens /\ calls = s.count
      BY <1>1, <2>2 DEF InStep
    <3> HIDE DEF s, t, h
    <3>2. t.size = s.size + 1 /\ t.sum = s.sum + InputTokens(h) /\ t.count = s.count
      BY <1>1, <1>5, <3>1 DEF Counting, Count
    <3> QED BY <1>1, <1>6, <3>1, <3>2
  <2>3. CASE batch = <<>> /\ p = 0
    <3>1. s = NoCount /\ calls = 0 /\ tokens = 0
      BY <1>2, <2>3, CountOfChunks DEF InStep
    <3> HIDE DEF s, t, h
    <3>2. t.size = 1 /\ t.sum = InputTokens(h) /\ t.count = 0
      BY <1>5, <2>1, <3>1 DEF Counting, NoCount, Fits
    <3> QED BY <1>1, <1>6, <2>1, <2>3, <3>1, <3>2
  <2>4. CASE batch = <<>> /\ p > 0
    <3>1. calls = s.count + 1 /\ tokens = 0 /\ ~Fits(s.size, s.sum, h)
      BY <1>1, <2>4 DEF InStep, FullAfter
    <3> HIDE DEF s, t, h
    <3>2. t.size = 1 /\ t.sum = InputTokens(h) /\ t.count = s.count + 1
      BY <1>5, <3>1 DEF Counting
    <3> QED BY <1>1, <1>6, <2>1, <2>4, <3>1, <3>2
  <2> QED BY <2>2, <2>3, <2>4
<1>8. CountAfter(p + 1)' = CountAfter(p + 1)
  BY <1>1 DEF CountAfter
<1>9. (p + 1) + 1 = p + 2 /\ p + 1 > 0
  OBVIOUS
<1>10. rest' = SubSeq(chunks', (p + 1) + 1, Len(chunks'))
  BY <1>1, <1>4, <1>9
<1> HIDE DEF t
<1>11. t = CountAfter(p + 1)'
  BY <1>8 DEF t
<1>12. InStep(p + 1)'
  BY <1>1, <1>6, <1>7, <1>9, <1>10, <1>11 DEF InStep
<1> QED BY <1>3, <1>12

LEMMA InitSpend == Init => SpendInv
BY DEF Init, SpendInv

LEMMA NextSpend == EmbedInv /\ EmbedInv' /\ SpendInv /\ [Next]_vars => SpendInv'
<1> SUFFICES ASSUME EmbedInv, EmbedInv', SpendInv, [Next]_vars PROVE SpendInv'
  OBVIOUS
<1> USE EmbedAssumption
<1>0. PlanTypeOK /\ PlanTypeOK' /\ StepOK
  BY DEF EmbedInv
<1>1. CASE Read
  BY <1>1 DEF Read, SpendInv
<1>2. CASE Refuse
  BY <1>2 DEF Refuse, End, SpendInv
<1>3. CASE PlanRecord
  <2>1. /\ chunks' \in Seq(Chunk) /\ rest' = chunks' /\ batch' = <<>> /\ tokens' = 0
        /\ calls' = 0 /\ preview' = BatchCount(chunks') /\ pc' = "embed" /\ ~Calling'
        /\ result' = "none"
    BY <1>0, <1>3 DEF PlanRecord, PlanTypeOK, StepOK, Fresh, SpendInv, Calling, callVars
  <2>2. rest' = SubSeq(chunks', 0 + 1, Len(chunks'))
    BY <2>1, SubSeqFull
  <2>3. InStep(0)'
    BY <2>1, <2>2 DEF InStep
  <2>4. BatchCount(chunks') \in Nat
    <3> DEFINE plan == chunks'
    <3>1. Len(plan) \in 0..Len(plan) /\ plan \in Seq(Chunk)
      BY <2>1
    <3> HIDE DEF plan
    <3>2. CountRun(plan)[Len(plan)] \in Count /\ BatchCount(plan) = Counted(CountRun(plan)[Len(plan)])
      BY <3>1, CountRunRepeats
    <3>3. Counted(CountRun(plan)[Len(plan)]) \in Nat
      BY <3>1, CountRunGrows
    <3> QED BY <3>2, <3>3 DEF plan
  <2>5. 0 \in 0..Len(chunks')
    BY <2>1
  <2> QED BY <2>1, <2>3, <2>4, <2>5 DEF SpendInv
<1>4. CASE Take
  <2>1. /\ pc = "embed" /\ pc' = pc /\ preview' = preview /\ calls' = calls /\ result' = result
        /\ chunks' = chunks
    BY <1>4 DEF Take, Gathering
  <2>2. PICK p \in 0..Len(chunks) : InStep(p)
    BY <2>1 DEF SpendInv
  <2>3. p + 1 \in 0..Len(chunks) /\ InStep(p + 1)'
    BY <1>0, <1>4, <2>2, TakeInStep
  <2> QED BY <2>1, <2>3 DEF SpendInv
<1>5. CASE SendBatch
  <2>1. /\ pc = "embed" /\ pc' = pc /\ preview' = preview /\ calls' = calls + 1
        /\ result' = result /\ result = "none" /\ ~Calling /\ Calling' /\ BatchFull /\ batch # <<>>
        /\ chunks' = chunks /\ rest' = rest /\ batch' = batch /\ tokens' = tokens
    BY <1>0, <1>5 DEF SendBatch, Gathering, Calling, Dial, StepOK
  <2>2. PICK p \in 0..Len(chunks) : InStep(p)
    BY <2>1 DEF SpendInv
  <2>3. FullAfter(p)
    BY <2>1, <2>2 DEF InStep, FullAfter, BatchFull
  <2>4. InStep(p)'
    BY <2>1, <2>2, <2>3 DEF InStep, FullAfter, CountAfter
  <2>5. chunks' \in Seq(Chunk) /\ batch' \in Seq(Chunk) /\ p \in 0..Len(chunks')
    BY <1>0, <2>1 DEF PlanTypeOK
  <2>6. calls + 1 \in Nat /\ calls + 1 <= BatchCount(chunks)
    <3>1. CountAfter(p) \in Count /\ CountAfter(p).count + 1 <= BatchCount(chunks)
      BY <1>0, <2>1, <2>2, CountOfChunks DEF PlanTypeOK, InStep
    <3>2. calls = CountAfter(p).count
      BY <2>1, <2>2 DEF InStep
    <3> QED BY <3>1, <3>2 DEF Count
  <2> QED BY <2>1, <2>4, <2>5, <2>6 DEF SpendInv
<1>6. CASE Embedded
  <2>1. /\ pc = "embed" /\ pc' = pc /\ preview' = preview /\ calls' = calls /\ Calling
        /\ result' = result /\ ~Calling' /\ chunks' = chunks /\ rest' = rest /\ batch' = <<>>
        /\ tokens' = 0
    BY <1>0, <1>6 DEF Embedded, Replied, HangUp, Calling, NoCall, StepOK
  <2>2. PICK p \in 0..Len(chunks) : InStep(p)
    BY <2>1 DEF SpendInv
  <2>3. InStep(p)'
    BY <2>1, <2>2 DEF InStep, FullAfter, CountAfter
  <2> QED BY <2>1, <2>2, <2>3 DEF SpendInv
<1>7. CASE Redial
  <2>1. UNCHANGED runVars /\ Calling /\ Calling'
    BY <1>7 DEF Redial, Retry, Calling
  <2>2. ASSUME NEW p, InStep(p) PROVE InStep(p)'
    BY <2>1, <2>2 DEF InStep, FullAfter, CountAfter, runVars
  <2> QED BY <2>1, <2>2 DEF SpendInv, runVars
<1>8. CASE EmbeddingFails
  BY <1>8 DEF EmbeddingFails, End, SpendInv
<1>9. CASE WriteRecord
  <2>1. /\ pc = "embed" /\ pc' = "end" /\ preview' = preview /\ calls' = calls
        /\ rest = <<>> /\ batch = <<>> /\ result' = "current"
    BY <1>9 DEF WriteRecord, Gathering, End
  <2>2. PICK p \in 0..Len(chunks) : InStep(p)
    BY <2>1 DEF SpendInv
  <2>3. calls = BatchCount(chunks)
    BY <1>0, <2>1, <2>2, InStepSpends DEF PlanTypeOK
  <2> QED BY <2>1, <2>3 DEF SpendInv
<1>10. CASE NextRecord
  BY <1>10 DEF NextRecord, SpendInv
<1>11. CASE UNCHANGED vars
  <2>1. ASSUME NEW p, InStep(p) PROVE InStep(p)'
    BY <1>11, <2>1 DEF InStep, FullAfter, CountAfter, vars, runVars, callVars, Calling
  <2> QED BY <1>11, <2>1 DEF SpendInv, vars, runVars
<1> QED
  BY <1>1, <1>2, <1>3, <1>4, <1>5, <1>6, <1>7, <1>8, <1>9, <1>10, <1>11 DEF Next

\* The batches stay within the caps and a record that is written cost exactly
\* the calls that the dry run counts for it, for all caps and all records.
THEOREM SpendIsAsPreviewed == Spec => []SpendAsPreviewed
<1>1. EmbedInv /\ SpendInv => SpendAsPreviewed
  BY DEF EmbedInv, SpendInv, SpendAsPreviewed
<1>2. Spec => []SpendInv
  BY InitSpend, NextSpend, EmbedInvariant, PTL DEF Spec
<1> QED BY <1>1, <1>2, EmbedInvariant, PTL
=============================================================================
