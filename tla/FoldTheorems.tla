----------------------------- MODULE FoldTheorems -----------------------------
(***************************************************************************)
(* Facts about the folds and the finite sequences that the models are      *)
(* built from.  A fold over a sequence is a recursion on the sets of its   *)
(* indices; that the recursion has a solution, and what it is on the       *)
(* prefixes of the sequence, is proved here from the least element of a    *)
(* set of numbers.  A proof about a fold then names the value after each   *)
(* element and carries its invariant from one prefix to the next.          *)
(***************************************************************************)
EXTENDS SequencesExt, FiniteSetTheorems, SequenceTheorems, WellFoundedInduction, TLAPS

\* A set of natural numbers that is not empty has a least number.
LEMMA LeastNumber ==
  ASSUME NEW T, T \subseteq Nat, T # {}
  PROVE  \E x \in T : \A y \in T : x <= y
<1> DEFINE R == OpToRel(<, Nat)
<1>1. IsWellFoundedOn(R, Nat)
  BY NatLessThanWellFounded
<1>2. \A x, y \in Nat : x < y => <<x, y>> \in R
  BY DEF OpToRel
<1> HIDE DEF R
<1>3. PICK x \in T : \A y \in T : ~(<<y, x>> \in R)
  BY <1>1, WFMin
<1>4. \A y \in T : ~(y < x)
  BY <1>2, <1>3
<1> QED BY <1>4

\* A set of numbers up to n that holds 0 and with each number the next one
\* holds them all: the induction every proof about a fold uses.
LEMMA PrefixInduction ==
  ASSUME NEW n \in Nat, NEW G, 0 \in G, \A k \in 0..(n - 1) : k \in G => k + 1 \in G
  PROVE  \A k \in 0..n : k \in G
<1> DEFINE T == (0..n) \ G
<1>1. SUFFICES ASSUME T # {} PROVE FALSE
  OBVIOUS
<1>2. T \subseteq Nat
  OBVIOUS
<1>3. PICK x \in T : \A y \in T : x <= y
  <2> HIDE DEF T
  <2> QED BY <1>1, <1>2, LeastNumber
<1>4. x # 0 /\ x \in 0..n /\ x - 1 \in 0..(n - 1) /\ x - 1 \notin T
  BY <1>3
<1>5. x - 1 \in G
  BY <1>4
<1>6. x - 1 + 1 \in G /\ x - 1 + 1 = x
  BY <1>4, <1>5
<1> QED BY <1>3, <1>6

\* One step on the values of S for each number up to n.
Steps(S, n) == [S \X (1..n) -> S]

\* f repeats the step from a base.
Repeats(f, step, base, S, n) ==
  /\ f \in [0..n -> S]
  /\ f[0] = base
  /\ \A k \in 1..n : f[k] = step[<<f[k - 1], k>>]

LEMMA RepeatsFacts ==
  ASSUME NEW n \in Nat, NEW S, NEW base, NEW step, NEW f, Repeats(f, step, base, S, n)
  PROVE  /\ f[0] = base
         /\ \A k \in 0..n : f[k] \in S
         /\ \A k \in 1..n : /\ f[k - 1] \in S /\ <<f[k - 1], k>> \in S \X (1..n)
                            /\ f[k] = step[<<f[k - 1], k>>]
<1>1. f \in [0..n -> S] /\ f[0] = base /\ \A k \in 1..n : f[k] = step[<<f[k - 1], k>>]
  BY DEF Repeats
<1>2. \A k \in 1..n : k - 1 \in 0..n
  OBVIOUS
<1> QED BY <1>1, <1>2

\* A step on the values of a set can be repeated from any base.
LEMMA Recursion ==
  ASSUME NEW n \in Nat, NEW S, NEW base \in S, NEW step \in Steps(S, n)
  PROVE  \E f : Repeats(f, step, base, S, n)
<1> USE DEF Steps, Repeats
<1> DEFINE Solves(f, m) == f[0] = base /\ \A k \in 1..m : f[k] = step[<<f[k - 1], k>>]
           G == {m \in 0..n : \E f \in [0..m -> S] : Solves(f, m)}
<1>1. 0 \in G
  <2>1. [k \in 0..0 |-> base] \in [0..0 -> S]
    OBVIOUS
  <2>2. Solves([k \in 0..0 |-> base], 0)
    OBVIOUS
  <2> HIDE DEF Solves
  <2>3. \E f \in [0..0 -> S] : Solves(f, 0)
    BY <2>1, <2>2
  <2> QED BY <2>3
<1>2. ASSUME NEW m \in 0..(n - 1), m \in G PROVE m + 1 \in G
  <2>1. PICK f \in [0..m -> S] : Solves(f, m)
    BY <1>2
  <2> DEFINE g == [k \in 0..(m + 1) |-> IF k <= m THEN f[k] ELSE step[<<f[m], m + 1>>]]
  <2>2. m + 1 \in 1..n /\ f[m] \in S
    OBVIOUS
  <2>3. g \in [0..(m + 1) -> S]
    BY <2>2
  <2>4. \A k \in 0..m : g[k] = f[k]
    OBVIOUS
  <2>5. g[m + 1] = step[<<f[m], m + 1>>]
    OBVIOUS
  <2> HIDE DEF g
  <2>6. ASSUME NEW k \in 1..(m + 1) PROVE g[k] = step[<<g[k - 1], k>>]
    <3>1. CASE k \in 1..m
      <4>1. k - 1 \in 0..m /\ k \in 0..m
        BY <3>1
      <4> QED BY <2>1, <2>4, <3>1, <4>1
    <3>2. CASE k = m + 1
      <4>1. k - 1 = m /\ m \in 0..m
        BY <3>2
      <4> QED BY <2>4, <2>5, <3>2, <4>1
    <3> QED BY <3>1, <3>2
  <2>7. g[0] = base
    BY <2>1, <2>4
  <2> QED BY <2>2, <2>3, <2>6, <2>7
<1>3. \A k \in 0..n : k \in G
  <2> HIDE DEF G
  <2> QED BY <1>1, <1>2, PrefixInduction
<1> QED BY <1>3

\* Two such repetitions that take the same steps up to m agree up to m.
LEMMA RecursionAgrees ==
  ASSUME NEW n \in Nat, NEW m \in 0..n, NEW f, NEW g, f[0] = g[0],
         \A k \in 1..m : f[k - 1] = g[k - 1] => f[k] = g[k]
  PROVE  f[m] = g[m]
<1> DEFINE G == {k \in 0..m : f[k] = g[k]}
<1>1. 0 \in G /\ \A k \in 0..(m - 1) : k \in G => k + 1 \in G
  <2>1. ASSUME NEW k \in 0..(m - 1), k \in G PROVE k + 1 \in G
    <3>1. k + 1 \in 1..m /\ f[(k + 1) - 1] = g[(k + 1) - 1]
      BY <2>1
    <3> QED BY <3>1
  <2> QED BY <2>1
<1> HIDE DEF G
<1>2. m \in Nat
  OBVIOUS
<1>3. \A k \in 0..m : k \in G
  BY <1>1, <1>2, PrefixInduction
<1>4. m \in G
  BY <1>2, <1>3
<1> QED BY <1>4 DEF G

\* The largest of some of the numbers up to n.
LEMMA MaxOfPrefix ==
  ASSUME NEW n \in Nat, NEW s \in SUBSET (1..n), s # {}
  PROVE  Max(s) \in s /\ \A k \in s : k <= Max(s)
<1> DEFINE T == {n - k : k \in s}
<1>1. T \subseteq Nat /\ T # {}
  <2>1. \A k \in s : n - k \in Nat
    OBVIOUS
  <2> QED BY <2>1
<1>2. PICK x \in T : \A y \in T : x <= y
  <2> HIDE DEF T
  <2> QED BY <1>1, LeastNumber
<1>3. PICK m \in s : x = n - m
  BY <1>2
<1>4. \A k \in s : m >= k
  BY <1>2, <1>3
<1>5. Max(s) \in s /\ \A k \in s : Max(s) >= k
  BY <1>3, <1>4 DEF Max
<1> QED BY <1>5

\* The largest number of a prefix, and the prefix without it.
LEMMA PrefixWithoutMax ==
  ASSUME NEW k \in Nat \ {0}
  PROVE  1..k # {} /\ Max(1..k) = k /\ (1..k) \ {k} = 1..(k - 1)
<1>1. 1..k # {} /\ k \in 1..k
  OBVIOUS
<1>2. Max(1..k) \in 1..k /\ k <= Max(1..k)
  BY <1>1, MaxOfPrefix
<1> QED BY <1>1, <1>2

\* A step that skips the numbers outside a set.
SkippingOutside(s, step, S, n) ==
  [vk \in S \X (1..n) |-> IF vk[2] \in s THEN step[vk] ELSE vk[1]]

LEMMA RecursionOnSubset ==
  ASSUME NEW n \in Nat, NEW S, NEW base \in S, NEW step \in Steps(S, n), NEW s
  PROVE  \E f : Repeats(f, SkippingOutside(s, step, S, n), base, S, n)
<1> DEFINE skip == SkippingOutside(s, step, S, n)
<1>1. skip \in Steps(S, n)
  BY DEF SkippingOutside, Steps
<1> HIDE DEF skip
<1>2. \E f : Repeats(f, skip, base, S, n)
  BY <1>1, Recursion
<1> QED BY <1>2 DEF skip

\* What is repeated then.
Skips(f, s, step, base, S, n) ==
  /\ f \in [0..n -> S]
  /\ f[0] = base
  /\ \A k \in 1..n : f[k] = IF k \in s THEN step[<<f[k - 1], k>>] ELSE f[k - 1]

LEMMA SkippedSteps ==
  ASSUME NEW n \in Nat, NEW S, NEW base, NEW step \in Steps(S, n), NEW s,
         NEW f, Repeats(f, SkippingOutside(s, step, S, n), base, S, n)
  PROVE  Skips(f, s, step, base, S, n)
<1> DEFINE skip == SkippingOutside(s, step, S, n)
<1>1. ASSUME NEW k \in 1..n
      PROVE  f[k] = IF k \in s THEN step[<<f[k - 1], k>>] ELSE f[k - 1]
  <2>1. f[k - 1] \in S
    BY DEF Repeats
  <2>2. f[k] = skip[<<f[k - 1], k>>]
    BY DEF Repeats
  <2>3. <<f[k - 1], k>> \in S \X (1..n)
    BY <2>1
  <2>4. skip[<<f[k - 1], k>>] = IF k \in s THEN step[<<f[k - 1], k>>] ELSE f[k - 1]
    BY <2>3 DEF SkippingOutside
  <2> QED BY <2>2, <2>4
<1>2. f \in [0..n -> S] /\ f[0] = base
  BY DEF Repeats
<1> QED BY <1>1, <1>2 DEF Skips

\* The recursion on the sets of indices by which a fold is defined, and its
\* effect on the prefixes 1..k.
SolvesFold(it, step, base, S, n) ==
  /\ it \in [SUBSET (1..n) -> S]
  /\ \A s \in SUBSET (1..n) :
       it[s] = IF s = {} THEN base ELSE step[<<it[s \ {Max(s)}], Max(s)>>]

OnPrefixes(it, step, base, S, n) ==
  /\ \A s \in SUBSET (1..n) : s = {} => it[s] = base
  /\ \A k \in 1..n : it[(1..k) \ {k}] \in S => it[1..k] = step[<<it[(1..k) \ {k}], k>>]

\* The recursion has a solution.
LEMMA FoldHasValue ==
  ASSUME NEW n \in Nat, NEW S, NEW base \in S, NEW step \in Steps(S, n)
  PROVE  \E it : SolvesFold(it, step, base, S, n)
<1> DEFINE
      Run(s) == CHOOSE f : Repeats(f, SkippingOutside(s, step, S, n), base, S, n)
      it == [s \in SUBSET (1..n) |-> Run(s)[n]]
<1>1. \A s : \E f : Repeats(f, SkippingOutside(s, step, S, n), base, S, n)
  BY RecursionOnSubset
<1>2. \A s : Repeats(Run(s), SkippingOutside(s, step, S, n), base, S, n)
  BY <1>1
<1> HIDE DEF Run
<1>3. \A s : Skips(Run(s), s, step, base, S, n)
  BY <1>2, SkippedSteps
<1>4. \A s : Run(s)[0] = base /\ Run(s) \in [0..n -> S]
  BY <1>3 DEF Skips
<1>5. it \in [SUBSET (1..n) -> S]
  BY <1>4
<1>6. ASSUME NEW s, NEW m \in 0..n, \A k \in s : k <= m
      PROVE  Run(s)[n] = Run(s)[m]
  <2> DEFINE f == Run(s)
             G == {d \in 0..(n - m) : f[m + d] = f[m]}
  <2>1. 0 \in G
    OBVIOUS
  <2>2. ASSUME NEW d \in 0..((n - m) - 1), d \in G PROVE d + 1 \in G
    <3>1. m + d + 1 \in 1..n /\ (m + d + 1) - 1 = m + d /\ d + 1 \in 0..(n - m)
          /\ m + (d + 1) = m + d + 1
      OBVIOUS
    <3>2. m + d + 1 \notin s
      BY <1>6, <3>1
    <3>3. f[m + d + 1] = f[m + d]
      <4> DEFINE k == m + d + 1
      <4>1. k \in 1..n /\ k \notin s /\ k - 1 = m + d
        BY <3>1, <3>2
      <4> HIDE DEF k, f
      <4>2. f[k] = f[k - 1]
        BY <1>3, <4>1 DEF f, Skips
      <4> QED BY <4>1, <4>2 DEF k
    <3>4. f[m + d] = f[m]
      BY <2>2
    <3> QED BY <3>1, <3>3, <3>4
  <2> HIDE DEF G
  <2>3. n - m \in Nat
    OBVIOUS
  <2>4. \A k \in 0..(n - m) : k \in G
    BY <2>1, <2>2, <2>3, PrefixInduction
  <2>5. n - m \in G
    BY <2>3, <2>4
  <2>6. m + (n - m) = n
    OBVIOUS
  <2> QED BY <2>5, <2>6 DEF G
<1>7. ASSUME NEW s \in SUBSET (1..n)
      PROVE  it[s] = IF s = {} THEN base ELSE step[<<it[s \ {Max(s)}], Max(s)>>]
  <2>1. CASE s = {}
    <3>1. Run(s)[n] = Run(s)[0]
      BY <1>6, <2>1
    <3> QED BY <1>4, <2>1, <3>1
  <2>2. CASE s # {}
    <3> DEFINE m == Max(s)
               t == s \ {m}
    <3>1. m \in s /\ m \in 1..n /\ \A k \in s : k <= m
      BY <2>2, MaxOfPrefix
    <3> HIDE DEF m
    <3>2. t \in SUBSET (1..n) /\ m \notin t /\ \A k \in 1..n : k # m => (k \in t <=> k \in s)
      OBVIOUS
    <3> HIDE DEF t
    <3>3. Run(t)[m - 1] = Run(s)[m - 1]
      <4> DEFINE f == Run(t)
                 g == Run(s)
      <4>1. f[0] = g[0]
        BY <1>4
      <4>2. ASSUME NEW k \in 1..(m - 1), f[k - 1] = g[k - 1] PROVE f[k] = g[k]
        <5>1. k \in 1..n /\ k # m
          BY <3>1
        <5>2. k \in t <=> k \in s
          BY <3>2, <5>1
        <5> HIDE DEF f, g
        <5>3. f[k] = IF k \in t THEN step[<<f[k - 1], k>>] ELSE f[k - 1]
          BY <1>3, <5>1 DEF f, Skips
        <5>4. g[k] = IF k \in s THEN step[<<g[k - 1], k>>] ELSE g[k - 1]
          BY <1>3, <5>1 DEF g, Skips
        <5> QED BY <5>2, <5>3, <5>4, <4>2
      <4>3. m - 1 \in 0..n
        BY <3>1
      <4> HIDE DEF f, g
      <4>4. f[m - 1] = g[m - 1]
        BY <4>1, <4>2, <4>3, RecursionAgrees
      <4> QED BY <4>4 DEF f, g
    <3>4. Run(t)[n] = Run(t)[m - 1]
      <4>1. m - 1 \in 0..n /\ \A k \in t : k <= m - 1
        BY <3>1, <3>2
      <4> QED BY <1>6, <4>1
    <3>5. Run(s)[n] = Run(s)[m]
      <4>1. m \in 0..n
        BY <3>1
      <4> QED BY <1>6, <3>1, <4>1
    <3>6. Run(s)[m] = step[<<Run(s)[m - 1], m>>]
      BY <1>3, <3>1 DEF Skips
    <3>7. it[s] = step[<<it[t], m>>]
      BY <3>2, <3>3, <3>4, <3>5, <3>6
    <3> QED BY <2>2, <3>7 DEF m, t
  <2> QED BY <2>1, <2>2
<1> HIDE DEF it
<1>8. SolvesFold(it, step, base, S, n)
  BY <1>5, <1>7 DEF SolvesFold
<1> QED BY <1>8

\* What solves that recursion repeats the step along the prefixes 1..k.
LEMMA FoldOnPrefixes ==
  ASSUME NEW n \in Nat, NEW S, NEW base \in S, NEW step \in Steps(S, n), NEW it,
         OnPrefixes(it, step, base, S, n)
  PROVE  Repeats([k \in 0..n |-> it[1..k]], step, base, S, n)
<1> DEFINE f == [k \in 0..n |-> it[1..k]]
           G == {k \in 0..n : f[k] \in S}
<1> USE DEF OnPrefixes
<1>1. f[0] = base
  OBVIOUS
<1>2. ASSUME NEW k \in 1..n, f[k - 1] \in S PROVE f[k] = step[<<f[k - 1], k>>] /\ f[k] \in S
  <2>1. k \in Nat \ {0} /\ k - 1 \in 0..n /\ k \in 0..n
    OBVIOUS
  <2>2. f[k - 1] = it[(1..k) \ {k}] /\ f[k] = it[1..k]
    BY <2>1, PrefixWithoutMax
  <2>3. f[k] = step[<<f[k - 1], k>>]
    <3> HIDE DEF f
    <3> QED BY <2>2, <1>2
  <2> HIDE DEF f
  <2>4. step[<<f[k - 1], k>>] \in S
    BY <1>2 DEF Steps
  <2> QED BY <2>3, <2>4
<1>3. \A k \in 0..n : k \in G
  <2>1. 0 \in G
    BY <1>1
  <2>2. ASSUME NEW k \in 0..(n - 1), k \in G PROVE k + 1 \in G
    <3>1. k + 1 \in 1..n /\ (k + 1) - 1 = k /\ k + 1 \in 0..n
      OBVIOUS
    <3> HIDE DEF f
    <3> QED BY <1>2, <2>2, <3>1
  <2> HIDE DEF G
  <2> QED BY <2>1, <2>2, PrefixInduction
<1>4. f \in [0..n -> S]
  BY <1>3
<1>5. \A k \in 1..n : f[k] = step[<<f[k - 1], k>>]
  <2>1. ASSUME NEW k \in 1..n PROVE f[k] = step[<<f[k - 1], k>>]
    <3>1. k - 1 \in 0..n
      OBVIOUS
    <3>2. f[k - 1] \in S
      BY <1>3, <3>1
    <3> HIDE DEF f
    <3> QED BY <1>2, <3>2
  <2> QED BY <2>1
<1> HIDE DEF f
<1>6. Repeats(f, step, base, S, n)
  BY <1>1, <1>4, <1>5 DEF Repeats
<1> QED BY <1>6 DEF f

-----------------------------------------------------------------------------
(* Sequences of sequences, joined. *)

FlattenStep(seqs, S) == [vk \in Seq(S) \X (1..Len(seqs)) |-> vk[1] \o seqs[vk[2]]]

LEMMA FlattenFold ==
  ASSUME NEW S, NEW seqs \in Seq(Seq(S))
  PROVE  \E f : /\ Repeats(f, FlattenStep(seqs, S), <<>>, Seq(S), Len(seqs))
                /\ FlattenSeq(seqs) = f[Len(seqs)]
<1> DEFINE n == Len(seqs)
           step == FlattenStep(seqs, S)
           Solves(g) == g = [i \in 1..n |-> IF i = 1 THEN seqs[i] ELSE g[i - 1] \o seqs[i]]
           flatten == CHOOSE g : Solves(g)
<1>1. n \in Nat /\ <<>> \in Seq(S) /\ \A i \in 1..n : seqs[i] \in Seq(S)
  BY LenProperties, EmptySeq, ElementOfSeq
<1>2. step \in Steps(Seq(S), n)
  <2>1. \A v \in Seq(S), k \in 1..n : v \o seqs[k] \in Seq(S)
    BY <1>1, ConcatProperties
  <2> QED BY <2>1 DEF FlattenStep, Steps
<1>3. PICK f : Repeats(f, step, <<>>, Seq(S), n)
  <2> HIDE DEF step
  <2> QED BY <1>1, <1>2, Recursion
<1>4. f \in [0..n -> Seq(S)] /\ f[0] = <<>> /\ \A k \in 1..n : f[k] = f[k - 1] \o seqs[k]
  <2>1. f \in [0..n -> Seq(S)] /\ f[0] = <<>>
    BY <1>3 DEF Repeats
  <2>2. ASSUME NEW k \in 1..n PROVE f[k] = f[k - 1] \o seqs[k]
    <3>1. /\ <<f[k - 1], k>> \in Seq(S) \X (1..n)
          /\ f[k] = step[<<f[k - 1], k>>]
      <4> HIDE DEF step
      <4> QED BY <1>1, <1>3, RepeatsFacts
    <3> QED BY <3>1 DEF FlattenStep
  <2> QED BY <2>1, <2>2
<1> DEFINE h == [i \in 1..n |-> f[i]]
<1>5. Solves(h)
  <2>1. ASSUME NEW i \in 1..n
        PROVE  f[i] = IF i = 1 THEN seqs[i] ELSE h[i - 1] \o seqs[i]
    <3>1. CASE i = 1
      <4>1. f[1] = <<>> \o seqs[1]
        <5>1. 1 \in 1..n /\ 1 - 1 = 0
          BY <1>1, <3>1
        <5>2. f[1] = f[1 - 1] \o seqs[1]
          BY <1>4, <5>1
        <5> QED BY <1>4, <5>1, <5>2
      <4>2. <<>> \o seqs[1] = seqs[1]
        BY <1>1, <3>1, ConcatEmptySeq
      <4> QED BY <3>1, <4>1, <4>2
    <3>2. CASE i # 1
      <4>1. i - 1 \in 1..n
        BY <3>2
      <4> QED BY <1>4, <3>2, <4>1
    <3> QED BY <3>1, <3>2
  <2> QED BY <2>1
<1>6. Solves(flatten)
  <2> HIDE DEF Solves
  <2> QED BY <1>5
<1>7. n = 0 => FlattenSeq(seqs) = f[n]
  <2>1. n = 0 => seqs = <<>>
    BY EmptySeq
  <2> QED BY <1>4, <2>1 DEF FlattenSeq
<1>8. n # 0 => FlattenSeq(seqs) = flatten[n]
  BY DEF FlattenSeq
<1> HIDE DEF flatten
<1>9. n # 0 => flatten[n] = f[n]
  <2>1. SUFFICES ASSUME n # 0 PROVE flatten[n] = f[n]
    OBVIOUS
  <2> DEFINE G == {k \in 0..n : k > 0 => flatten[k] = f[k]}
  <2>2. 0 \in G
    BY <1>1
  <2>3. ASSUME NEW k \in 0..(n - 1), k \in G PROVE k + 1 \in G
    <3>1. k + 1 \in 1..n /\ (k + 1) - 1 = k /\ k + 1 \in 0..n
      OBVIOUS
    <3>2. flatten[k + 1] = IF k + 1 = 1 THEN seqs[k + 1] ELSE flatten[k] \o seqs[k + 1]
      BY <1>6, <3>1
    <3>3. f[k + 1] = IF k + 1 = 1 THEN seqs[k + 1] ELSE f[k] \o seqs[k + 1]
      <4>1. f[k + 1] = IF k + 1 = 1 THEN seqs[k + 1] ELSE h[k] \o seqs[k + 1]
        BY <1>5, <3>1
      <4> QED BY <3>1, <4>1
    <3>4. k + 1 # 1 => flatten[k] = f[k]
      BY <2>3
    <3> QED BY <3>1, <3>2, <3>3, <3>4
  <2> HIDE DEF G
  <2>4. n \in G
    <3>1. \A k \in 0..n : k \in G
      BY <1>1, <2>2, <2>3, PrefixInduction
    <3> QED BY <1>1, <3>1
  <2> QED BY <1>1, <2>1, <2>4 DEF G
<1>10. FlattenSeq(seqs) = f[n]
  BY <1>7, <1>8, <1>9
<1> QED BY <1>3, <1>10

LEMMA FlattenType ==
  ASSUME NEW S, NEW seqs \in Seq(Seq(S))
  PROVE  FlattenSeq(seqs) \in Seq(S)
<1>1. PICK f : /\ Repeats(f, FlattenStep(seqs, S), <<>>, Seq(S), Len(seqs))
               /\ FlattenSeq(seqs) = f[Len(seqs)]
  BY FlattenFold
<1> QED BY <1>1, LenProperties DEF Repeats

\* Joined with one more sequence at the end.
LEMMA FlattenAppend ==
  ASSUME NEW S, NEW seqs \in Seq(Seq(S)), NEW seq \in Seq(S)
  PROVE  FlattenSeq(Append(seqs, seq)) = FlattenSeq(seqs) \o seq
<1> DEFINE more == Append(seqs, seq)
           n == Len(seqs)
<1>1. /\ n \in Nat /\ more \in Seq(Seq(S)) /\ Len(more) = n + 1 /\ more[n + 1] = seq
      /\ \A k \in 1..n : more[k] = seqs[k]
  BY LenProperties, AppendProperties
<1>2. PICK f : Repeats(f, FlattenStep(seqs, S), <<>>, Seq(S), n) /\ FlattenSeq(seqs) = f[n]
  BY FlattenFold
<1> HIDE DEF more
<1>3. PICK g : /\ Repeats(g, FlattenStep(more, S), <<>>, Seq(S), n + 1)
               /\ FlattenSeq(more) = g[n + 1]
  BY <1>1, FlattenFold
<1>4. f \in [0..n -> Seq(S)] /\ f[0] = <<>> /\ \A k \in 1..n : f[k] = f[k - 1] \o seqs[k]
  <2>1. f \in [0..n -> Seq(S)] /\ f[0] = <<>>
    BY <1>2 DEF Repeats
  <2>2. ASSUME NEW k \in 1..n PROVE f[k] = f[k - 1] \o seqs[k]
    <3>1. /\ <<f[k - 1], k>> \in Seq(S) \X (1..n)
          /\ f[k] = FlattenStep(seqs, S)[<<f[k - 1], k>>]
      BY <1>1, <1>2, RepeatsFacts
    <3> QED BY <3>1 DEF FlattenStep
  <2> QED BY <2>1, <2>2
<1>5. /\ g \in [0..(n + 1) -> Seq(S)] /\ g[0] = <<>>
      /\ \A k \in 1..(n + 1) : g[k] = g[k - 1] \o more[k]
  <2>1. g \in [0..(n + 1) -> Seq(S)] /\ g[0] = <<>>
    BY <1>3 DEF Repeats
  <2>2. ASSUME NEW k \in 1..(n + 1) PROVE g[k] = g[k - 1] \o more[k]
    <3>1. /\ <<g[k - 1], k>> \in Seq(S) \X (1..(n + 1))
          /\ g[k] = FlattenStep(more, S)[<<g[k - 1], k>>]
      <4>1. n + 1 \in Nat
        BY <1>1
      <4> QED BY <1>3, <4>1, RepeatsFacts
    <3> QED BY <1>1, <3>1 DEF FlattenStep
  <2> QED BY <2>1, <2>2
<1>6. g[n] = f[n]
  <2>1. ASSUME NEW k \in 1..n, g[k - 1] = f[k - 1] PROVE g[k] = f[k]
    <3>1. k \in 1..(n + 1) /\ more[k] = seqs[k]
      BY <1>1
    <3> QED BY <1>4, <1>5, <2>1, <3>1
  <2>2. g[0] = f[0] /\ n \in 0..n
    BY <1>1, <1>4, <1>5
  <2> QED BY <1>1, <2>1, <2>2, RecursionAgrees
<1>7. g[n + 1] = g[n] \o more[n + 1]
  <2>1. n + 1 \in 1..(n + 1) /\ (n + 1) - 1 = n
    BY <1>1
  <2> QED BY <1>5, <2>1
<1>8. FlattenSeq(more) = FlattenSeq(seqs) \o seq
  BY <1>1, <1>2, <1>3, <1>6, <1>7
<1> QED BY <1>8 DEF more

LEMMA FlattenEmpty == FlattenSeq(<<>>) = <<>>
BY DEF FlattenSeq

\* Concatenation as an operator of its own: it spares the provers the search
\* that every \o in an obligation starts.
Joined(s, t) == s \o t

LEMMA JoinedAssociative ==
  ASSUME NEW S, NEW s \in Seq(S), NEW t \in Seq(S), NEW u \in Seq(S)
  PROVE  /\ Joined(s, t) \in Seq(S)
         /\ Joined(Joined(s, t), u) = Joined(s, Joined(t, u))
<1>1. s \o t \in Seq(S)
  BY ConcatProperties
<1>2. (s \o t) \o u = s \o (t \o u)
  BY ConcatAssociative
<1> QED BY <1>1, <1>2, Zenon DEF Joined

\* Joining the two parts of a sequence of sequences.
LEMMA FlattenConcat ==
  ASSUME NEW S, NEW a \in Seq(Seq(S)), NEW b \in Seq(Seq(S))
  PROVE  FlattenSeq(a \o b) = FlattenSeq(a) \o FlattenSeq(b)
<1> DEFINE n == Len(b)
           Part(k) == SubSeq(b, 1, k)
           Splits(k) == FlattenSeq(a \o Part(k)) = FlattenSeq(a) \o FlattenSeq(Part(k))
           G == {k \in 0..n : Splits(k)}
<1>1. n \in Nat /\ FlattenSeq(a) \in Seq(S)
  BY LenProperties, FlattenType
<1>2. \A k \in 0..n : Part(k) \in Seq(Seq(S))
  BY <1>1, SubSeqProperties, ElementOfSeq
<1>3. 0 \in G
  <2>1. Part(0) = <<>>
    BY SubSeqEmpty
  <2>2. a \o <<>> = a /\ FlattenSeq(a) \o <<>> = FlattenSeq(a)
    BY <1>1, ConcatEmptySeq
  <2>3. FlattenSeq(a \o Part(0)) = FlattenSeq(a) \o FlattenSeq(Part(0))
    BY <2>1, <2>2, FlattenEmpty, Zenon
  <2> HIDE DEF Part
  <2> QED BY <1>1, <2>3
<1>4. ASSUME NEW k \in 0..(n - 1), k \in G PROVE k + 1 \in G
  <2> DEFINE p == Part(k)
             e == b[k + 1]
  <2>1. k + 1 \in 1..n /\ k \in 0..n /\ (k + 1) - 1 = k /\ 1 \in 1..n /\ k + 1 \in 0..n
    BY <1>1
  <2>2. e \in Seq(S) /\ p \in Seq(Seq(S))
    BY <1>2, <2>1, ElementOfSeq
  <2>3. Part(k + 1) = Append(p, e)
    <3>1. SubSeq(b, 1, k + 1) = SubSeq(b, 1, (k + 1) - 1) \o <<b[k + 1]>>
      <4>1. k + 1 \in 1..Len(b) /\ 1 \in 1..Len(b)
        BY <2>1
      <4> QED BY <4>1, SubSeqRecursiveSecond
    <3>2. Append(p, e) = p \o <<e>>
      <4> HIDE DEF p, e
      <4> QED BY <2>2, AppendIsConcat
    <3> QED BY <2>1, <3>1, <3>2
  <2>4. FlattenSeq(a \o p) = FlattenSeq(a) \o FlattenSeq(p)
    BY <1>4
  <2> HIDE DEF p, e, Part, Splits
  <2>5. a \o p \in Seq(Seq(S)) /\ FlattenSeq(p) \in Seq(S)
    BY <2>2, ConcatProperties, FlattenType
  <2>6. a \o Append(p, e) = Append(a \o p, e)
    <3> DEFINE one == <<e>>
    <3>1. Append(p, e) = p \o one /\ Append(a \o p, e) = (a \o p) \o one
      BY <2>2, <2>5, AppendIsConcat
    <3>2. one \in Seq(Seq(S))
      BY <2>2
    <3> HIDE DEF one, n, G
    <3>3. Joined(Joined(a, p), one) = Joined(a, Joined(p, one))
      BY <2>2, <3>2, JoinedAssociative
    <3> QED BY <3>1, <3>3, Zenon DEF Joined
  <2>7. FlattenSeq(a \o Append(p, e)) = (FlattenSeq(a) \o FlattenSeq(p)) \o e
    <3>1. FlattenSeq(Append(a \o p, e)) = FlattenSeq(a \o p) \o e
      BY <2>2, <2>5, FlattenAppend
    <3> QED BY <2>4, <2>6, <3>1, Zenon
  <2>8. FlattenSeq(Append(p, e)) = FlattenSeq(p) \o e
    BY <2>2, FlattenAppend
  <2>9. (FlattenSeq(a) \o FlattenSeq(p)) \o e = FlattenSeq(a) \o (FlattenSeq(p) \o e)
    <3> DEFINE u == FlattenSeq(a)
               v == FlattenSeq(p)
    <3>1. u \in Seq(S) /\ v \in Seq(S) /\ e \in Seq(S)
      BY <1>1, <2>2, <2>5
    <3> HIDE DEF u, v
    <3>2. Joined(Joined(u, v), e) = Joined(u, Joined(v, e))
      BY <3>1, JoinedAssociative
    <3> QED BY <3>2, Zenon DEF Joined, u, v
  <2>10. Splits(k + 1)
    BY <2>3, <2>7, <2>8, <2>9, Zenon DEF Splits
  <2> QED BY <2>1, <2>10, Zenon
<1>5. n \in G
  <2> HIDE DEF G
  <2>1. \A k \in 0..n : k \in G
    BY <1>1, <1>3, <1>4, PrefixInduction
  <2> QED BY <1>1, <2>1
<1>6. Part(n) = b
  BY SubSeqFull
<1> QED BY <1>5, <1>6

\* The join of one sequence.
LEMMA FlattenOne ==
  ASSUME NEW S, NEW seq \in Seq(S)
  PROVE  FlattenSeq(<<seq>>) = seq
<1>1. <<seq>> = Append(<<>>, seq) /\ <<>> \in Seq(Seq(S))
  OBVIOUS
<1>2. FlattenSeq(Append(<<>>, seq)) = FlattenSeq(<<>>) \o seq
  BY <1>1, FlattenAppend
<1>3. <<>> \o seq = seq
  BY ConcatEmptySeq
<1> QED BY <1>1, <1>2, <1>3, FlattenEmpty

\* What is joined from the k-th sequence on ends the whole.
LEMMA FlattenTail ==
  ASSUME NEW S, NEW seqs \in Seq(Seq(S)), NEW k \in 1..Len(seqs)
  PROVE  LET front == FlattenSeq(SubSeq(seqs, 1, k - 1))
             tail == FlattenSeq(SubSeq(seqs, k, Len(seqs)))
         IN front \in Seq(S) /\ tail \in Seq(S) /\ FlattenSeq(seqs) = front \o tail
<1> DEFINE n == Len(seqs)
           a == SubSeq(seqs, 1, k - 1)
           b == SubSeq(seqs, k, n)
<1>1. n \in Nat
  BY LenProperties
<1>2. a \in Seq(Seq(S)) /\ b \in Seq(Seq(S))
  <2>1. \A i \in 1..(k - 1) : seqs[i] \in Seq(S)
    BY <1>1, ElementOfSeq
  <2>2. \A i \in k..n : seqs[i] \in Seq(S)
    BY <1>1, ElementOfSeq
  <2> QED BY <1>1, <2>1, <2>2, SubSeqProperties
<1>3. a \o b = seqs
  <2>1. 1 \in 1..(Len(seqs) + 1) /\ k - 1 \in (1 - 1)..Len(seqs) /\ Len(seqs) \in (k - 1)..Len(seqs)
        /\ (k - 1) + 1 = k
    BY <1>1
  <2>2. SubSeq(seqs, 1, k - 1) \o SubSeq(seqs, (k - 1) + 1, Len(seqs)) = SubSeq(seqs, 1, Len(seqs))
    BY <2>1, ConcatAdjacentSubSeq
  <2> QED BY <2>1, <2>2, SubSeqFull
<1> HIDE DEF a, b
<1>4. FlattenSeq(a \o b) = FlattenSeq(a) \o FlattenSeq(b)
  BY <1>2, FlattenConcat
<1> QED BY <1>2, <1>3, <1>4, FlattenType DEF a, b

\* Nothing of a part is missing in the join.
LEMMA FlattenRange ==
  ASSUME NEW S, NEW seqs \in Seq(Seq(S)), NEW k \in 1..Len(seqs)
  PROVE  Range(seqs[k]) \subseteq Range(FlattenSeq(seqs))
<1> DEFINE n == Len(seqs)
           front == FlattenSeq(SubSeq(seqs, 1, k - 1))
           tail == FlattenSeq(SubSeq(seqs, k, n))
           rest == FlattenSeq(SubSeq(seqs, k + 1, n))
           one == <<seqs[k]>>
           left == SubSeq(seqs, k + 1, n)
<1>1. front \in Seq(S) /\ tail \in Seq(S) /\ FlattenSeq(seqs) = front \o tail
  BY FlattenTail
<1>2. n \in Nat /\ seqs[k] \in Seq(S)
  BY LenProperties, ElementOfSeq
<1>3. one \in Seq(Seq(S)) /\ left \in Seq(Seq(S))
  <2>1. \A i \in (k + 1)..n : seqs[i] \in Seq(S)
    BY <1>2, ElementOfSeq
  <2> QED BY <1>2, <2>1, SubSeqProperties
<1>4. tail = FlattenSeq(one \o left)
  <2>1. Len(seqs) \in k..Len(seqs)
    BY <1>2
  <2> QED BY <2>1, SubSeqRecursiveFirst
<1> HIDE DEF one, left, front, tail
<1>5. tail = FlattenSeq(one) \o FlattenSeq(left)
  BY <1>3, <1>4, FlattenConcat
<1>6. FlattenSeq(one) = seqs[k]
  BY <1>2, FlattenOne DEF one
<1>7. FlattenSeq(left) \in Seq(S)
  BY <1>3, FlattenType
<1>8. Range(tail) = Range(seqs[k]) \cup Range(FlattenSeq(left))
  BY <1>2, <1>5, <1>6, <1>7, RangeConcatenation
<1>9. Range(FlattenSeq(seqs)) = Range(front) \cup Range(tail)
  BY <1>1, RangeConcatenation
<1> QED BY <1>8, <1>9

\* The second part of a sequence is a suffix of it.
LEMMA SuffixOfConcat ==
  ASSUME NEW S, NEW a \in Seq(S), NEW b \in Seq(S)
  PROVE  IsSuffix(b, a \o b) /\ Len(b) <= Len(a \o b)
<1> DEFINE c == a \o b
           m == Len(a)
           n == Len(b)
<1>1. /\ m \in Nat /\ n \in Nat /\ c \in Seq(S) /\ Len(c) = m + n
      /\ \A i \in 1..(m + n) : c[i] = IF i <= m THEN a[i] ELSE b[i - m]
  BY LenProperties, ConcatProperties
<1> HIDE DEF c, m, n
<1>2. ASSUME NEW s \in Seq(S), NEW l, l = Len(s)
      PROVE  /\ Reverse(s) \in Seq(S) /\ Len(Reverse(s)) = l
             /\ \A i \in 1..l : Reverse(s)[i] = s[l - i + 1]
  <2>1. l \in Nat /\ \A i \in 1..l : s[(l - i) + 1] \in S
    BY <1>2, LenProperties, ElementOfSeq
  <2>2. [i \in 1..l |-> s[(l - i) + 1]] \in [1..l -> S]
    BY <2>1
  <2>3. Reverse(s) = [i \in 1..l |-> s[(l - i) + 1]]
    BY <1>2 DEF Reverse
  <2>4. \A f \in [1..l -> S] : f \in Seq(S) /\ Len(f) = l
    BY <2>1
  <2> QED BY <2>2, <2>3, <2>4
<1>3. /\ Reverse(b) \in Seq(S) /\ Len(Reverse(b)) = n
      /\ \A i \in 1..n : Reverse(b)[i] = b[n - i + 1]
  BY <1>2 DEF n
<1>4. /\ Reverse(c) \in Seq(S) /\ Len(Reverse(c)) = m + n
      /\ \A i \in 1..(m + n) : Reverse(c)[i] = c[(m + n) - i + 1]
  BY <1>1, <1>2
<1> DEFINE r == Reverse(b)
           t == Reverse(c)
           q == SubSeq(t, 1, n)
<1>5. q \in Seq(S) /\ Len(q) = n /\ \A i \in 1..n : q[i] = t[i]
  <2>1. \A i \in 1..n : t[i] \in S
    BY <1>1, <1>4, ElementOfSeq
  <2>2. /\ q \in Seq(S) /\ Len(q) = IF 1 <= n THEN n - 1 + 1 ELSE 0
        /\ \A i \in 1..(n - 1 + 1) : q[i] = t[1 + i - 1]
    <3> HIDE DEF t
    <3> QED BY <1>1, <2>1, SubSeqProperties
  <2> QED BY <1>1, <2>2
<1>6. \A i \in 1..n : r[i] = q[i]
  <2>1. ASSUME NEW i \in 1..n PROVE r[i] = q[i]
    <3>1. i \in 1..(m + n) /\ (m + n) - i + 1 \in 1..(m + n) /\ ~((m + n) - i + 1 <= m)
          /\ ((m + n) - i + 1) - m = n - i + 1
      BY <1>1
    <3>2. q[i] = c[(m + n) - i + 1]
      BY <1>4, <1>5, <3>1
    <3>3. c[(m + n) - i + 1] = b[n - i + 1]
      BY <1>1, <3>1
    <3> QED BY <1>3, <3>2, <3>3
  <2> QED BY <2>1
<1>7. r = q
  <2> HIDE DEF q, r
  <2> QED BY <1>3, <1>5, <1>6, SeqEqual DEF r
<1>8. SubSeq(r, 1, n) = r
  BY <1>3, SubSeqFull
<1>9. IsPrefix(r, t)
  BY <1>1, <1>3, <1>4, <1>7, <1>8 DEF IsPrefix
<1>10. IsSuffix(b, c) /\ n <= Len(c)
  BY <1>1, <1>9 DEF IsSuffix
<1> QED BY <1>10 DEF c, n

-----------------------------------------------------------------------------
(* Tuples of numbers in the order in which the first place where two differ *)
(* decides: nothing descends in it for ever.  What a command has left to do *)
(* is such a tuple, its stages before its loops before its retries.         *)

Less(n) == LexProductOrdering(OpToRel(<, Nat), Nat, n)

LEMMA LessIsWellFounded ==
  ASSUME NEW n \in Nat PROVE IsWellFoundedOn(Less(n), [1..n -> Nat])
  BY NatLessThanWellFounded, WFLexProductOrdering DEF Less

LEMMA LessAtOnePlace ==
  ASSUME NEW n \in Nat, NEW p \in [1..n -> Nat], NEW q \in [1..n -> Nat],
         NEW j \in 1..n, p[j] < q[j], \A i \in 1..(j - 1) : p[i] = q[i]
  PROVE  <<p, q>> \in Less(n)
<1>1. <<p[j], q[j]>> \in OpToRel(<, Nat)
  BY DEF OpToRel
<1> QED BY <1>1 DEF Less, LexProductOrdering
===============================================================================
