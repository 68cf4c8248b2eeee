--------------------------- MODULE Canonical_proofs ---------------------------
(***************************************************************************)
(* What the signed bytes of an offline activation proof are worth, for     *)
(* texts of any length: the SDK rebuilds what the server signed, and the   *)
(* bytes say which tuple they are of; and which machine a fingerprint is   *)
(* the fingerprint of.                                                     *)
(*                                                                         *)
(* A document is walked token by token, so both claims are about a walk    *)
(* that meets a piece: the piece is repaired on its own (Rewrites), read   *)
(* on its own (Reads) or passed over showing its texts (Shows), wherever   *)
(* it stands in whatever document.  Each relation holds of the empty piece *)
(* and of two pieces side by side, hence of a flattened sequence of them;  *)
(* what is left is one element, one escape, one string, one object.        *)
(*                                                                         *)
(* The order of strings is total, so a finite set of strings is sorted in  *)
(* one way: the keys of an object, and the parts of a fingerprint.         *)
(*                                                                         *)
(* The second half is about machine fingerprints, for lists of components  *)
(* of any length: a sorted form is read back stretch by stretch, from one  *)
(* separator to the next, and each stretch at its first '='.               *)
(***************************************************************************)
EXTENDS MCCanonical, TLAPS, SequenceTheorems, FiniteSetTheorems, WellFoundedInduction

-----------------------------------------------------------------------------
(* Induction, and the sequences documents are made of. *)

\* Induction, with a set in place of a predicate: a set of numbers that holds 0 and
\* with every number the next one holds them all.
LEMMA Induction ==
  ASSUME NEW B, 0 \in B, \A n \in Nat : n \in B => n + 1 \in B
  PROVE  Nat \subseteq B
  <1> DEFINE missing == Nat \ B
  <1>1. SUFFICES ASSUME missing # {}  PROVE FALSE
    OBVIOUS
  <1>2. PICK x \in missing : \A y \in missing : <<y, x>> \notin OpToRel(<, Nat)
    BY <1>1, NatLessThanWellFounded, WFMin
  <1>3. \A y \in missing : ~(y < x)
    BY <1>2 DEF OpToRel
  <1>4. x - 1 \in Nat /\ x - 1 \in B
    BY <1>3
  <1>5. QED
    BY <1>4

\* Induction from N + 1 down to 1.
LEMMA Descent ==
  ASSUME NEW N \in Nat, NEW B, N + 1 \in B, \A m \in 1..N : m + 1 \in B => m \in B
  PROVE  1 \in B
  <1> DEFINE C == {k \in Nat : k <= N => N + 1 - k \in B}
  <1>1. 0 \in C
    OBVIOUS
  <1>2. ASSUME NEW k \in Nat, k \in C  PROVE k + 1 \in C
    <2>1. CASE k + 1 <= N
      <3>1. N - k \in 1..N /\ (N - k) + 1 = N + 1 - k /\ N + 1 - (k + 1) = N - k /\ k <= N
        BY <2>1
      <3>2. QED
        BY <1>2, <3>1
    <2>2. CASE ~(k + 1 <= N)
      BY <2>2
    <2>3. QED
      BY <2>1, <2>2
  <1>3. N \in C
    <2> HIDE DEF C
    <2>1. QED
      BY <1>1, <1>2, Induction
  <1>4. QED
    BY <1>3

\* Induction from 0 up to N.
LEMMA Ascent ==
  ASSUME NEW N \in Nat, NEW B, 0 \in B, \A m \in 0..(N - 1) : m \in B => m + 1 \in B
  PROVE  N \in B
  <1> DEFINE C == {k \in Nat : k <= N => k \in B}
  <1>1. 0 \in C
    OBVIOUS
  <1>2. ASSUME NEW k \in Nat, k \in C  PROVE k + 1 \in C
    BY <1>2
  <1>3. N \in C
    <2> HIDE DEF C
    <2>1. QED
      BY <1>1, <1>2, Induction
  <1>4. QED
    BY <1>3

\* s[1] \o ... \o s[i]
Flattening(s) ==
  CHOOSE flatten : flatten = [i \in 1..Len(s) |-> IF i = 1 THEN s[i] ELSE flatten[i - 1] \o s[i]]

\* The recursion of FlattenSeq has a solution.
LEMMA FlatteningFrom ==
  ASSUME NEW D, NEW s \in Seq(Seq(D))
  PROVE  /\ Flattening(s) = [i \in 1..Len(s) |->
              IF i = 1 THEN s[i] ELSE Flattening(s)[i - 1] \o s[i]]
         /\ FlattenSeq(s) = IF Len(s) = 0 THEN <<>> ELSE Flattening(s)[Len(s)]
  <1> DEFINE N         == Len(s)
             val(g, i) == IF i = 1 THEN s[i] ELSE g[i - 1] \o s[i]
             Upto(m)   == \E g : g = [i \in 1..m |-> val(g, i)]
             B         == {m \in 0..N : Upto(m)}
  <1>1. N \in Nat
    BY LenProperties
  <1>2. 0 \in B
    <2>1. 1..0 = {}
      OBVIOUS
    <2>2. <<>> = [i \in 1..0 |-> val(<<>>, i)]
      BY <2>1
    <2>3. Upto(0)
      BY <2>2
    <2> HIDE DEF Upto
    <2>4. QED
      BY <1>1, <2>3
  <1>3. ASSUME NEW m \in 0..(N - 1), m \in B
        PROVE  m + 1 \in B
    <2>1. PICK g : g = [i \in 1..m |-> val(g, i)]
      BY <1>3
    <2> DEFINE h == [i \in 1..(m + 1) |-> IF i = m + 1 THEN val(g, i) ELSE g[i]]
    <2>2. ASSUME NEW i \in 1..(m + 1)  PROVE h[i] = val(h, i)
      <3>1. h[i] = val(g, i)
        <4>1. CASE i = m + 1
          BY <4>1
        <4>2. CASE i # m + 1
          <5>1. i \in 1..m
            BY <1>1, <4>2
          <5>2. g[i] = val(g, i)
            BY <2>1, <5>1
          <5>3. QED
            BY <4>2, <5>2
        <4>3. QED
          BY <4>1, <4>2
      <3>2. i # 1 => h[i - 1] = g[i - 1]
        <4>1. i # 1 => i - 1 \in 1..(m + 1) /\ i - 1 # m + 1
          BY <1>1
        <4>2. QED
          BY <4>1
      <3>3. QED
        BY <3>1, <3>2
    <2>3. h = [i \in 1..(m + 1) |-> val(h, i)]
      BY <2>2
    <2>4. Upto(m + 1)
      BY <2>3
    <2> HIDE DEF Upto
    <2>5. QED
      BY <1>1, <2>4
  <1>4. N \in B
    <2> HIDE DEF B
    <2>1. QED
      BY <1>1, <1>2, <1>3, Ascent
  <1>5. PICK g : g = [i \in 1..N |-> val(g, i)]
    BY <1>4
  <1>6. Flattening(s) = [i \in 1..Len(s) |->
              IF i = 1 THEN s[i] ELSE Flattening(s)[i - 1] \o s[i]]
    BY <1>5 DEF Flattening
  <1>7. Len(s) = 0 => s = <<>>
    BY LenProperties, EmptySeq
  <1>8. FlattenSeq(s) = IF Len(s) = 0 THEN s ELSE Flattening(s)[Len(s)]
    BY DEF Flattening, FlattenSeq
  <1>9. QED
    BY <1>6, <1>7, <1>8

\* Flattening two sequences of the same length relates the results, when related
\* elements are side by side and a relation is closed under concatenation.
LEMMA FlattenRelated ==
  ASSUME NEW A, NEW C, NEW R, <<<<>>, <<>>>> \in R,
         \A a, b, c, d : <<a, b>> \in R /\ <<c, d>> \in R => <<a \o c, b \o d>> \in R,
         NEW s \in Seq(Seq(A)), NEW t \in Seq(Seq(C)),
         Len(s) = Len(t), \A i \in 1..Len(s) : <<s[i], t[i]>> \in R
  PROVE  <<FlattenSeq(s), FlattenSeq(t)>> \in R
  <1> DEFINE F == Flattening(s)
             G == Flattening(t)
             N == Len(s)
             B == {m \in 0..N : m # 0 => <<F[m], G[m]>> \in R}
  <1>1. N \in Nat
    BY LenProperties
  <1>2. /\ \A i \in 1..N : F[i] = IF i = 1 THEN s[i] ELSE F[i - 1] \o s[i]
        /\ \A i \in 1..N : G[i] = IF i = 1 THEN t[i] ELSE G[i - 1] \o t[i]
    <2>1. F = [i \in 1..N |-> IF i = 1 THEN s[i] ELSE F[i - 1] \o s[i]]
      BY FlatteningFrom
    <2>2. G = [i \in 1..N |-> IF i = 1 THEN t[i] ELSE G[i - 1] \o t[i]]
      BY FlatteningFrom
    <2> HIDE DEF F, G, N
    <2>3. QED
      BY <2>1, <2>2
  <1> HIDE DEF F, G
  <1>3. 0 \in B
    BY <1>1
  <1>4. ASSUME NEW m \in 0..(N - 1), m \in B
        PROVE  m + 1 \in B
    <2>1. m + 1 \in 1..N /\ <<s[m + 1], t[m + 1]>> \in R
      BY <1>1
    <2>2. CASE m = 0
      BY <1>2, <2>1, <2>2
    <2>3. CASE m # 0
      <3>1. <<F[m], G[m]>> \in R
        BY <1>4, <2>3
      <3>2. F[m + 1] = F[m] \o s[m + 1] /\ G[m + 1] = G[m] \o t[m + 1]
        <4>1. m + 1 # 1 /\ (m + 1) - 1 = m
          BY <1>1, <2>3
        <4>2. QED
          BY <1>2, <2>1, <4>1
      <3>3. <<F[m + 1], G[m + 1]>> \in R
        BY <2>1, <3>1, <3>2
      <3>4. QED
        BY <2>1, <3>3
    <2>4. QED
      BY <2>2, <2>3
  <1>5. N \in B
    <2> HIDE DEF B
    <2>1. QED
      BY <1>1, <1>3, <1>4, Ascent
  <1>6. FlattenSeq(s) = (IF N = 0 THEN <<>> ELSE F[N]) /\ FlattenSeq(t) = IF N = 0 THEN <<>> ELSE G[N]
    BY FlatteningFrom DEF F, G
  <1>7. QED
    BY <1>1, <1>5, <1>6

\* FlattenSeq of texts is a text.
LEMMA FlattenSeqType ==
  ASSUME NEW D, NEW s \in Seq(Seq(D))
  PROVE  FlattenSeq(s) \in Seq(D)
  <1> DEFINE R == Seq(D) \X Seq(D)
  <1>1. <<<<>>, <<>>>> \in R
    <2>1. <<>> \in Seq(D)
      OBVIOUS
    <2>2. QED
      BY <2>1
  <1>2. \A a, b, c, d : <<a, b>> \in R /\ <<c, d>> \in R => <<a \o c, b \o d>> \in R
    BY ConcatProperties
  <1>3. \A i \in 1..Len(s) : <<s[i], s[i]>> \in R
    BY ElementOfSeq
  <1> HIDE DEF R
  <1>4. <<FlattenSeq(s), FlattenSeq(s)>> \in R
    BY <1>1, <1>2, <1>3, FlattenRelated
  <1>5. QED
    BY <1>4 DEF R

\* FlattenSeq of one, two and three sequences.
LEMMA FlattenFew ==
  ASSUME NEW D, NEW s \in Seq(Seq(D))
  PROVE  /\ Len(s) = 1 => FlattenSeq(s) = s[1]
         /\ Len(s) = 2 => FlattenSeq(s) = s[1] \o s[2]
         /\ Len(s) = 3 => FlattenSeq(s) = s[1] \o s[2] \o s[3]
  <1> DEFINE F == Flattening(s)
             N == Len(s)
  <1>1. /\ F = [i \in 1..N |-> IF i = 1 THEN s[i] ELSE F[i - 1] \o s[i]]
        /\ FlattenSeq(s) = IF N = 0 THEN <<>> ELSE F[N]
    BY FlatteningFrom
  <1> HIDE DEF F
  <1>2. \A i \in 1..N : F[i] = IF i = 1 THEN s[i] ELSE F[i - 1] \o s[i]
    BY <1>1
  <1>3. N \in Nat
    BY LenProperties
  <1> HIDE DEF N
  <1>4. 1 <= N => F[1] = s[1]
    BY <1>2, <1>3
  <1>5. 2 <= N => F[2] = F[1] \o s[2]
    <2>1. 2 <= N => 2 \in 1..N /\ 2 # 1 /\ 2 - 1 = 1
      BY <1>3
    <2>2. QED
      BY <1>2, <2>1
  <1>6. 3 <= N => F[3] = F[2] \o s[3]
    <2>1. 3 <= N => 3 \in 1..N /\ 3 # 1 /\ 3 - 1 = 2
      BY <1>3
    <2>2. QED
      BY <1>2, <2>1
  <1>7. N # 0 => FlattenSeq(s) = F[N]
    BY <1>1
  <1>8. /\ N = 1 => FlattenSeq(s) = s[1]
        /\ N = 2 => FlattenSeq(s) = s[1] \o s[2]
        /\ N = 3 => FlattenSeq(s) = s[1] \o s[2] \o s[3]
    <2>1. ASSUME N = 1  PROVE FlattenSeq(s) = s[1]
      BY <1>4, <1>7, <2>1
    <2>2. ASSUME N = 2  PROVE FlattenSeq(s) = s[1] \o s[2]
      <3>1. 1 <= N /\ 2 <= N /\ N # 0
        BY <2>2
      <3>2. FlattenSeq(s) = F[2] /\ F[2] = F[1] \o s[2] /\ F[1] = s[1]
        BY <1>4, <1>5, <1>7, <2>2, <3>1
      <3>3. QED
        BY <3>2
    <2>3. ASSUME N = 3  PROVE FlattenSeq(s) = s[1] \o s[2] \o s[3]
      <3>1. 1 <= N /\ 2 <= N /\ 3 <= N /\ N # 0
        BY <2>3
      <3>2. FlattenSeq(s) = F[3] /\ F[3] = F[2] \o s[3] /\ F[2] = F[1] \o s[2] /\ F[1] = s[1]
        BY <1>4, <1>5, <1>6, <1>7, <2>3, <3>1
      <3>3. QED
        BY <3>2
    <2>4. QED
      BY <2>1, <2>2, <2>3
  <1>9. QED
    BY <1>8 DEF N

\* The elements of a concatenation.
LEMMA SideBySide ==
  ASSUME NEW S, NEW a \in Seq(S), NEW b \in Seq(S)
  PROVE  /\ a \o b \in Seq(S) /\ Len(a \o b) = Len(a) + Len(b)
         /\ \A i \in 1..Len(a) : (a \o b)[i] = a[i]
         /\ \A i \in 1..Len(b) : (a \o b)[Len(a) + i] = b[i]
  <1>1. /\ Len(a) \in Nat /\ Len(b) \in Nat
        /\ a \o b \in Seq(S) /\ Len(a \o b) = Len(a) + Len(b)
        /\ \A i \in 1..(Len(a) + Len(b)) :
             (a \o b)[i] = IF i <= Len(a) THEN a[i] ELSE b[i - Len(a)]
    BY ConcatProperties, LenProperties
  <1>2. \A i \in 1..Len(a) : (a \o b)[i] = a[i]
    BY <1>1
  <1>3. ASSUME NEW i \in 1..Len(b)  PROVE (a \o b)[Len(a) + i] = b[i]
    <2>1. Len(a) + i \in 1..(Len(a) + Len(b)) /\ ~(Len(a) + i <= Len(a)) /\ (Len(a) + i) - Len(a) = i
      BY <1>1
    <2>2. QED
      BY <1>1, <2>1
  <1>4. QED
    BY <1>1, <1>2, <1>3

\* doc has a at position i.
Has(doc, i, a) ==
  /\ i + Len(a) <= Len(doc) + 1
  /\ \A k \in 1..Len(a) : doc[i + k - 1] = a[k]

\* A document that has two pieces side by side has each at its place.
LEMMA HasBoth ==
  ASSUME NEW D, NEW a \in Seq(D), NEW b \in Seq(D), NEW doc \in Seq(D),
         NEW i \in 1..(Len(doc) + 1), Has(doc, i, a \o b)
  PROVE  /\ Has(doc, i, a) /\ Has(doc, i + Len(a), b)
         /\ i + Len(a) \in 1..(Len(doc) + 1)
         /\ i + Len(a) + Len(b) = i + Len(a \o b) /\ i + Len(a \o b) \in 1..(Len(doc) + 1)
  <1>1. /\ Len(doc) \in Nat /\ Len(a) \in Nat /\ Len(b) \in Nat
        /\ Len(a \o b) = Len(a) + Len(b)
        /\ \A k \in 1..(Len(a) + Len(b)) :
             (a \o b)[k] = IF k <= Len(a) THEN a[k] ELSE b[k - Len(a)]
    BY ConcatProperties, LenProperties
  <1>2. i + Len(a) + Len(b) <= Len(doc) + 1
    BY <1>1 DEF Has
  <1>3. ASSUME NEW k \in 1..Len(a)
        PROVE  doc[i + k - 1] = a[k]
    <2>1. k \in 1..Len(a \o b) /\ k \in 1..(Len(a) + Len(b)) /\ k <= Len(a)
      BY <1>1
    <2>2. (a \o b)[k] = a[k]
      BY <1>1, <2>1
    <2>3. QED
      BY <2>1, <2>2 DEF Has
  <1>4. ASSUME NEW k \in 1..Len(b)
        PROVE  doc[i + Len(a) + k - 1] = b[k]
    <2>1. /\ Len(a) + k \in 1..Len(a \o b) /\ Len(a) + k \in 1..(Len(a) + Len(b))
          /\ i + (Len(a) + k) - 1 = i + Len(a) + k - 1
          /\ ~(Len(a) + k <= Len(a)) /\ Len(a) + k - Len(a) = k
      BY <1>1
    <2>2. (a \o b)[Len(a) + k] = b[k]
      BY <1>1, <2>1
    <2>3. QED
      BY <2>1, <2>2 DEF Has
  <1>5. Has(doc, i, a) /\ Has(doc, i + Len(a), b)
    BY <1>1, <1>2, <1>3, <1>4 DEF Has
  <1>6. QED
    BY <1>1, <1>2, <1>5

-----------------------------------------------------------------------------
(* Strings, and least and greatest numbers. *)

\* The strings of StringOrder: bytes and code points are numbers.
Strings == Seq(Nat)

\* The elements of a string are numbers.
LEMMA StringType ==
  ASSUME NEW s \in Strings
  PROVE  /\ s \in Seq(Nat) /\ s \in Seq(Int) /\ Len(s) \in Nat
         /\ \A k \in 1..Len(s) : s[k] \in Nat /\ s[k] \in Int
  <1>1. s \in Seq(Nat)
    BY DEF Strings
  <1>2. Nat \subseteq Int
    OBVIOUS
  <1>3. QED
    BY <1>1, <1>2, LenProperties, ElementOfSeq, SeqMonotonic

\* A set of numbers has a least one, and Min is it.
LEMMA MinOf ==
  ASSUME NEW A, A \subseteq Nat, A # {}
  PROVE  Min(A) \in A /\ \A y \in A : Min(A) <= y
  <1>1. PICK x \in A : \A y \in A : <<y, x>> \notin OpToRel(<, Nat)
    BY NatLessThanWellFounded, WFMin
  <1>2. ASSUME NEW y \in A  PROVE x <= y
    <2>1. ~(y < x)
      BY <1>1 DEF OpToRel
    <2>2. QED
      BY <2>1
  <1>3. QED
    BY <1>2 DEF Min

\* A set of numbers with a bound has a greatest one, and Max is it.
LEMMA MaxOf ==
  ASSUME NEW N \in Nat, NEW S, S \subseteq 0..N, S # {}
  PROVE  Max(S) \in S /\ \A y \in S : y <= Max(S)
  <1> DEFINE T == {N - y : y \in S}
  <1>1. PICK m \in T : \A y \in T : m <= y
    <2>1. \A y \in S : y \in Nat /\ N - y \in Nat
      OBVIOUS
    <2>2. T \subseteq Nat /\ T # {}
      BY <2>1
    <2> HIDE DEF T
    <2>3. QED
      BY <2>2, MinOf
  <1>2. PICK x \in S : m = N - x
    BY <1>1
  <1>3. \A y \in S : x >= y
    BY <1>1, <1>2
  <1>4. QED
    BY <1>3 DEF Max

-----------------------------------------------------------------------------
(* Go's order of strings is total, so a set of parts is sorted in one way. *)

\* s comes before t because of what stands at i: s ends there, or has the less byte.
Before(s, t, i) ==
  /\ i \in 1..Len(t) /\ i <= Len(s) + 1
  /\ \A k \in 1..(i - 1) : s[k] = t[k]
  /\ i <= Len(s) => s[i] < t[i]

\* Two prefixes are equal when their elements are.
LEMMA SamePrefix ==
  ASSUME NEW D, NEW s \in Seq(D), NEW t \in Seq(D), NEW n \in 0..Len(s), n <= Len(t)
  PROVE  SubSeq(s, 1, n) = SubSeq(t, 1, n) <=> \A k \in 1..n : s[k] = t[k]
  <1>1. /\ n \in Nat /\ Len(s) \in Nat /\ Len(t) \in Nat
        /\ \A k \in 1..n : s[k] \in D /\ t[k] \in D
    BY LenProperties, ElementOfSeq
  <1>2. /\ SubSeq(s, 1, n) \in Seq(D) /\ Len(SubSeq(s, 1, n)) = n
        /\ \A k \in 1..n : SubSeq(s, 1, n)[k] = s[k]
    BY <1>1, SubSeqProperties
  <1>3. /\ SubSeq(t, 1, n) \in Seq(D) /\ Len(SubSeq(t, 1, n)) = n
        /\ \A k \in 1..n : SubSeq(t, 1, n)[k] = t[k]
    BY <1>1, SubSeqProperties
  <1>4. QED
    BY <1>2, <1>3, SeqEqual

\* The order, by the place that decides it.
LEMMA BytewiseAt ==
  ASSUME NEW s \in Strings, NEW t \in Strings
  PROVE  Bytewise(s, t) <=> \E i \in Nat : Before(s, t, i)
  <1>1. /\ Len(s) \in Nat /\ Len(t) \in Nat /\ s \in Seq(Nat) /\ t \in Seq(Nat)
    BY LenProperties DEF Strings
  <1>2. ASSUME IsStrictPrefix(s, t)  PROVE Before(s, t, Len(s) + 1)
    <2>1. Len(s) <= Len(t) /\ SubSeq(s, 1, Len(s)) = SubSeq(t, 1, Len(s)) /\ s # t
      BY <1>2 DEF IsStrictPrefix, IsPrefix
    <2>2. \A k \in 1..Len(s) : s[k] = t[k]
      BY <1>1, <2>1, SamePrefix
    <2>3. Len(s) # Len(t)
      BY <1>1, <2>1, <2>2, SeqEqual
    <2>4. QED
      BY <1>1, <2>1, <2>2, <2>3 DEF Before
  <1>3. ASSUME NEW i \in 1..Len(s), i <= Len(t), s[i] < t[i],
               SubSeq(s, 1, i - 1) = SubSeq(t, 1, i - 1)
        PROVE  Before(s, t, i)
    <2>1. i - 1 \in 0..Len(s) /\ i - 1 <= Len(t)
      BY <1>1, <1>3
    <2>2. \A k \in 1..(i - 1) : s[k] = t[k]
      BY <1>1, <1>3, <2>1, SamePrefix
    <2>3. QED
      BY <1>1, <1>3, <2>2 DEF Before
  <1>4. ASSUME NEW i \in Nat, Before(s, t, i)  PROVE Bytewise(s, t)
    <2>1. CASE i <= Len(s)
      <3>1. i \in 1..Len(s) /\ i <= Len(t) /\ s[i] < t[i] /\ i - 1 \in 0..Len(s) /\ i - 1 <= Len(t)
        BY <1>1, <1>4, <2>1 DEF Before
      <3>2. SubSeq(s, 1, i - 1) = SubSeq(t, 1, i - 1)
        BY <1>1, <1>4, <3>1, SamePrefix DEF Before
      <3>3. QED
        BY <3>1, <3>2 DEF Bytewise
    <2>2. CASE i = Len(s) + 1
      <3>1. Len(s) \in 0..Len(s) /\ Len(s) < Len(t) /\ \A k \in 1..Len(s) : s[k] = t[k]
        BY <1>1, <1>4, <2>2 DEF Before
      <3>2. SubSeq(s, 1, Len(s)) = SubSeq(t, 1, Len(s))
        BY <1>1, <3>1, SamePrefix
      <3>3. QED
        BY <1>1, <3>1, <3>2 DEF Bytewise, IsStrictPrefix, IsPrefix
    <2>3. QED
      BY <1>1, <1>4, <2>1, <2>2 DEF Before
  <1>5. QED
    BY <1>1, <1>2, <1>3, <1>4 DEF Bytewise

\* The order is strict, transitive and total.
LEMMA BytewiseOrder ==
  ASSUME NEW s \in Strings, NEW t \in Strings, NEW u \in Strings
  PROVE  /\ ~Bytewise(s, s)
         /\ Bytewise(s, t) /\ Bytewise(t, u) => Bytewise(s, u)
         /\ Bytewise(s, t) \/ s = t \/ Bytewise(t, s)
  <1>1. /\ Len(s) \in Nat /\ Len(t) \in Nat /\ Len(u) \in Nat
        /\ \A k \in 1..Len(s) : s[k] \in Int
        /\ \A k \in 1..Len(t) : t[k] \in Int
        /\ \A k \in 1..Len(u) : u[k] \in Int
    BY StringType
  <1>2. ~Bytewise(s, s)
    <2>1. ASSUME NEW i \in Nat, Before(s, s, i)  PROVE FALSE
      BY <1>1, <2>1 DEF Before
    <2>2. QED
      BY <2>1, BytewiseAt
  <1>3. ASSUME Bytewise(s, t), Bytewise(t, u)  PROVE Bytewise(s, u)
    <2>1. PICK i \in Nat : Before(s, t, i)
      BY <1>3, BytewiseAt
    <2>2. PICK j \in Nat : Before(t, u, j)
      BY <1>3, BytewiseAt
    <2>3. CASE i <= j
      <3>1. Before(s, u, i)
        BY <1>1, <2>1, <2>2, <2>3 DEF Before
      <3>2. QED
        BY <3>1, BytewiseAt
    <2>4. CASE j < i
      <3>1. Before(s, u, j)
        BY <1>1, <2>1, <2>2, <2>4 DEF Before
      <3>2. QED
        BY <3>1, BytewiseAt
    <2>5. QED
      BY <2>3, <2>4
  <1>4. ASSUME s # t  PROVE Bytewise(s, t) \/ Bytewise(t, s)
    <2> DEFINE apart == {i \in Nat \ {0} : i > Len(s) \/ i > Len(t) \/ s[i] # t[i]}
               i     == Min(apart)
    <2>1. Len(s) + 1 \in apart
      BY <1>1
    <2>2. i \in apart /\ \A k \in apart : i <= k
      BY <2>1, MinOf
    <2>3. i \in Nat \ {0} /\ \A k \in 1..(i - 1) : k <= Len(s) /\ k <= Len(t) /\ s[k] = t[k]
      <3>1. i \in Nat \ {0}
        BY <2>2
      <3> HIDE DEF i
      <3>2. ASSUME NEW k \in 1..(i - 1)  PROVE k <= Len(s) /\ k <= Len(t) /\ s[k] = t[k]
        <4>1. k \in Nat \ {0} /\ ~(i <= k)
          BY <3>1
        <4>2. k \notin apart
          BY <2>2, <4>1
        <4>3. QED
          BY <1>1, <4>1, <4>2
      <3>3. QED
        BY <3>1, <3>2
    <2>4. ~(i > Len(s) /\ i > Len(t))
      <3>1. ASSUME i > Len(s), i > Len(t)  PROVE FALSE
        <4>1. Len(s) = Len(t) /\ \A k \in 1..Len(s) : s[k] = t[k]
          <5>1. CASE Len(s) < Len(t)
            BY <1>1, <2>3, <3>1, <5>1
          <5>2. CASE Len(t) < Len(s)
            BY <1>1, <2>3, <3>1, <5>2
          <5>3. CASE Len(s) = Len(t)
            BY <1>1, <2>3, <3>1, <5>3
          <5>4. QED
            BY <1>1, <5>1, <5>2, <5>3
        <4>2. s = t
          BY <4>1, SeqEqual DEF Strings
        <4>3. QED
          BY <1>4, <4>2
      <3>2. QED
        BY <3>1
    <2> HIDE DEF i
    <2>5. Before(s, t, i) \/ Before(t, s, i)
      <3>1. i <= Len(s) + 1 /\ i <= Len(t) + 1
        BY <1>1, <2>3
      <3>2. i <= Len(s) /\ i <= Len(t) => s[i] < t[i] \/ t[i] < s[i]
        BY <1>1, <2>2, <2>3
      <3>3. QED
        BY <1>1, <2>3, <2>4, <3>1, <3>2 DEF Before
    <2>6. QED
      BY <2>3, <2>5, BytewiseAt
  <1>5. QED
    BY <1>2, <1>3, <1>4

\* A finite set of strings has a last one.
LEMMA LastString ==
  ASSUME NEW S \in SUBSET Strings, IsFiniteSet(S), S # {}
  PROVE  \E m \in S : \A y \in S : y = m \/ Bytewise(y, m)
  <1> DEFINE Greatest(T) == \E m \in T : \A y \in T : y = m \/ Bytewise(y, m)
             B           == {n \in Nat : \A T \in SUBSET Strings :
                               IsFiniteSet(T) /\ T # {} /\ Cardinality(T) = n => Greatest(T)}
  <1>1. 0 \in B
    BY FS_EmptySet
  <1>2. ASSUME NEW n \in Nat, n \in B  PROVE n + 1 \in B
    <2>1. SUFFICES ASSUME NEW T \in SUBSET Strings, IsFiniteSet(T), T # {}, Cardinality(T) = n + 1
                   PROVE  Greatest(T)
      OBVIOUS
    <2>2. PICK x \in T : TRUE
      BY <2>1
    <2> DEFINE U == T \ {x}
    <2>3. IsFiniteSet(U) /\ Cardinality(U) = n /\ U \in SUBSET Strings
      <3>1. IsFiniteSet(U) /\ Cardinality(U) = (n + 1) - 1
        BY <2>1, <2>2, FS_RemoveElement
      <3>2. QED
        BY <3>1
    <2>4. CASE U = {}
      BY <2>2, <2>4
    <2>5. CASE U # {}
      <3>1. PICK m \in U : \A y \in U : y = m \/ Bytewise(y, m)
        BY <1>2, <2>3, <2>5
      <3>2. CASE Bytewise(x, m)
        BY <3>1, <3>2
      <3>3. CASE ~Bytewise(x, m)
        <4>1. Bytewise(m, x)
          BY <3>1, <3>3, BytewiseOrder
        <4>2. \A y \in U : Bytewise(y, x)
          BY <3>1, <4>1, BytewiseOrder
        <4>3. QED
          BY <2>2, <4>2
      <3>4. QED
        BY <3>2, <3>3
    <2>6. QED
      BY <2>4, <2>5
  <1>3. Cardinality(S) \in B
    <2> HIDE DEF B
    <2>1. QED
      BY <1>1, <1>2, Induction, FS_CardinalityType
  <1>4. QED
    BY <1>3

\* A finite set of strings has an increasing enumeration.
LEMMA IncreasingExists ==
  ASSUME NEW S \in SUBSET Strings, IsFiniteSet(S)
  PROVE  \E parts \in [1..Cardinality(S) -> S] : 
           \A i, j \in 1..Cardinality(S) : i < j => Bytewise(parts[i], parts[j])
  <1> DEFINE Listed(T, n) == \E parts \in [1..n -> T] :
                               \A i, j \in 1..n : i < j => Bytewise(parts[i], parts[j])
             B == {n \in Nat : \A T \in SUBSET Strings :
                     IsFiniteSet(T) /\ Cardinality(T) = n => Listed(T, n)}
  <1>1. 0 \in B
    <2>1. ASSUME NEW T  PROVE Listed(T, 0)
      <3>1. 1..0 = {}
        OBVIOUS
      <3>2. <<>> \in [1..0 -> T]
        BY <3>1
      <3>3. QED
        BY <3>1, <3>2
    <2>2. QED
      BY <2>1
  <1>2. ASSUME NEW n \in Nat, n \in B  PROVE n + 1 \in B
    <2>1. SUFFICES ASSUME NEW T \in SUBSET Strings, IsFiniteSet(T), Cardinality(T) = n + 1
                   PROVE  Listed(T, n + 1)
      OBVIOUS
    <2>2. PICK m \in T : \A y \in T : y = m \/ Bytewise(y, m)
      BY <2>1, FS_EmptySet, LastString
    <2> DEFINE U == T \ {m}
    <2>3. IsFiniteSet(U) /\ Cardinality(U) = n /\ U \in SUBSET Strings
      <3>1. IsFiniteSet(U) /\ Cardinality(U) = (n + 1) - 1
        BY <2>1, <2>2, FS_RemoveElement
      <3>2. QED
        BY <3>1
    <2>4. PICK f \in [1..n -> U] : \A i, j \in 1..n : i < j => Bytewise(f[i], f[j])
      BY <1>2, <2>3
    <2> DEFINE g == [i \in 1..(n + 1) |-> IF i = n + 1 THEN m ELSE f[i]]
    <2>5. \A i \in 1..(n + 1) : i # n + 1 => i \in 1..n
      OBVIOUS
    <2>6. g \in [1..(n + 1) -> T]
      BY <2>2, <2>4, <2>5
    <2>7. ASSUME NEW i \in 1..(n + 1), NEW j \in 1..(n + 1), i < j
          PROVE  Bytewise(g[i], g[j])
      <3>1. i # n + 1 /\ i \in 1..n /\ g[i] = f[i] /\ f[i] \in U
        BY <2>4, <2>7
      <3>2. CASE j = n + 1
        BY <2>2, <3>1, <3>2
      <3>3. CASE j # n + 1
        BY <2>4, <2>5, <2>7, <3>1, <3>3
      <3>4. QED
        BY <3>2, <3>3
    <2>8. QED
      BY <2>6, <2>7
  <1>3. Cardinality(S) \in B
    <2> HIDE DEF B
    <2>1. QED
      BY <1>1, <1>2, Induction, FS_CardinalityType
  <1>4. QED
    BY <1>3

\* The sorted parts are the parts, each once, and they increase.
LEMMA SortedParts ==
  ASSUME NEW S \in SUBSET Strings, IsFiniteSet(S)
  PROVE  /\ Sorted(S) \in Seq(S) /\ Increasing(Sorted(S))
         /\ Len(Sorted(S)) = Cardinality(S)
         /\ {Sorted(S)[i] : i \in 1..Len(Sorted(S))} = S
  <1> DEFINE N == Cardinality(S)
  <1>1. N \in Nat
    BY FS_CardinalityType
  <1> HIDE DEF N
  <1>2. PICK f \in [1..N -> S] : \A i, j \in 1..N : i < j => Bytewise(f[i], f[j])
    BY IncreasingExists DEF N
  <1>3. \A i, j \in 1..N : i # j => f[i] # f[j]
    <2>1. ASSUME NEW i \in 1..N, NEW j \in 1..N, i < j  PROVE f[i] # f[j]
      BY <1>2, <2>1, BytewiseOrder
    <2>2. QED
      BY <1>1, <2>1
  <1>4. f \in SetToSeqs(S)
    BY <1>2, <1>3 DEF SetToSeqs, N
  <1>5. Len(f) = N
    BY <1>1, <1>2
  <1>6. Increasing(f)
    BY <1>2, <1>5 DEF Increasing
  <1> DEFINE s == Sorted(S)
  <1>7. s \in SetToSeqs(S) /\ Increasing(s)
    BY <1>4, <1>6 DEF Sorted
  <1> HIDE DEF s
  <1>8. s \in [1..N -> S] /\ \A i, j \in 1..N : i # j => s[i] # s[j]
    BY <1>7 DEF SetToSeqs, N
  <1>9. s \in Seq(S) /\ Len(s) = N
    BY <1>1, <1>8
  <1>10. s \in Injection(1..N, S)
    <2>1. DOMAIN s = 1..N
      BY <1>8
    <2>2. QED
      BY <1>8, <2>1 DEF Injection, IsInjective
  <1>11. s \in Surjection(1..N, S)
    <2>1. Cardinality(1..N) = Cardinality(S)
      <3>1. Cardinality(1..N) = IF 1 > N THEN 0 ELSE N - 1 + 1
        BY <1>1, FS_Interval
      <3>2. QED
        BY <1>1, <3>1 DEF N
    <2>2. QED
      BY <1>10, <2>1, FS_Injection
  <1>12. {s[i] : i \in 1..N} = S
    BY <1>8, <1>11 DEF Surjection
  <1>13. QED
    BY <1>7, <1>9, <1>12 DEF s, N

-----------------------------------------------------------------------------
(* unescapeLineAndParagraphSeparators: what is put in place of what. *)

\* The token at i.
Token(doc, i) == SubSeq(doc, i, i + TokenLength(doc, i) - 1)

\* A token has one, two or six elements.
LEMMA TokenLengths ==
  ASSUME NEW D, NEW doc \in Seq(D), NEW i \in 1..Len(doc)
  PROVE  /\ TokenLength(doc, i) \in 1..6
         /\ i + TokenLength(doc, i) <= Len(doc) + 1
  BY DEF TokenLength

\* A token is the elements of the document from its place on.
LEMMA TokenType ==
  ASSUME NEW D, NEW doc \in Seq(D), NEW i \in 1..Len(doc)
  PROVE  /\ Token(doc, i) \in Seq(D) /\ Len(Token(doc, i)) = TokenLength(doc, i)
         /\ \A k \in 1..TokenLength(doc, i) : Token(doc, i)[k] = doc[i + k - 1]
  <1> DEFINE n == i + TokenLength(doc, i) - 1
  <1>1. /\ Len(doc) \in Nat /\ TokenLength(doc, i) \in 1..6
        /\ i \in Int /\ n \in Int /\ n <= Len(doc) /\ i <= n /\ n - i + 1 = TokenLength(doc, i)
    <2> DEFINE t == TokenLength(doc, i)
    <2>1. t \in 1..6 /\ i + t <= Len(doc) + 1 /\ Len(doc) \in Nat
      BY TokenLengths, LenProperties
    <2> HIDE DEF t
    <2>2. i \in Int /\ i + t - 1 \in Int /\ i + t - 1 <= Len(doc) /\ i <= i + t - 1 /\ i + t - 1 - i + 1 = t
      BY <2>1
    <2>3. QED
      BY <2>1, <2>2 DEF t
  <1>2. \A j \in i..n : doc[j] \in D
    BY <1>1, ElementOfSeq
  <1>3. n - i + 1 = TokenLength(doc, i) /\ i <= n
    BY <1>1
  <1> HIDE DEF n
  <1>4. /\ SubSeq(doc, i, n) \in Seq(D) /\ Len(SubSeq(doc, i, n)) = n - i + 1
        /\ \A k \in 1..(n - i + 1) : SubSeq(doc, i, n)[k] = doc[i + k - 1]
    BY <1>1, <1>2, SubSeqProperties
  <1>5. QED
    BY <1>3, <1>4 DEF n, Token

\* The repair of a document from each place on.
Unescaping(doc) ==
  CHOOSE from : from = [i \in 1..Len(doc) + 6 |->
    IF i > Len(doc) THEN <<>>
    ELSE Unescaped(Token(doc, i)) \o from[i + TokenLength(doc, i)]]

\* The recursion of unescapeLineAndParagraphSeparators has a solution: it only looks
\* ahead in the document.
LEMMA UnescapingFrom ==
  ASSUME NEW D, NEW doc \in Seq(D)
  PROVE  /\ Unescaping(doc) = [i \in 1..Len(doc) + 6 |->
              IF i > Len(doc) THEN <<>>
              ELSE Unescaped(Token(doc, i)) \o Unescaping(doc)[i + TokenLength(doc, i)]]
         /\ unescapeLineAndParagraphSeparators(doc) = Unescaping(doc)[1]
  <1> DEFINE N          == Len(doc) + 6
             step(i)    == TokenLength(doc, i)
             val(g, i)  == IF i > Len(doc) THEN <<>> ELSE Unescaped(Token(doc, i)) \o g[i + step(i)]
             Upto(m)    == \E g : g = [i \in m..N |-> val(g, i)]
             B          == {m \in 1..N + 1 : Upto(m)}
  <1>1. N \in Nat /\ Len(doc) \in Nat
    BY LenProperties
  <1>2. N + 1 \in B
    <2>1. (N + 1)..N = {}
      BY <1>1
    <2>2. <<>> = [i \in (N + 1)..N |-> val(<<>>, i)]
      BY <2>1
    <2>3. Upto(N + 1)
      BY <2>2
    <2> HIDE DEF Upto
    <2>4. QED
      BY <1>1, <2>3
  <1>3. ASSUME NEW m \in 1..N, m + 1 \in B
        PROVE  m \in B
    <2>1. PICK g : g = [i \in (m + 1)..N |-> val(g, i)]
      BY <1>3
    <2> DEFINE h == [i \in m..N |-> IF i = m THEN val(g, i) ELSE g[i]]
    <2>2. ASSUME NEW i \in m..N  PROVE h[i] = val(h, i)
      <3>1. h[i] = val(g, i)
        <4>1. CASE i = m
          BY <4>1
        <4>2. CASE i # m
          <5>1. i \in (m + 1)..N
            BY <1>1, <4>2
          <5>2. g[i] = val(g, i)
            BY <2>1, <5>1
          <5>3. QED
            BY <4>2, <5>2
        <4>3. QED
          BY <4>1, <4>2
      <3>2. ASSUME i <= Len(doc)  PROVE h[i + step(i)] = g[i + step(i)]
        <4>1. i \in 1..Len(doc)
          BY <1>1, <3>2
        <4>2. step(i) \in 1..6
          BY <4>1, TokenLengths
        <4> HIDE DEF step
        <4>3. i + step(i) \in m..N /\ i + step(i) # m
          BY <1>1, <4>1, <4>2
        <4>4. QED
          BY <4>3
      <3>3. QED
        BY <3>1, <3>2
    <2>3. h = [i \in m..N |-> val(h, i)]
      BY <2>2
    <2>4. Upto(m)
      BY <2>3
    <2> HIDE DEF Upto
    <2>5. QED
      BY <1>1, <2>4
  <1>4. 1 \in B
    <2> HIDE DEF B
    <2>1. QED
      BY <1>1, <1>2, <1>3, Descent
  <1>5. PICK g : g = [i \in 1..N |-> val(g, i)]
    BY <1>4
  <1>6. QED
    BY <1>5 DEF Unescaping, unescapeLineAndParagraphSeparators, Token

\* The repair at one place: its token, then the rest.
LEMMA UnescapingSteps ==
  ASSUME NEW D, NEW doc \in Seq(D)
  PROVE  /\ \A i \in 1..Len(doc) :
              Unescaping(doc)[i] = Unescaped(Token(doc, i)) \o Unescaping(doc)[i + TokenLength(doc, i)]
         /\ \A i \in (Len(doc) + 1)..(Len(doc) + 6) : Unescaping(doc)[i] = <<>>
  <1> DEFINE val(i) == Unescaped(Token(doc, i)) \o Unescaping(doc)[i + TokenLength(doc, i)]
  <1>1. Len(doc) \in Nat
    BY LenProperties
  <1>2. Unescaping(doc) = [i \in 1..(Len(doc) + 6) |-> IF i > Len(doc) THEN <<>> ELSE val(i)]
    BY UnescapingFrom
  <1> HIDE DEF val
  <1>3. /\ \A i \in 1..Len(doc) : Unescaping(doc)[i] = val(i)
        /\ \A i \in (Len(doc) + 1)..(Len(doc) + 6) : Unescaping(doc)[i] = <<>>
    BY <1>1, <1>2
  <1>4. QED
    BY <1>3 DEF val

\* A repaired token is made of the same elements and of the separators.
LEMMA UnescapedType ==
  ASSUME NEW D, Separators \subseteq D, NEW token \in Seq(D)
  PROVE  Unescaped(token) \in Seq(D)
  <1> DEFINE escaped == {ch \in Separators : token = <<Backslash, LetterU>> \o EscapedAsU[ch]}
  <1>1. CASE escaped = {}
    BY <1>1 DEF Unescaped
  <1>2. CASE escaped # {}
    <2>1. (CHOOSE ch \in escaped : TRUE) \in D
      BY <1>2
    <2>2. QED
      BY <1>2, <2>1 DEF Unescaped
  <1>3. QED
    BY <1>1, <1>2

\* So is a repaired document.
LEMMA UnescapingType ==
  ASSUME NEW D, Separators \subseteq D, NEW doc \in Seq(D), NEW i \in 1..(Len(doc) + 6)
  PROVE  Unescaping(doc)[i] \in Seq(D)
  <1> DEFINE N    == Len(doc) + 6
             U    == Unescaping(doc)
             B    == {m \in 1..(N + 1) : \A j \in m..N : U[j] \in Seq(D)}
  <1>1. N \in Nat /\ Len(doc) \in Nat
    BY LenProperties
  <1>2. N + 1 \in B
    BY <1>1
  <1>3. ASSUME NEW m \in 1..N, m + 1 \in B
        PROVE  m \in B
    <2>1. CASE m > Len(doc)
      <3>1. U[m] = <<>>
        BY <1>1, <2>1, UnescapingSteps
      <3>2. U[m] \in Seq(D)
        BY <3>1
      <3>3. QED
        BY <1>1, <1>3, <3>2
    <2>2. CASE m <= Len(doc)
      <3>1. m \in 1..Len(doc)
        BY <1>1, <2>2
      <3>2. TokenLength(doc, m) \in 1..6 /\ m + TokenLength(doc, m) <= Len(doc) + 1
        BY <3>1, TokenLengths
      <3>3. \A j \in m..(m + TokenLength(doc, m) - 1) : doc[j] \in D
        BY <1>1, <3>1, <3>2, ElementOfSeq
      <3>4. Token(doc, m) \in Seq(D)
        <4> DEFINE n == m + TokenLength(doc, m) - 1
        <4>1. n \in Int /\ m \in Int
          BY <3>1, <3>2
        <4>2. \A j \in m..n : doc[j] \in D
          BY <3>3
        <4> HIDE DEF n
        <4>3. SubSeq(doc, m, n) \in Seq(D)
          BY <4>1, <4>2, SubSeqProperties
        <4>4. QED
          BY <4>3 DEF n, Token
      <3>5. U[m] = Unescaped(Token(doc, m)) \o U[m + TokenLength(doc, m)]
        BY <3>1, UnescapingSteps
      <3>6. m + TokenLength(doc, m) \in (m + 1)..N
        BY <1>1, <3>1, <3>2
      <3>7. U[m] \in Seq(D)
        <4>1. Unescaped(Token(doc, m)) \in Seq(D)
          BY <3>4, UnescapedType
        <4>2. U[m + TokenLength(doc, m)] \in Seq(D)
          BY <1>3, <3>6
        <4>3. QED
          BY <3>5, <4>1, <4>2, ConcatProperties
      <3>8. QED
        BY <1>1, <1>3, <3>7
    <2>3. QED
      BY <1>1, <2>1, <2>2
  <1>4. 1 \in B
    <2> HIDE DEF B
    <2>1. QED
      BY <1>1, <1>2, <1>3, Descent
  <1>5. QED
    BY <1>4

\* token is consumed whole wherever it begins.
Whole(token, D) ==
  /\ token \in Seq(D) /\ Len(token) # 0
  /\ \A doc \in Seq(D), i \in Nat \ {0} :
       Has(doc, i, token) => TokenLength(doc, i) = Len(token)

\* a, wherever it stands in a document, is unescaped to b.
Rewrites(a, b, D) ==
  /\ a \in Seq(D) /\ b \in Seq(D)
  /\ \A doc \in Seq(D) : \A i \in 1..(Len(doc) + 1) :
       Has(doc, i, a) => Unescaping(doc)[i] = b \o Unescaping(doc)[i + Len(a)]

\* Nothing is put in place of nothing.
LEMMA RewritesNothing ==
  ASSUME NEW D, Separators \subseteq D
  PROVE  Rewrites(<<>>, <<>>, D)
  <1>1. ASSUME NEW doc \in Seq(D), NEW i \in 1..(Len(doc) + 1)
        PROVE  Unescaping(doc)[i] = <<>> \o Unescaping(doc)[i + Len(<<>>)]
    <2>1. i \in 1..(Len(doc) + 6) /\ i + Len(<<>>) = i
      BY LenProperties
    <2>2. Unescaping(doc)[i] \in Seq(D)
      BY <2>1, UnescapingType
    <2>3. QED
      BY <2>1, <2>2, ConcatEmptySeq
  <1>2. QED
    BY <1>1 DEF Rewrites

\* Two pieces side by side are repaired each on its own.
LEMMA RewritesBoth ==
  ASSUME NEW D, Separators \subseteq D, NEW a, NEW b, NEW a2, NEW b2,
         Rewrites(a, b, D), Rewrites(a2, b2, D)
  PROVE  Rewrites(a \o a2, b \o b2, D)
  <1>1. a \in Seq(D) /\ b \in Seq(D) /\ a2 \in Seq(D) /\ b2 \in Seq(D)
    BY DEF Rewrites
  <1>2. /\ a \o a2 \in Seq(D) /\ b \o b2 \in Seq(D)
        /\ Len(a) \in Nat /\ Len(a2) \in Nat /\ Len(a \o a2) = Len(a) + Len(a2)
    BY <1>1, ConcatProperties, LenProperties
  <1>3. ASSUME NEW doc \in Seq(D), NEW i \in 1..(Len(doc) + 1), Has(doc, i, a \o a2)
        PROVE  Unescaping(doc)[i] = (b \o b2) \o Unescaping(doc)[i + Len(a \o a2)]
    <2>1. Len(doc) \in Nat
      BY LenProperties
    <2>2. \A k \in 1..(Len(a) + Len(a2)) :
            (a \o a2)[k] = IF k <= Len(a) THEN a[k] ELSE a2[k - Len(a)]
      BY <1>1, ConcatProperties
    <2>3. Has(doc, i, a)
      <3>1. i + Len(a) <= Len(doc) + 1
        BY <1>2, <1>3, <2>1 DEF Has
      <3>2. ASSUME NEW k \in 1..Len(a)
            PROVE  doc[i + k - 1] = a[k]
        <4>1. k \in 1..Len(a \o a2) /\ k \in 1..(Len(a) + Len(a2)) /\ k <= Len(a)
          BY <1>2
        <4>2. (a \o a2)[k] = a[k]
          BY <2>2, <4>1
        <4>3. QED
          BY <1>3, <4>1, <4>2 DEF Has
      <3>3. QED
        BY <3>1, <3>2 DEF Has
    <2>4. i + Len(a) \in 1..(Len(doc) + 1)
      BY <1>2, <1>3, <2>1 DEF Has
    <2>5. Has(doc, i + Len(a), a2)
      <3>1. i + Len(a) + Len(a2) <= Len(doc) + 1
        BY <1>2, <1>3, <2>1 DEF Has
      <3>2. ASSUME NEW k \in 1..Len(a2)
            PROVE  doc[i + Len(a) + k - 1] = a2[k]
        <4>1. Len(a) + k \in 1..Len(a \o a2) /\ i + (Len(a) + k) - 1 = i + Len(a) + k - 1
          BY <1>2
        <4>2. (a \o a2)[Len(a) + k] = a2[k]
          BY <1>2, <2>2
        <4>3. QED
          BY <1>3, <4>1, <4>2 DEF Has
      <3>3. QED
        BY <3>1, <3>2 DEF Has
    <2>6. Unescaping(doc)[i] = b \o Unescaping(doc)[i + Len(a)]
      BY <2>3 DEF Rewrites
    <2>7. Unescaping(doc)[i + Len(a)] = b2 \o Unescaping(doc)[i + Len(a) + Len(a2)]
      BY <2>4, <2>5 DEF Rewrites
    <2>8. i + Len(a) + Len(a2) = i + Len(a \o a2) /\ i + Len(a \o a2) \in 1..(Len(doc) + 6)
      BY <1>2, <1>3, <2>1 DEF Has
    <2>9. Unescaping(doc)[i + Len(a \o a2)] \in Seq(D)
      BY <2>8, UnescapingType
    <2> DEFINE rest == Unescaping(doc)[i + Len(a \o a2)]
    <2>10. Unescaping(doc)[i] = b \o (b2 \o rest)
      BY <2>6, <2>7, <2>8
    <2>11. rest \in Seq(D)
      BY <2>9
    <2> HIDE DEF rest
    <2>12. (b \o b2) \o rest = b \o (b2 \o rest)
      <3>1. b \in Seq(D) /\ b2 \in Seq(D)
        BY <1>1
      <3>2. QED
        BY <2>11, <3>1, ConcatAssociative
    <2>13. QED
      BY <2>10, <2>12 DEF rest
  <1>4. QED
    BY <1>2, <1>3 DEF Rewrites

\* And so are any number.
LEMMA RewritesAll ==
  ASSUME NEW D, Separators \subseteq D, NEW s \in Seq(Seq(D)), NEW t \in Seq(Seq(D)),
         Len(s) = Len(t), \A i \in 1..Len(s) : Rewrites(s[i], t[i], D)
  PROVE  Rewrites(FlattenSeq(s), FlattenSeq(t), D)
  <1> DEFINE R == {p \in Seq(D) \X Seq(D) : Rewrites(p[1], p[2], D)}
  <1>1. \A a, b : <<a, b>> \in R <=> Rewrites(a, b, D)
    BY DEF Rewrites
  <1> HIDE DEF R
  <1>2. <<<<>>, <<>>>> \in R
    BY <1>1, RewritesNothing
  <1>3. \A a, b, c, d : <<a, b>> \in R /\ <<c, d>> \in R => <<a \o c, b \o d>> \in R
    BY <1>1, RewritesBoth
  <1>4. \A i \in 1..Len(s) : <<s[i], t[i]>> \in R
    BY <1>1
  <1>5. <<FlattenSeq(s), FlattenSeq(t)>> \in R
    BY <1>2, <1>3, <1>4, FlattenRelated
  <1>6. QED
    BY <1>1, <1>5

\* A token that stands on its own is repaired as Unescaped says.
LEMMA RewritesToken ==
  ASSUME NEW D, Separators \subseteq D, NEW token, Whole(token, D)
  PROVE  Rewrites(token, Unescaped(token), D)
  <1>1. /\ token \in Seq(D) /\ Unescaped(token) \in Seq(D)
        /\ Len(token) \in Nat /\ Len(token) # 0
    BY UnescapedType, LenProperties DEF Whole
  <1>2. ASSUME NEW doc \in Seq(D), NEW i \in 1..(Len(doc) + 1), Has(doc, i, token)
        PROVE  Unescaping(doc)[i] = Unescaped(token) \o Unescaping(doc)[i + Len(token)]
    <2>1. Len(doc) \in Nat /\ i \in 1..Len(doc)
      BY <1>1, <1>2, LenProperties DEF Has
    <2>2. TokenLength(doc, i) = Len(token)
      BY <1>2, <2>1 DEF Whole
    <2>3. Token(doc, i) = token
      <3>1. /\ Token(doc, i) \in Seq(D) /\ Len(Token(doc, i)) = Len(token)
            /\ \A k \in 1..Len(token) : Token(doc, i)[k] = doc[i + k - 1]
        BY <2>1, <2>2, TokenType
      <3>2. \A k \in 1..Len(token) : Token(doc, i)[k] = token[k]
        BY <1>2, <3>1 DEF Has
      <3>3. QED
        BY <1>1, <3>1, <3>2, SeqEqual
    <2>4. QED
      BY <2>1, <2>2, <2>3, UnescapingSteps
  <1>3. QED
    BY <1>1, <1>2 DEF Rewrites

\* A document that is one piece is repaired as that piece is.
LEMMA UnescapesSelf ==
  ASSUME NEW D, Separators \subseteq D, NEW a, NEW b, Rewrites(a, b, D)
  PROVE  unescapeLineAndParagraphSeparators(a) = b
  <1>1. a \in Seq(D) /\ b \in Seq(D) /\ Len(a) \in Nat
    BY LenProperties DEF Rewrites
  <1>2. 1 \in 1..(Len(a) + 1) /\ Has(a, 1, a)
    BY <1>1 DEF Has
  <1>3. Unescaping(a)[1] = b \o Unescaping(a)[1 + Len(a)]
    BY <1>1, <1>2 DEF Rewrites
  <1>4. Unescaping(a)[1 + Len(a)] = <<>>
    BY <1>1, UnescapingSteps
  <1>5. QED
    BY <1>1, <1>3, <1>4, UnescapingFrom, ConcatEmptySeq

-----------------------------------------------------------------------------
(* The payload the SDK writes, piece by piece. *)

\* The characters that have an escape of one letter, and what is not one of them.
LEMMA ShortShape ==
  /\ DOMAIN ShortEscapes = {8, 9, 10, 12, 13}
  /\ \A ch \in DOMAIN ShortEscapes : ShortEscapes[ch] \in {98, 116, 110, 102, 114}
  /\ \A ch, x \in DOMAIN ShortEscapes : ShortEscapes[ch] = ShortEscapes[x] => ch = x
  <1>1. DOMAIN ShortEscapes = {8, 9, 10, 12, 13}
    BY DEF ShortEscapes
  <1>2. /\ ShortEscapes[8] = 98 /\ ShortEscapes[9] = 116 /\ ShortEscapes[10] = 110
        /\ ShortEscapes[12] = 102 /\ ShortEscapes[13] = 114
    BY DEF ShortEscapes
  <1>3. QED
    BY <1>1, <1>2

\* The digits of an escape by number tell the character.
LEMMA EscapeDigits ==
  /\ DOMAIN EscapedAsU = ((0..31) \ {8, 9, 10, 12, 13}) \union Separators
  /\ \A ch \in DOMAIN EscapedAsU :
       /\ EscapedAsU[ch] \in Seq(Nat) /\ Len(EscapedAsU[ch]) = 4
       /\ EscapedAsU[ch][1] = IF ch \in Separators THEN 50 ELSE 48
  /\ \A ch, x \in DOMAIN EscapedAsU : EscapedAsU[ch] = EscapedAsU[x] => ch = x
  <1>1. DOMAIN EscapedAsU = ((0..31) \ {8, 9, 10, 12, 13}) \union Separators
    BY ShortShape DEF EscapedAsU
  <1>2. \A m, n \in 0..15 : HexDigit(m) \in Nat /\ (HexDigit(m) = HexDigit(n) => m = n)
    BY DEF HexDigit
  <1>3. ASSUME NEW ch \in DOMAIN EscapedAsU
        PROVE  /\ EscapedAsU[ch] = <<HexDigit(ch \div 4096), HexDigit((ch \div 256) % 16),
                                     HexDigit((ch \div 16) % 16), HexDigit(ch % 16)>>
               /\ ch \div 4096 \in 0..15 /\ (ch \div 256) % 16 \in 0..15
               /\ (ch \div 16) % 16 \in 0..15 /\ ch % 16 \in 0..15
               /\ ch \div 4096 = IF ch \in Separators THEN 2 ELSE 0
    <2>1. EscapedAsU[ch] = <<HexDigit(ch \div 4096), HexDigit((ch \div 256) % 16),
                             HexDigit((ch \div 16) % 16), HexDigit(ch % 16)>>
      BY DEF EscapedAsU
    <2>2. ch \in 0..31 \/ ch = 8232 \/ ch = 8233
      BY <1>1 DEF Separators, LS, PS
    <2>3. ch \in Separators <=> ch = 8232 \/ ch = 8233
      BY DEF Separators, LS, PS
    <2>4. /\ ch \div 4096 = IF ch = 8232 \/ ch = 8233 THEN 2 ELSE 0
          /\ (ch \div 256) % 16 \in 0..15 /\ (ch \div 16) % 16 \in 0..15 /\ ch % 16 \in 0..15
      BY <2>2
    <2>5. QED
      BY <2>1, <2>3, <2>4
  <1>4. ASSUME NEW ch \in DOMAIN EscapedAsU
        PROVE  /\ EscapedAsU[ch] \in Seq(Nat) /\ Len(EscapedAsU[ch]) = 4
               /\ EscapedAsU[ch][1] = IF ch \in Separators THEN 50 ELSE 48
    <2>1. HexDigit(2) = 50 /\ HexDigit(0) = 48
      BY DEF HexDigit
    <2>2. \A a, b, c, d \in Nat : <<a, b, c, d>> \in Seq(Nat) /\ Len(<<a, b, c, d>>) = 4 /\ <<a, b, c, d>>[1] = a
      OBVIOUS
    <2>3. \A n \in 0..15 : HexDigit(n) \in Nat
      BY <1>2
    <2> DEFINE a == HexDigit(ch \div 4096)
               b == HexDigit((ch \div 256) % 16)
               c == HexDigit((ch \div 16) % 16)
               d == HexDigit(ch % 16)
    <2>4. a \in Nat /\ b \in Nat /\ c \in Nat /\ d \in Nat /\ a = IF ch \in Separators THEN 50 ELSE 48
      BY <1>3, <2>1, <2>3
    <2>5. EscapedAsU[ch] = <<a, b, c, d>>
      BY <1>3
    <2> HIDE DEF a, b, c, d
    <2>6. <<a, b, c, d>> \in Seq(Nat) /\ Len(<<a, b, c, d>>) = 4 /\ <<a, b, c, d>>[1] = a
      BY <2>2, <2>4
    <2>7. QED
      BY <2>4, <2>5, <2>6
  <1>5. ASSUME NEW ch \in DOMAIN EscapedAsU, NEW x \in DOMAIN EscapedAsU, EscapedAsU[ch] = EscapedAsU[x]
        PROVE  ch = x
    <2>1. /\ HexDigit(ch \div 4096) = HexDigit(x \div 4096)
          /\ HexDigit((ch \div 16) % 16) = HexDigit((x \div 16) % 16)
          /\ HexDigit(ch % 16) = HexDigit(x % 16)
      BY <1>3, <1>5
    <2>2. /\ ch \div 4096 = x \div 4096 /\ (ch \div 16) % 16 = (x \div 16) % 16 /\ ch % 16 = x % 16
      BY <1>2, <1>3, <2>1
    <2>3. /\ ch \in 0..31 \/ ch = 8232 \/ ch = 8233
          /\ x \in 0..31 \/ x = 8232 \/ x = 8233
      BY <1>1 DEF Separators, LS, PS
    <2>4. QED
      BY <2>2, <2>3
  <1>6. QED
    BY <1>1, <1>4, <1>5

\* The six elements of an escape by number.
LEMMA EscapeShape ==
  ASSUME NEW ch \in DOMAIN EscapedAsU, NEW x, x = <<Backslash, LetterU>> \o EscapedAsU[ch]
  PROVE  /\ x \in Seq(Nat) /\ Len(x) = 6 /\ x[1] = Backslash /\ x[2] = LetterU
         /\ x[3] = (IF ch \in Separators THEN 50 ELSE 48)
         /\ \A c \in DOMAIN EscapedAsU : x = <<Backslash, LetterU>> \o EscapedAsU[c] => c = ch
  <1> DEFINE head == <<Backslash, LetterU>>
  <1>1. head \in Seq(Nat) /\ Len(head) = 2 /\ head[1] = Backslash /\ head[2] = LetterU
    BY DEF Backslash, LetterU
  <1> HIDE DEF head
  <1>2. ASSUME NEW c \in DOMAIN EscapedAsU
        PROVE  /\ head \o EscapedAsU[c] \in Seq(Nat) /\ Len(head \o EscapedAsU[c]) = 6
               /\ \A k \in 1..2 : (head \o EscapedAsU[c])[k] = head[k]
               /\ \A k \in 1..4 : (head \o EscapedAsU[c])[2 + k] = EscapedAsU[c][k]
    <2> DEFINE digits == EscapedAsU[c]
    <2>1. digits \in Seq(Nat) /\ Len(digits) = 4
      BY EscapeDigits
    <2> HIDE DEF digits
    <2>2. /\ head \o digits \in Seq(Nat) /\ Len(head \o digits) = Len(head) + Len(digits)
          /\ \A k \in 1..Len(head) : (head \o digits)[k] = head[k]
          /\ \A k \in 1..Len(digits) : (head \o digits)[Len(head) + k] = digits[k]
      <3>1. head \in Seq(Nat) /\ digits \in Seq(Nat)
        BY <1>1, <2>1
      <3>2. QED
        BY <3>1, SideBySide
    <2>3. /\ head \o digits \in Seq(Nat) /\ Len(head \o digits) = 6
          /\ \A k \in 1..2 : (head \o digits)[k] = head[k]
          /\ \A k \in 1..4 : (head \o digits)[2 + k] = digits[k]
      <3> DEFINE x2 == head \o digits
      <3>1. /\ Len(head) = 2 /\ Len(digits) = 4 /\ x2 \in Seq(Nat) /\ Len(x2) = Len(head) + Len(digits)
            /\ \A k \in 1..Len(head) : x2[k] = head[k]
            /\ \A k \in 1..Len(digits) : x2[Len(head) + k] = digits[k]
        BY <1>1, <2>1, <2>2
      <3> HIDE DEF x2
      <3>2. /\ x2 \in Seq(Nat) /\ Len(x2) = 6
            /\ \A k \in 1..2 : x2[k] = head[k]
            /\ \A k \in 1..4 : x2[2 + k] = digits[k]
        BY <3>1
      <3>3. QED
        BY <3>2 DEF x2
    <2>4. QED
      BY <2>3 DEF digits
  <1>3. x = head \o EscapedAsU[ch]
    BY DEF head
  <1>4. ASSUME NEW c \in DOMAIN EscapedAsU, x = head \o EscapedAsU[c]  PROVE c = ch
    <2>1. \A k \in 1..4 : EscapedAsU[c][k] = EscapedAsU[ch][k]
      <3> SUFFICES ASSUME NEW k \in 1..4  PROVE EscapedAsU[c][k] = EscapedAsU[ch][k]
        OBVIOUS
      <3>1. \A e \in DOMAIN EscapedAsU : \A j \in 1..4 : (head \o EscapedAsU[e])[2 + j] = EscapedAsU[e][j]
        BY <1>2
      <3>2. x[2 + k] = EscapedAsU[c][k] /\ x[2 + k] = EscapedAsU[ch][k]
        BY <1>3, <1>4, <3>1
      <3>3. QED
        BY <3>2
    <2>2. EscapedAsU[c] = EscapedAsU[ch]
      <3>1. EscapedAsU[c] \in Seq(Nat) /\ EscapedAsU[ch] \in Seq(Nat)
            /\ Len(EscapedAsU[c]) = 4 /\ Len(EscapedAsU[ch]) = 4
        BY EscapeDigits
      <3>2. QED
        BY <2>1, <3>1, SeqEqual
    <2>3. QED
      BY <2>2, EscapeDigits
  <1>5. x[1] = head[1] /\ x[2] = head[2] /\ x[3] = EscapedAsU[ch][1]
    <2>1. 1 \in 1..2 /\ 2 \in 1..2 /\ 1 \in 1..4 /\ 2 + 1 = 3
      OBVIOUS
    <2>2. QED
      BY <1>2, <1>3, <2>1
  <1>6. x \in Seq(Nat) /\ Len(x) = 6
    BY <1>2, <1>3
  <1>7. x[3] = (IF ch \in Separators THEN 50 ELSE 48)
    BY <1>5, EscapeDigits
  <1>8. \A c \in DOMAIN EscapedAsU : x = <<Backslash, LetterU>> \o EscapedAsU[c] => c = ch
    BY <1>4 DEF head
  <1>9. QED
    BY <1>1, <1>5, <1>6, <1>7, <1>8

\* No other token is repaired.
LEMMA UnescapedOthers ==
  ASSUME NEW token, Len(token) # 6 \/ token[3] # 50
  PROVE  Unescaped(token) = token
  <1>1. ASSUME NEW ch \in Separators, token = <<Backslash, LetterU>> \o EscapedAsU[ch]
        PROVE  FALSE
    <2>1. ch \in DOMAIN EscapedAsU
      BY EscapeDigits
    <2>2. Len(token) = 6 /\ token[3] = 50
      BY <1>1, <2>1, EscapeShape
    <2>3. QED
      BY <2>2
  <1>2. QED
    BY <1>1 DEF Unescaped

\* No character is escaped in two ways.
LEMMA Kinds ==
  /\ \A ch \in DOMAIN ShortEscapes : ch \notin {Backslash, Quote} /\ ch \notin DOMAIN EscapedAsU
  /\ \A ch \in DOMAIN EscapedAsU : ch \notin {Backslash, Quote} /\ ch \notin DOMAIN ShortEscapes
  /\ \A ch \in {Backslash, Quote} : ch \notin DOMAIN ShortEscapes /\ ch \notin DOMAIN EscapedAsU
  <1>1. DOMAIN ShortEscapes = {8, 9, 10, 12, 13}
    BY ShortShape
  <1>2. DOMAIN EscapedAsU = ((0..31) \ {8, 9, 10, 12, 13}) \union {8232, 8233}
    BY EscapeDigits DEF Separators, LS, PS
  <1>3. QED
    BY <1>1, <1>2 DEF Backslash, Quote

\* One element that opens no escape is a token of its own.
LEMMA WholeRaw ==
  ASSUME NEW D, NEW c \in D, c # Backslash
  PROVE  Whole(<<c>>, D)
  <1> DEFINE token == <<c>>
  <1>1. token \in Seq(D) /\ Len(token) = 1 /\ Len(token) # 0 /\ token[1] = c
    OBVIOUS
  <1> HIDE DEF token
  <1>2. ASSUME NEW doc \in Seq(D), NEW i \in Nat \ {0}, Has(doc, i, token)
        PROVE  TokenLength(doc, i) = Len(token)
    <2>1. doc[i] = c
      BY <1>1, <1>2 DEF Has
    <2>2. QED
      BY <1>1, <2>1 DEF TokenLength
  <1>3. QED
    BY <1>1, <1>2 DEF token, Whole

\* It stays as it is.
LEMMA RewritesRaw ==
  ASSUME NEW D, Separators \subseteq D, NEW c \in D, c # Backslash
  PROVE  Rewrites(<<c>>, <<c>>, D)
  <1>1. Unescaped(<<c>>) = <<c>>
    BY UnescapedOthers
  <1>2. Rewrites(<<c>>, Unescaped(<<c>>), D)
    BY WholeRaw, RewritesToken
  <1>3. QED
    BY <1>1, <1>2

\* What follows the backslash of a short escape.
ShortLetters == {Quote, Backslash, 98, 102, 110, 114, 116}

\* A short escape is a token of its own.
LEMMA WholeShort ==
  ASSUME NEW D, Nat \subseteq D, NEW c \in ShortLetters
  PROVE  Whole(<<Backslash, c>>, D)
  <1> DEFINE token == <<Backslash, c>>
  <1>1. /\ token \in Seq(D) /\ Len(token) = 2 /\ Len(token) # 0
        /\ token[1] = Backslash /\ token[2] = c
    <2>1. Backslash \in D /\ c \in D
      BY DEF ShortLetters, Backslash, Quote
    <2>2. QED
      BY <2>1
  <1> HIDE DEF token
  <1>4. ASSUME NEW doc \in Seq(D), NEW i \in Nat \ {0}, Has(doc, i, token)
        PROVE  TokenLength(doc, i) = Len(token)
    <2>1. Len(doc) \in Nat /\ i + 1 <= Len(doc) /\ doc[i] = Backslash /\ doc[i + 1] = c
      <3>1. Len(doc) \in Nat
        BY LenProperties
      <3>2. i + 1 - 1 = i /\ i + 2 - 1 = i + 1 /\ 1 \in 1..2 /\ 2 \in 1..2
        OBVIOUS
      <3>3. QED
        BY <1>1, <1>4, <3>1, <3>2 DEF Has
    <2>2. i # Len(doc) /\ c # LetterU
      <3>1. c # LetterU
        BY DEF ShortLetters, Backslash, Quote, LetterU
      <3>2. QED
        BY <2>1, <3>1
    <2>3. TokenLength(doc, i) = 2
      BY <2>1, <2>2 DEF TokenLength, ShortLetters
    <2>4. QED
      BY <1>1, <2>3
  <1>5. QED
    BY <1>1, <1>4 DEF token, Whole

\* It stays as it is, the escaped backslash included.
LEMMA RewritesShort ==
  ASSUME NEW D, Nat \subseteq D, NEW c \in ShortLetters
  PROVE  Rewrites(<<Backslash, c>>, <<Backslash, c>>, D)
  <1>1. Separators \subseteq D
    BY DEF Separators, LS, PS
  <1>2. Unescaped(<<Backslash, c>>) = <<Backslash, c>>
    BY UnescapedOthers
  <1>3. Rewrites(<<Backslash, c>>, Unescaped(<<Backslash, c>>), D)
    BY <1>1, WholeShort, RewritesToken
  <1>4. QED
    BY <1>2, <1>3

\* An escape by number is a token of its own.
LEMMA WholeLong ==
  ASSUME NEW D, Nat \subseteq D, NEW ch \in DOMAIN EscapedAsU
  PROVE  Whole(<<Backslash, LetterU>> \o EscapedAsU[ch], D)
  <1> DEFINE token == <<Backslash, LetterU>> \o EscapedAsU[ch]
  <1>0. token = <<Backslash, LetterU>> \o EscapedAsU[ch]
    OBVIOUS
  <1> HIDE DEF token
  <1>1. /\ token \in Seq(D) /\ Len(token) = 6 /\ Len(token) # 0
        /\ token[1] = Backslash /\ token[2] = LetterU
    <2>1. token \in Seq(Nat)
      BY <1>0, EscapeShape
    <2>2. token \in Seq(D)
      BY <2>1, SeqMonotonic
    <2>3. /\ Len(token) = 6 /\ token[1] = Backslash /\ token[2] = LetterU
      BY <1>0, EscapeShape
    <2>4. QED
      BY <2>2, <2>3
  <1>2. ASSUME NEW doc \in Seq(D), NEW i \in Nat \ {0}, Has(doc, i, token)
        PROVE  TokenLength(doc, i) = Len(token)
    <2>1. Len(doc) \in Nat /\ i + 5 <= Len(doc) /\ doc[i] = Backslash /\ doc[i + 1] = LetterU
      <3>1. Len(doc) \in Nat
        BY LenProperties
      <3>2. i + 1 - 1 = i /\ i + 2 - 1 = i + 1 /\ 1 \in 1..6 /\ 2 \in 1..6
        OBVIOUS
      <3>3. QED
        BY <1>1, <1>2, <3>1, <3>2 DEF Has
    <2>2. i # Len(doc)
      BY <2>1
    <2>3. TokenLength(doc, i) = 6
      BY <2>1, <2>2 DEF TokenLength
    <2>4. QED
      BY <1>1, <2>3
  <1>3. QED
    BY <1>1, <1>2 DEF token, Whole

\* It becomes the raw separator, or stays when it is a control character's.
LEMMA RewritesLong ==
  ASSUME NEW D, Nat \subseteq D, NEW ch \in DOMAIN EscapedAsU
  PROVE  Rewrites(<<Backslash, LetterU>> \o EscapedAsU[ch], SerdeChar(ch), D)
  <1> DEFINE token == <<Backslash, LetterU>> \o EscapedAsU[ch]
  <1>0. token = <<Backslash, LetterU>> \o EscapedAsU[ch]
    OBVIOUS
  <1>1. Whole(token, D)
    BY WholeLong
  <1> HIDE DEF token
  <1>2. /\ Len(token) = 6 /\ token[3] = (IF ch \in Separators THEN 50 ELSE 48)
        /\ \A x \in DOMAIN EscapedAsU : token = <<Backslash, LetterU>> \o EscapedAsU[x] => x = ch
    BY <1>0, EscapeShape, ZenonT(60)
  <1>3. ch \notin {Backslash, Quote} /\ ch \notin DOMAIN ShortEscapes
    BY Kinds
  <1>4. Unescaped(token) = SerdeChar(ch)
    <2>1. CASE ch \notin Separators
      <3>1. SerdeChar(ch) = token
        BY <1>0, <1>3, <2>1 DEF SerdeChar
      <3>2. QED
        BY <1>2, <2>1, <3>1, UnescapedOthers
    <2>2. CASE ch \in Separators
      <3>1. \A x \in Separators : x \in DOMAIN EscapedAsU
        BY EscapeDigits
      <3>2. {x \in Separators : token = <<Backslash, LetterU>> \o EscapedAsU[x]} = {ch}
        BY <1>0, <1>2, <2>2, <3>1
      <3>3. Unescaped(token) = <<ch>>
        BY <3>2 DEF Unescaped
      <3>4. SerdeChar(ch) = <<ch>>
        BY <1>3, <2>2 DEF SerdeChar
      <3>5. QED
        BY <3>3, <3>4
    <2>3. QED
      BY <2>1, <2>2
  <1>5. Rewrites(token, Unescaped(token), D)
    <2>1. Separators \subseteq D
      BY DEF Separators, LS, PS
    <2>2. QED
      BY <1>1, <2>1, RewritesToken
  <1>6. QED
    BY <1>4, <1>5 DEF token

\* What encoding/json writes of a character becomes what serde_json writes of it.
LEMMA RewritesChar ==
  ASSUME NEW D, Nat \subseteq D, NEW ch \in D
  PROVE  Rewrites(EncodeChar(ch), SerdeChar(ch), D)
  <1>1. Separators \subseteq D
    BY DEF Separators, LS, PS
  <1>2. CASE ch \in {Backslash, Quote}
    <2>1. EncodeChar(ch) = <<Backslash, ch>> /\ SerdeChar(ch) = <<Backslash, ch>>
      BY <1>2, Kinds DEF EncodeChar, SerdeChar
    <2>2. ch \in ShortLetters
      BY <1>2 DEF ShortLetters
    <2>3. QED
      BY <2>1, <2>2, RewritesShort
  <1>3. CASE ch \in DOMAIN ShortEscapes
    <2>1. ch \notin {Backslash, Quote} /\ ch \notin DOMAIN EscapedAsU
      BY <1>3, Kinds
    <2>2. EncodeChar(ch) = <<Backslash, ShortEscapes[ch]>>
      BY <1>3, <2>1 DEF EncodeChar
    <2>3. SerdeChar(ch) = <<Backslash, ShortEscapes[ch]>>
      BY <1>3, <2>1 DEF SerdeChar
    <2>4. ShortEscapes[ch] \in ShortLetters
      BY <1>3, ShortShape DEF ShortLetters
    <2>5. QED
      BY <2>2, <2>3, <2>4, RewritesShort
  <1>4. CASE ch \in DOMAIN EscapedAsU
    <2>1. ch \notin {Backslash, Quote} /\ ch \notin DOMAIN ShortEscapes
      BY <1>4, Kinds
    <2>2. EncodeChar(ch) = <<Backslash, LetterU>> \o EscapedAsU[ch]
      BY <1>4, <2>1 DEF EncodeChar
    <2>3. QED
      BY <1>4, <2>2, RewritesLong
  <1>5. CASE ch \notin {Backslash, Quote} \union DOMAIN ShortEscapes \union DOMAIN EscapedAsU
    <2>1. EncodeChar(ch) = <<ch>>
      BY <1>5 DEF EncodeChar
    <2>2. SerdeChar(ch) = <<ch>>
      BY <1>5 DEF SerdeChar
    <2>3. QED
      BY <1>1, <1>5, <2>1, <2>2, RewritesRaw
  <1>6. QED
    BY <1>2, <1>3, <1>4, <1>5

\* The same of a string.
LEMMA RewritesString ==
  ASSUME NEW D, Nat \subseteq D, NEW text \in Seq(D)
  PROVE  Rewrites(String(text, "json"), String(text, "serde"), D)
  <1> DEFINE a == [i \in 1..Len(text) |-> EncodeChar(text[i])]
             b == [i \in 1..Len(text) |-> SerdeChar(text[i])]
             q == <<Quote>>
  <1>1. Len(text) \in Nat /\ \A i \in 1..Len(text) : text[i] \in D
    BY LenProperties, ElementOfSeq
  <1>2. \A i \in 1..Len(text) : Rewrites(EncodeChar(text[i]), SerdeChar(text[i]), D)
    BY <1>1, RewritesChar
  <1>3. /\ \A i \in 1..Len(text) : Rewrites(a[i], b[i], D)
        /\ \A i \in 1..Len(text) : a[i] \in Seq(D) /\ b[i] \in Seq(D)
    BY <1>2 DEF Rewrites
  <1>4. a \in Seq(Seq(D)) /\ b \in Seq(Seq(D)) /\ Len(a) = Len(text) /\ Len(b) = Len(text)
    BY <1>1, <1>3
  <1>5. Separators \subseteq D /\ Quote \in D /\ Quote # Backslash
    BY DEF Separators, LS, PS, Quote, Backslash
  <1>6. Rewrites(q, q, D)
    BY <1>5, RewritesRaw
  <1> HIDE DEF a, b, q
  <1>7. Rewrites(FlattenSeq(a), FlattenSeq(b), D)
    BY <1>3, <1>4, <1>5, RewritesAll
  <1>8. Rewrites(q \o FlattenSeq(a), q \o FlattenSeq(b), D)
    BY <1>5, <1>6, <1>7, RewritesBoth
  <1>9. Rewrites(q \o FlattenSeq(a) \o q, q \o FlattenSeq(b) \o q, D)
    BY <1>5, <1>6, <1>8, RewritesBoth
  <1>10. QED
    BY <1>9 DEF a, b, q, String, Encoded

\* The keys of an object, in order, are names of its fields.
LEMMA KeysOfObject ==
  ASSUME NEW S \in SUBSET Strings, IsFiniteSet(S)
  PROVE  /\ Sorted(S) \in Seq(S) /\ Len(Sorted(S)) \in Nat
         /\ \A i \in 1..Len(Sorted(S)) : Sorted(S)[i] \in S /\ Sorted(S)[i] \in Strings
  BY SortedParts, LenProperties, ElementOfSeq

\* The same of an object whose fields are repaired so, whatever their names.
LEMMA RewritesObject ==
  ASSUME NEW D, Nat \subseteq D, NEW f, NEW g, DOMAIN f = DOMAIN g,
         DOMAIN f \in SUBSET Strings, IsFiniteSet(DOMAIN f),
         \A k \in DOMAIN f : Rewrites(f[k], g[k], D)
  PROVE  Rewrites(Object(f, "json"), Object(g, "serde"), D)
  <1> DEFINE keys     == Sorted(DOMAIN f)
             Comma(i) == IF i < Len(keys) THEN <<44>> ELSE <<>>
             A(i)     == String(keys[i], "json") \o <<58>> \o f[keys[i]] \o Comma(i)
             C(i)     == String(keys[i], "serde") \o <<58>> \o g[keys[i]] \o Comma(i)
             a        == [i \in 1..Len(keys) |-> A(i)]
             c        == [i \in 1..Len(keys) |-> C(i)]
  <1>1. /\ Object(f, "json") = <<123>> \o FlattenSeq(a) \o <<125>>
        /\ Object(g, "serde") = <<123>> \o FlattenSeq(c) \o <<125>>
    BY DEF Object
  <1>2. Separators \subseteq D
    BY DEF Separators, LS, PS
  <1>3. /\ Rewrites(<<123>>, <<123>>, D) /\ Rewrites(<<125>>, <<125>>, D)
        /\ Rewrites(<<58>>, <<58>>, D) /\ Rewrites(<<44>>, <<44>>, D) /\ Rewrites(<<>>, <<>>, D)
    <2>1. \A n \in {123, 125, 58, 44} : n \in D /\ n # Backslash
      BY DEF Backslash
    <2>2. QED
      BY <1>2, <2>1, RewritesRaw, RewritesNothing
  <1>4. Len(keys) \in Nat /\ \A i \in 1..Len(keys) : keys[i] \in DOMAIN f /\ keys[i] \in Strings
    BY KeysOfObject
  <1>5. ASSUME NEW i \in 1..Len(keys)
        PROVE  Rewrites(A(i), C(i), D)
    <2> DEFINE k  == keys[i]
               x  == String(k, "json")
               y  == String(k, "serde")
               fk == f[k]
               gk == g[k]
               colon == <<58>>
               comma == Comma(i)
    <2>1. Rewrites(x, y, D)
      <3>1. k \in Seq(D)
        BY <1>4, SeqMonotonic DEF Strings
      <3>2. QED
        BY <3>1, RewritesString
    <2>2. Rewrites(fk, gk, D)
      BY <1>4
    <2>3. Rewrites(comma, comma, D) /\ Rewrites(colon, colon, D)
      BY <1>3
    <2>4. A(i) = x \o colon \o fk \o comma /\ C(i) = y \o colon \o gk \o comma
      OBVIOUS
    <2> HIDE DEF k, x, y, fk, gk, colon, comma, A, C
    <2>5. Rewrites(x \o colon, y \o colon, D)
      BY <1>2, <2>1, <2>3, RewritesBoth
    <2>6. Rewrites(x \o colon \o fk, y \o colon \o gk, D)
      BY <1>2, <2>2, <2>5, RewritesBoth
    <2>7. Rewrites(x \o colon \o fk \o comma, y \o colon \o gk \o comma, D)
      BY <1>2, <2>3, <2>6, RewritesBoth
    <2>8. QED
      BY <2>4, <2>7
  <1> HIDE DEF A, C, keys
  <1>6. \A i \in 1..Len(keys) : A(i) \in Seq(D) /\ C(i) \in Seq(D)
    BY <1>5 DEF Rewrites
  <1>7. /\ a \in Seq(Seq(D)) /\ c \in Seq(Seq(D)) /\ Len(a) = Len(c)
        /\ \A i \in 1..Len(a) : Rewrites(a[i], c[i], D)
    BY <1>4, <1>5, <1>6
  <1> HIDE DEF a, c
  <1>8. Rewrites(FlattenSeq(a), FlattenSeq(c), D)
    BY <1>2, <1>7, RewritesAll
  <1>9. Rewrites(<<123>> \o FlattenSeq(a), <<123>> \o FlattenSeq(c), D)
    BY <1>2, <1>3, <1>8, RewritesBoth
  <1>10. Rewrites(<<123>> \o FlattenSeq(a) \o <<125>>, <<123>> \o FlattenSeq(c) \o <<125>>, D)
    BY <1>2, <1>3, <1>9, RewritesBoth
  <1>11. QED
    BY <1>1, <1>10

\* The names of the payload are strings, and differ.
LEMMA NamesOfPayload ==
  /\ Account \in Strings /\ Dataset \in Strings /\ Fingerprint \in Strings
  /\ Id \in Strings /\ Machine \in Strings
  /\ Account # Dataset /\ Account # Machine /\ Dataset # Machine /\ Fingerprint # Id
  /\ IsFiniteSet({Id}) /\ IsFiniteSet({Id, Fingerprint}) /\ IsFiniteSet({Account, Machine, Dataset})
  <1>1. \A n \in Nat : <<n>> \in Strings /\ <<n>>[1] = n
    BY DEF Strings
  <1>2. /\ Account \in Strings /\ Account[1] = 97 /\ Dataset \in Strings /\ Dataset[1] = 100
        /\ Fingerprint \in Strings /\ Fingerprint[1] = 102 /\ Id \in Strings /\ Id[1] = 105
        /\ Machine \in Strings /\ Machine[1] = 109
    BY <1>1 DEF Account, Dataset, Fingerprint, Id, Machine
  <1>3. IsFiniteSet({Id})
    BY FS_Singleton
  <1>4. IsFiniteSet({Id} \union {Fingerprint})
    BY <1>3, FS_AddElement
  <1>5. IsFiniteSet({Account} \union {Machine} \union {Dataset})
    BY FS_Singleton, FS_AddElement
  <1>6. {Id} \union {Fingerprint} = {Id, Fingerprint}
        /\ {Account} \union {Machine} \union {Dataset} = {Account, Machine, Dataset}
    OBVIOUS
  <1>7. QED
    BY <1>2, <1>3, <1>4, <1>5, <1>6

\* The datasets of strings: any finite set of names, each with any string.
IsDataset(d) ==
  /\ DOMAIN d \in SUBSET Strings /\ IsFiniteSet(DOMAIN d)
  /\ d = [k \in DOMAIN d |-> d[k]]
  /\ \A k \in DOMAIN d : d[k] \in Strings

\* encoding/json and serde_json disagree on the separators only, and the repair puts
\* back exactly those: for every tuple the bytes the SDK rebuilds are the bytes the
\* server signed, whatever its texts and the names of its dataset hold, a text that
\* spells an escape out included (serdeCompatMarshal,
\* unescapeLineAndParagraphSeparators).
THEOREM SerdeCompatible ==
  ASSUME NEW account \in Strings, NEW machine \in Strings, NEW fingerprint \in Strings,
         NEW dataset, IsDataset(dataset)
  PROVE  LET t == Tuple(account, machine, fingerprint, dataset)
         IN  buildOfflineProofPayloadJSON(t) = Payload(t, "serde")
  <1> DEFINE t  == Tuple(account, machine, fingerprint, dataset)
             f1 == [k \in {Id} |-> String(account, "json")]
             g1 == [k \in {Id} |-> String(account, "serde")]
             f2 == [k \in {Id, Fingerprint} |-> String(IF k = Id THEN machine ELSE fingerprint, "json")]
             g2 == [k \in {Id, Fingerprint} |-> String(IF k = Id THEN machine ELSE fingerprint, "serde")]
             f3 == [k \in DOMAIN dataset |-> String(dataset[k], "json")]
             g3 == [k \in DOMAIN dataset |-> String(dataset[k], "serde")]
             f  == [k \in {Account, Machine, Dataset} |->
                      Object(CASE k = Account -> f1 [] k = Machine -> f2 [] k = Dataset -> f3, "json")]
             g  == [k \in {Account, Machine, Dataset} |->
                      Object(CASE k = Account -> g1 [] k = Machine -> g2 [] k = Dataset -> g3, "serde")]
  <1>1. \A text \in Strings : Rewrites(String(text, "json"), String(text, "serde"), Nat)
    BY RewritesString DEF Strings
  <1>2. Rewrites(Object(f1, "json"), Object(g1, "serde"), Nat)
    <2>1. /\ DOMAIN f1 = DOMAIN g1 /\ DOMAIN f1 \in SUBSET Strings /\ IsFiniteSet(DOMAIN f1)
          /\ \A k \in DOMAIN f1 : Rewrites(f1[k], g1[k], Nat)
      BY <1>1, NamesOfPayload
    <2> HIDE DEF f1, g1
    <2>2. QED
      BY <2>1, RewritesObject
  <1>3. Rewrites(Object(f2, "json"), Object(g2, "serde"), Nat)
    <2>1. /\ DOMAIN f2 = DOMAIN g2 /\ DOMAIN f2 \in SUBSET Strings /\ IsFiniteSet(DOMAIN f2)
          /\ \A k \in DOMAIN f2 : Rewrites(f2[k], g2[k], Nat)
      BY <1>1, NamesOfPayload
    <2> HIDE DEF f2, g2
    <2>2. QED
      BY <2>1, RewritesObject
  <1>4. Rewrites(Object(f3, "json"), Object(g3, "serde"), Nat)
    <2>1. /\ DOMAIN f3 = DOMAIN g3 /\ DOMAIN f3 \in SUBSET Strings /\ IsFiniteSet(DOMAIN f3)
          /\ \A k \in DOMAIN f3 : Rewrites(f3[k], g3[k], Nat)
      BY <1>1 DEF IsDataset
    <2> HIDE DEF f3, g3
    <2>2. QED
      BY <2>1, RewritesObject
  <1>5. Rewrites(Object(f, "json"), Object(g, "serde"), Nat)
    <2> HIDE DEF f1, g1, f2, g2, f3, g3
    <2>1. /\ DOMAIN f = {Account, Machine, Dataset} /\ DOMAIN g = {Account, Machine, Dataset}
          /\ f[Account] = Object(f1, "json") /\ g[Account] = Object(g1, "serde")
          /\ f[Machine] = Object(f2, "json") /\ g[Machine] = Object(g2, "serde")
          /\ f[Dataset] = Object(f3, "json") /\ g[Dataset] = Object(g3, "serde")
      BY NamesOfPayload
    <2>2. /\ DOMAIN f = DOMAIN g /\ DOMAIN f \in SUBSET Strings /\ IsFiniteSet(DOMAIN f)
          /\ \A k \in DOMAIN f : Rewrites(f[k], g[k], Nat)
      BY <1>2, <1>3, <1>4, <2>1, NamesOfPayload
    <2> HIDE DEF f, g
    <2>3. QED
      BY <2>2, RewritesObject
  <1>6. Payload(t, "json") = Object(f, "json") /\ Payload(t, "serde") = Object(g, "serde")
    BY DEF Payload, Tuple
  <1>7. unescapeLineAndParagraphSeparators(Object(f, "json")) = Object(g, "serde")
    <2>1. Separators \subseteq Nat
      BY DEF Separators, LS, PS
    <2>2. QED
      BY <1>5, <2>1, UnescapesSelf
  <1>8. QED
    BY <1>6, <1>7 DEF buildOfflineProofPayloadJSON

\* A proof the server issued for a tuple verifies for that tuple, for every tuple and
\* every key that is one (VerifyOfflineProof).
THEOREM GenuineProofIsAccepted ==
  ASSUME NEW account \in Strings, NEW machine \in Strings, NEW fingerprint \in Strings,
         NEW dataset, IsDataset(dataset), NEW key, key # "nil"
  PROVE  LET t == Tuple(account, machine, fingerprint, dataset)
         IN  VerifyOfflineProof(key, t, IssuedProof(key, t)) = "ok"
  <1> DEFINE t == Tuple(account, machine, fingerprint, dataset)
  <1>1. buildOfflineProofPayloadJSON(t) = Payload(t, "serde")
    BY SerdeCompatible
  <1> HIDE DEF t
  <1>2. /\ IssuedProof(key, t).prefix = "v1x0." /\ IssuedProof(key, t).base64
        /\ IssuedProof(key, t).sig = [key |-> key, doc |-> Payload(t, "serde")]
    BY DEF IssuedProof
  <1>3. VerifyOfflineProof(key, t, IssuedProof(key, t)) = "ok"
    BY <1>1, <1>2 DEF VerifyOfflineProof
  <1>4. QED
    BY <1>3 DEF t

-----------------------------------------------------------------------------
(* The texts a reader finds. *)

\* The string read from position i on.
Reading(doc) ==
  CHOOSE from : from = [j \in 1..Len(doc) + 6 |->
    IF j > Len(doc) \/ doc[j] = Quote THEN [text |-> <<>>, end |-> j]
    ELSE [text |-> <<DecodedToken(Token(doc, j))>> \o from[j + TokenLength(doc, j)].text,
          end  |-> from[j + TokenLength(doc, j)].end]]

\* The recursion of TextAt has a solution.
LEMMA ReadingFrom ==
  ASSUME NEW D, NEW doc \in Seq(D)
  PROVE  /\ Reading(doc) = [j \in 1..Len(doc) + 6 |->
              IF j > Len(doc) \/ doc[j] = Quote THEN [text |-> <<>>, end |-> j]
              ELSE [text |-> <<DecodedToken(Token(doc, j))>>
                                \o Reading(doc)[j + TokenLength(doc, j)].text,
                    end  |-> Reading(doc)[j + TokenLength(doc, j)].end]]
         /\ \A i : TextAt(doc, i) = Reading(doc)[i]
  <1> DEFINE N         == Len(doc) + 6
             step(j)   == TokenLength(doc, j)
             stop(j)   == j > Len(doc) \/ doc[j] = Quote
             val(g, j) == IF stop(j) THEN [text |-> <<>>, end |-> j]
                          ELSE [text |-> <<DecodedToken(Token(doc, j))>> \o g[j + step(j)].text,
                                end  |-> g[j + step(j)].end]
             Upto(m)   == \E g : g = [j \in m..N |-> val(g, j)]
             B         == {m \in 1..N + 1 : Upto(m)}
  <1>1. N \in Nat /\ Len(doc) \in Nat
    BY LenProperties
  <1>2. N + 1 \in B
    <2>1. (N + 1)..N = {}
      BY <1>1
    <2>2. <<>> = [j \in (N + 1)..N |-> val(<<>>, j)]
      BY <2>1
    <2>3. Upto(N + 1)
      BY <2>2
    <2> HIDE DEF Upto
    <2>4. QED
      BY <1>1, <2>3
  <1>3. ASSUME NEW m \in 1..N, m + 1 \in B
        PROVE  m \in B
    <2>1. PICK g : g = [j \in (m + 1)..N |-> val(g, j)]
      BY <1>3
    <2> DEFINE h == [j \in m..N |-> IF j = m THEN val(g, j) ELSE g[j]]
    <2>2. ASSUME NEW j \in m..N  PROVE h[j] = val(h, j)
      <3>1. h[j] = val(g, j)
        <4>1. CASE j = m
          BY <4>1
        <4>2. CASE j # m
          <5>1. j \in (m + 1)..N
            BY <1>1, <4>2
          <5>2. g[j] = val(g, j)
            BY <2>1, <5>1
          <5>3. QED
            BY <4>2, <5>2
        <4>3. QED
          BY <4>1, <4>2
      <3>2. ASSUME ~stop(j)  PROVE h[j + step(j)] = g[j + step(j)]
        <4>1. j \in 1..Len(doc)
          BY <1>1, <3>2
        <4>2. step(j) \in 1..6
          BY <4>1, TokenLengths
        <4> HIDE DEF step
        <4>3. j + step(j) \in m..N /\ j + step(j) # m
          BY <1>1, <4>1, <4>2
        <4>4. QED
          BY <4>3
      <3> HIDE DEF stop, step, h
      <3>3. QED
        BY <3>1, <3>2
    <2>3. h = [j \in m..N |-> val(h, j)]
      BY <2>2
    <2>4. Upto(m)
      BY <2>3
    <2> HIDE DEF Upto
    <2>5. QED
      BY <1>1, <2>4
  <1>4. 1 \in B
    <2> HIDE DEF B
    <2>1. QED
      BY <1>1, <1>2, <1>3, Descent
  <1>5. PICK g : g = [j \in 1..N |-> val(g, j)]
    BY <1>4
  <1>6. Reading(doc) = [j \in 1..N |-> val(Reading(doc), j)]
    BY <1>5 DEF Reading
  <1>7. \A i : TextAt(doc, i) = Reading(doc)[i]
    BY DEF TextAt, Reading, Token
  <1>8. QED
    BY <1>6, <1>7

\* The string read at one place: nothing at its end, else one character and the rest.
LEMMA ReadingSteps ==
  ASSUME NEW D, NEW doc \in Seq(D), NEW j \in 1..(Len(doc) + 6)
  PROVE  /\ j > Len(doc) \/ doc[j] = Quote => Reading(doc)[j] = [text |-> <<>>, end |-> j]
         /\ ~(j > Len(doc) \/ doc[j] = Quote) =>
              Reading(doc)[j] = [text |-> <<DecodedToken(Token(doc, j))>>
                                            \o Reading(doc)[j + TokenLength(doc, j)].text,
                                 end  |-> Reading(doc)[j + TokenLength(doc, j)].end]
  <1> DEFINE stop(k) == k > Len(doc) \/ doc[k] = Quote
             val(k)  == [text |-> <<DecodedToken(Token(doc, k))>>
                                    \o Reading(doc)[k + TokenLength(doc, k)].text,
                         end  |-> Reading(doc)[k + TokenLength(doc, k)].end]
  <1>1. Reading(doc) = [k \in 1..(Len(doc) + 6) |->
                          IF stop(k) THEN [text |-> <<>>, end |-> k] ELSE val(k)]
    BY ReadingFrom
  <1> HIDE DEF val, stop
  <1>2. Reading(doc)[j] = IF stop(j) THEN [text |-> <<>>, end |-> j] ELSE val(j)
    BY <1>1
  <1>3. QED
    BY <1>2 DEF val, stop

\* The character of a token is an element of the document or one that is escaped.
LEMMA DecodedType ==
  ASSUME NEW D, Nat \subseteq D,
         NEW token \in Seq(D), Len(token) # 0
  PROVE  DecodedToken(token) \in D
  <1> DEFINE meant == {ch \in DOMAIN EscapedAsU : token = <<Backslash, LetterU>> \o EscapedAsU[ch]}
             short == {ch \in DOMAIN ShortEscapes : token = <<Backslash, ShortEscapes[ch]>>}
  <1>1. meant \union short \subseteq D
    <2>1. DOMAIN ShortEscapes \subseteq Nat
      BY ShortShape
    <2>2. DOMAIN EscapedAsU \subseteq Nat
      BY EscapeDigits DEF Separators, LS, PS
    <2>3. QED
      BY <2>1, <2>2
  <1>2. CASE meant \union short # {}
    <2> HIDE DEF meant, short
    <2>1. (CHOOSE ch \in meant \union short : TRUE) \in D
      BY <1>1, <1>2
    <2>2. QED
      BY <1>2, <2>1 DEF DecodedToken, meant, short
  <1>3. CASE meant \union short = {}
    <2>1. token[Len(token)] \in D
      BY LenProperties, ElementOfSeq
    <2>2. QED
      BY <1>3, <2>1 DEF DecodedToken
  <1>4. QED
    BY <1>2, <1>3

\* What is read is a text.
LEMMA ReadingType ==
  ASSUME NEW D, Nat \subseteq D,
         NEW doc \in Seq(D), NEW i \in 1..(Len(doc) + 6)
  PROVE  /\ Reading(doc)[i] = [text |-> Reading(doc)[i].text, end |-> Reading(doc)[i].end]
         /\ Reading(doc)[i].text \in Seq(D) /\ Reading(doc)[i].end \in i..(Len(doc) + 6)
  <1> DEFINE N    == Len(doc) + 6
             R    == Reading(doc)
             Typed(j) == /\ R[j] = [text |-> R[j].text, end |-> R[j].end]
                         /\ R[j].text \in Seq(D) /\ R[j].end \in j..N
             B    == {m \in 1..(N + 1) : \A j \in m..N : Typed(j)}
  <1>1. N \in Nat /\ Len(doc) \in Nat
    BY LenProperties
  <1>2. N + 1 \in B
    BY <1>1
  <1>3. ASSUME NEW m \in 1..N, m + 1 \in B
        PROVE  m \in B
    <2>1. CASE m > Len(doc) \/ doc[m] = Quote
      <3>1. R[m] = [text |-> <<>>, end |-> m]
        BY <2>1, ReadingSteps
      <3>2. Typed(m)
        BY <1>1, <3>1
      <3> HIDE DEF Typed
      <3>3. QED
        BY <1>1, <1>3, <3>2
    <2>2. CASE ~(m > Len(doc) \/ doc[m] = Quote)
      <3> DEFINE n == m + TokenLength(doc, m)
      <3>1. m \in 1..Len(doc)
        BY <1>1, <2>2
      <3>2. n \in (m + 1)..N
        <4>1. TokenLength(doc, m) \in 1..6
          BY <3>1, TokenLengths
        <4>2. QED
          BY <1>1, <3>1, <4>1
      <3>3. Token(doc, m) \in Seq(D) /\ Len(Token(doc, m)) # 0
        BY <3>1, TokenType, TokenLengths
      <3>4. R[m] = [text |-> <<DecodedToken(Token(doc, m))>> \o R[n].text, end |-> R[n].end]
        BY <2>2, ReadingSteps
      <3>5. <<DecodedToken(Token(doc, m))>> \in Seq(D)
        BY <3>3, DecodedType
      <3>6. R[n].text \in Seq(D) /\ R[n].end \in n..N
        BY <1>3, <3>2
      <3> HIDE DEF n, R
      <3>7. <<DecodedToken(Token(doc, m))>> \o R[n].text \in Seq(D)
        BY <3>5, <3>6, ConcatProperties
      <3>8. Typed(m)
        BY <1>1, <3>2, <3>4, <3>6, <3>7
      <3> HIDE DEF Typed
      <3>9. QED
        BY <1>1, <1>3, <3>8
    <2>3. QED
      BY <2>1, <2>2
  <1>4. 1 \in B
    <2> HIDE DEF B
    <2>1. QED
      BY <1>1, <1>2, <1>3, Descent
  <1>5. QED
    BY <1>4

\* The texts found from position i on.
Finding(doc) ==
  CHOOSE from : from = [i \in 1..Len(doc) + 7 |->
    IF i > Len(doc) THEN <<>>
    ELSE IF doc[i] # Quote THEN from[i + 1]
    ELSE <<TextAt(doc, i + 1).text>> \o from[TextAt(doc, i + 1).end + 1]]

\* The recursion of TextsOf has a solution: a string ends after it starts.
LEMMA FindingFrom ==
  ASSUME NEW D, Nat \subseteq D, NEW doc \in Seq(D)
  PROVE  /\ Finding(doc) = [i \in 1..Len(doc) + 7 |->
              IF i > Len(doc) THEN <<>>
              ELSE IF doc[i] # Quote THEN Finding(doc)[i + 1]
              ELSE <<TextAt(doc, i + 1).text>> \o Finding(doc)[TextAt(doc, i + 1).end + 1]]
         /\ TextsOf(doc) = Finding(doc)[1]
  <1> DEFINE N         == Len(doc) + 7
             next(i)   == TextAt(doc, i + 1).end + 1
             val(g, i) == IF i > Len(doc) THEN <<>>
                          ELSE IF doc[i] # Quote THEN g[i + 1]
                          ELSE <<TextAt(doc, i + 1).text>> \o g[next(i)]
             Upto(m)   == \E g : g = [i \in m..N |-> val(g, i)]
             B         == {m \in 1..N + 1 : Upto(m)}
  <1>1. N \in Nat /\ Len(doc) \in Nat
    BY LenProperties
  <1>2. N + 1 \in B
    <2>1. (N + 1)..N = {}
      BY <1>1
    <2>2. <<>> = [i \in (N + 1)..N |-> val(<<>>, i)]
      BY <2>1
    <2>3. Upto(N + 1)
      BY <2>2
    <2> HIDE DEF Upto
    <2>4. QED
      BY <1>1, <2>3
  <1>3. ASSUME NEW m \in 1..N, m + 1 \in B
        PROVE  m \in B
    <2>1. PICK g : g = [i \in (m + 1)..N |-> val(g, i)]
      BY <1>3
    <2> DEFINE h == [i \in m..N |-> IF i = m THEN val(g, i) ELSE g[i]]
    <2>2. ASSUME NEW i \in m..N  PROVE h[i] = val(h, i)
      <3>1. h[i] = val(g, i)
        <4>1. CASE i = m
          BY <4>1
        <4>2. CASE i # m
          <5>1. i \in (m + 1)..N
            BY <1>1, <4>2
          <5>2. g[i] = val(g, i)
            BY <2>1, <5>1
          <5>3. QED
            BY <4>2, <5>2
        <4>3. QED
          BY <4>1, <4>2
      <3>2. ASSUME ~(i > Len(doc))  PROVE h[i + 1] = g[i + 1] /\ h[next(i)] = g[next(i)]
        <4>1. i + 1 \in 1..(Len(doc) + 6) /\ i + 1 \in m..N /\ i + 1 # m
          BY <1>1, <3>2
        <4>2. TextAt(doc, i + 1).end \in (i + 1)..(Len(doc) + 6)
          BY <4>1, ReadingFrom, ReadingType, ZenonT(60)
        <4>3. next(i) \in m..N /\ next(i) # m
          BY <1>1, <4>1, <4>2
        <4>4. QED
          BY <4>1, <4>3
      <3> HIDE DEF next, h
      <3>3. QED
        BY <3>1, <3>2
    <2>3. h = [i \in m..N |-> val(h, i)]
      BY <2>2
    <2>4. Upto(m)
      BY <2>3
    <2> HIDE DEF Upto
    <2>5. QED
      BY <1>1, <2>4
  <1>4. 1 \in B
    <2> HIDE DEF B
    <2>1. QED
      BY <1>1, <1>2, <1>3, Descent
  <1>5. PICK g : g = [i \in 1..N |-> val(g, i)]
    BY <1>4
  <1>6. Finding(doc) = [i \in 1..N |-> val(Finding(doc), i)]
    BY <1>5 DEF Finding
  <1>7. TextsOf(doc) = Finding(doc)[1]
    BY DEF TextsOf, Finding
  <1>8. QED
    BY <1>6, <1>7

\* The texts found at one place.
LEMMA FindingSteps ==
  ASSUME NEW D, Nat \subseteq D,
         NEW doc \in Seq(D), NEW i \in 1..(Len(doc) + 7)
  PROVE  Finding(doc)[i] =
           IF i > Len(doc) THEN <<>>
           ELSE IF doc[i] # Quote THEN Finding(doc)[i + 1]
           ELSE <<Reading(doc)[i + 1].text>> \o Finding(doc)[Reading(doc)[i + 1].end + 1]
  <1> DEFINE val(k) == IF k > Len(doc) THEN <<>>
                       ELSE IF doc[k] # Quote THEN Finding(doc)[k + 1]
                       ELSE <<TextAt(doc, k + 1).text>> \o Finding(doc)[TextAt(doc, k + 1).end + 1]
  <1>1. Finding(doc) = [k \in 1..(Len(doc) + 7) |-> val(k)]
    BY FindingFrom
  <1> HIDE DEF val
  <1>2. Finding(doc)[i] = val(i)
    BY <1>1
  <1>3. TextAt(doc, i + 1) = Reading(doc)[i + 1]
    BY ReadingFrom
  <1>4. QED
    BY <1>2, <1>3 DEF val

\* They are a sequence of texts.
LEMMA FindingType ==
  ASSUME NEW D, Nat \subseteq D,
         NEW doc \in Seq(D), NEW i \in 1..(Len(doc) + 7)
  PROVE  Finding(doc)[i] \in Seq(Seq(D))
  <1> DEFINE N == Len(doc) + 7
             B == {m \in 1..(N + 1) : \A j \in m..N : Finding(doc)[j] \in Seq(Seq(D))}
  <1>1. N \in Nat /\ Len(doc) \in Nat
    BY LenProperties
  <1>2. N + 1 \in B
    BY <1>1
  <1>3. ASSUME NEW m \in 1..N, m + 1 \in B
        PROVE  m \in B
    <2>1. CASE m > Len(doc)
      <3>1. Finding(doc)[m] = <<>>
        BY <2>1, FindingSteps
      <3>2. Finding(doc)[m] \in Seq(Seq(D))
        BY <3>1
      <3>3. QED
        BY <1>1, <1>3, <3>2
    <2>2. CASE ~(m > Len(doc)) /\ doc[m] # Quote
      <3>1. Finding(doc)[m] = Finding(doc)[m + 1]
        BY <2>2, FindingSteps
      <3>2. m + 1 \in (m + 1)..N
        BY <1>1, <2>2
      <3>3. Finding(doc)[m] \in Seq(Seq(D))
        BY <1>3, <3>1, <3>2
      <3>4. QED
        BY <1>1, <1>3, <3>3
    <2>3. CASE ~(m > Len(doc)) /\ doc[m] = Quote
      <3> DEFINE next == Reading(doc)[m + 1].end + 1
                 text == Reading(doc)[m + 1].text
      <3>1. m + 1 \in 1..(Len(doc) + 6)
        BY <1>1, <2>3
      <3>2. Reading(doc)[m + 1].end \in (m + 1)..(Len(doc) + 6) /\ text \in Seq(D)
        BY <3>1, ReadingType
      <3>3. next \in (m + 1)..N
        BY <1>1, <3>2
      <3>4. Finding(doc)[m] = <<text>> \o Finding(doc)[next]
        BY <2>3, FindingSteps
      <3> HIDE DEF next, text
      <3>5. <<text>> \in Seq(Seq(D)) /\ Finding(doc)[next] \in Seq(Seq(D))
        BY <1>3, <3>2, <3>3
      <3>6. Finding(doc)[m] \in Seq(Seq(D))
        BY <3>4, <3>5, ConcatProperties
      <3>7. QED
        BY <1>1, <1>3, <3>6
    <2>4. QED
      BY <2>1, <2>2, <2>3
  <1>4. 1 \in B
    <2> HIDE DEF B
    <2>1. QED
      BY <1>1, <1>2, <1>3, Descent
  <1>5. QED
    BY <1>4

-----------------------------------------------------------------------------
(* The inside of a string. *)

\* What serde_json writes of a character is one token, does not open with a quote, and
\* is read as that character.
LEMMA WholeSerde ==
  ASSUME NEW D, Nat \subseteq D, NEW ch \in D
  PROVE  /\ Whole(SerdeChar(ch), D) /\ SerdeChar(ch)[1] # Quote
         /\ DecodedToken(SerdeChar(ch)) = ch
  <1> DEFINE token == SerdeChar(ch)
             meant == {x \in DOMAIN EscapedAsU : token = <<Backslash, LetterU>> \o EscapedAsU[x]}
             short == {x \in DOMAIN ShortEscapes : token = <<Backslash, ShortEscapes[x]>>}
  <1>1. Backslash # Quote
    BY DEF Backslash, Quote
  <1>2. \A x \in DOMAIN ShortEscapes : ShortEscapes[x] \notin {Backslash, Quote}
    BY ShortShape DEF Backslash, Quote
  <1>3. \A x, c : Len(<<Backslash, x>>) = 2 /\ <<Backslash, x>>[1] = Backslash /\ <<Backslash, x>>[2] = x
    OBVIOUS
  <1>4. \A x \in DOMAIN EscapedAsU : Len(<<Backslash, LetterU>> \o EscapedAsU[x]) = 6
    <2> SUFFICES ASSUME NEW x \in DOMAIN EscapedAsU
                 PROVE  Len(<<Backslash, LetterU>> \o EscapedAsU[x]) = 6
      OBVIOUS
    <2>1. QED
      BY EscapeShape
  <1>5. CASE ch \in {Backslash, Quote}
    <2>1. token = <<Backslash, ch>>
      BY <1>5, Kinds DEF SerdeChar
    <2> HIDE DEF token
    <2>2. Len(token) = 2 /\ token[1] = Backslash /\ token[2] = ch
      BY <1>3, <2>1
    <2>3. meant = {}
      BY <1>4, <2>2
    <2>4. short = {}
      <3>1. ASSUME NEW x \in DOMAIN ShortEscapes, token = <<Backslash, ShortEscapes[x]>>
            PROVE  FALSE
        <4>1. token[2] = ShortEscapes[x]
          BY <1>3, <3>1
        <4>2. QED
          BY <1>2, <1>5, <2>2, <4>1
      <3>2. QED
        BY <3>1
    <2>5. DecodedToken(token) = ch
      BY <2>2, <2>3, <2>4 DEF DecodedToken
    <2>6. Whole(token, D)
      <3>1. ch \in ShortLetters
        BY <1>5 DEF ShortLetters
      <3>2. QED
        BY <2>1, <3>1, WholeShort
    <2>7. QED
      BY <1>1, <2>2, <2>5, <2>6 DEF token
  <1>6. CASE ch \in DOMAIN ShortEscapes
    <2>1. ch \notin {Backslash, Quote} /\ ch \notin DOMAIN EscapedAsU
      BY <1>6, Kinds
    <2>2. token = <<Backslash, ShortEscapes[ch]>>
      BY <1>6, <2>1 DEF SerdeChar
    <2> HIDE DEF token
    <2>3. Len(token) = 2 /\ token[1] = Backslash /\ token[2] = ShortEscapes[ch]
      BY <1>3, <2>2
    <2>4. meant = {}
      BY <1>4, <2>3
    <2>5. short = {ch}
      <3>1. ASSUME NEW x \in DOMAIN ShortEscapes, token = <<Backslash, ShortEscapes[x]>>
            PROVE  x = ch
        <4>1. token[2] = ShortEscapes[x]
          BY <1>3, <3>1
        <4>2. ShortEscapes[x] = ShortEscapes[ch]
          BY <2>3, <4>1
        <4>3. QED
          BY <1>6, <4>2, ShortShape
      <3>2. QED
        BY <1>6, <2>2, <3>1
    <2>6. DecodedToken(token) = ch
      BY <2>4, <2>5 DEF DecodedToken
    <2>7. Whole(token, D)
      <3>1. ShortEscapes[ch] \in ShortLetters
        BY <1>6, ShortShape DEF ShortLetters
      <3>2. QED
        BY <2>2, <3>1, WholeShort
    <2>8. QED
      BY <1>1, <2>3, <2>6, <2>7 DEF token
  <1>7. CASE ch \in DOMAIN EscapedAsU \ Separators
    <2>1. ch \notin {Backslash, Quote} /\ ch \notin DOMAIN ShortEscapes /\ ch \in DOMAIN EscapedAsU
      BY <1>7, Kinds
    <2>2. token = <<Backslash, LetterU>> \o EscapedAsU[ch]
      BY <1>7, <2>1 DEF SerdeChar
    <2> HIDE DEF token
    <2>3. /\ Len(token) = 6 /\ token[1] = Backslash
          /\ \A x \in DOMAIN EscapedAsU : token = <<Backslash, LetterU>> \o EscapedAsU[x] => x = ch
      BY <2>1, <2>2, EscapeShape
    <2>4. meant = {ch}
      BY <2>1, <2>2, <2>3
    <2>5. short = {}
      BY <1>3, <2>3
    <2>6. DecodedToken(token) = ch
      BY <2>4, <2>5 DEF DecodedToken
    <2>7. Whole(token, D)
      BY <2>1, <2>2, WholeLong
    <2>8. QED
      BY <1>1, <2>3, <2>6, <2>7 DEF token
  <1>8. CASE ch \notin {Backslash, Quote} \union DOMAIN ShortEscapes \union (DOMAIN EscapedAsU \ Separators)
    <2>1. token = <<ch>>
      BY <1>8 DEF SerdeChar
    <2> HIDE DEF token
    <2>2. Len(token) = 1 /\ token[1] = ch
      BY <2>1
    <2>3. meant = {}
      BY <1>4, <2>2
    <2>4. short = {}
      BY <1>3, <2>2
    <2>5. DecodedToken(token) = ch
      BY <2>2, <2>3, <2>4 DEF DecodedToken
    <2>6. Whole(token, D)
      BY <1>8, <2>1, WholeRaw
    <2>7. QED
      BY <1>8, <2>2, <2>5, <2>6 DEF token
  <1>9. QED
    BY <1>5, <1>6, <1>7, <1>8

\* a, wherever it stands inside a string, is read as text.
Reads(a, text, D) ==
  /\ a \in Seq(D) /\ text \in Seq(D)
  /\ \A doc \in Seq(D) : \A i \in 1..(Len(doc) + 1) :
       Has(doc, i, a) =>
         /\ Reading(doc)[i].text = text \o Reading(doc)[i + Len(a)].text
         /\ Reading(doc)[i].end = Reading(doc)[i + Len(a)].end

\* A token is read as its character.
LEMMA ReadsToken ==
  ASSUME NEW D, Nat \subseteq D, NEW token, Whole(token, D), token[1] # Quote
  PROVE  Reads(token, <<DecodedToken(token)>>, D)
  <1>1. /\ token \in Seq(D) /\ Len(token) \in Nat /\ Len(token) # 0
        /\ <<DecodedToken(token)>> \in Seq(D)
    BY LenProperties, DecodedType DEF Whole
  <1>2. ASSUME NEW doc \in Seq(D), NEW i \in 1..(Len(doc) + 1), Has(doc, i, token)
        PROVE  /\ Reading(doc)[i].text = <<DecodedToken(token)>> \o Reading(doc)[i + Len(token)].text
               /\ Reading(doc)[i].end = Reading(doc)[i + Len(token)].end
    <2>1. Len(doc) \in Nat /\ i \in 1..Len(doc) /\ i \in 1..(Len(doc) + 6)
      BY <1>1, <1>2, LenProperties DEF Has
    <2>2. TokenLength(doc, i) = Len(token)
      BY <1>2, <2>1 DEF Whole
    <2>3. doc[i] = token[1]
      <3>1. 1 \in 1..Len(token) /\ i + 1 - 1 = i
        BY <1>1
      <3>2. QED
        BY <1>2, <3>1 DEF Has
    <2>4. Token(doc, i) = token
      <3>1. /\ Token(doc, i) \in Seq(D) /\ Len(Token(doc, i)) = Len(token)
            /\ \A k \in 1..Len(token) : Token(doc, i)[k] = doc[i + k - 1]
        BY <2>1, <2>2, TokenType
      <3>2. \A k \in 1..Len(token) : Token(doc, i)[k] = token[k]
        BY <1>2, <3>1 DEF Has
      <3>3. QED
        BY <1>1, <3>1, <3>2, SeqEqual
    <2>5. ~(i > Len(doc) \/ doc[i] = Quote)
      BY <2>1, <2>3
    <2>6. Reading(doc)[i] = [text |-> <<DecodedToken(token)>> \o Reading(doc)[i + Len(token)].text,
                             end  |-> Reading(doc)[i + Len(token)].end]
      <3>1. Reading(doc)[i] = [text |-> <<DecodedToken(Token(doc, i))>>
                                          \o Reading(doc)[i + TokenLength(doc, i)].text,
                               end  |-> Reading(doc)[i + TokenLength(doc, i)].end]
        BY <2>1, <2>5, ReadingSteps
      <3>2. QED
        BY <2>2, <2>4, <3>1
    <2>7. QED
      BY <2>6
  <1>3. QED
    BY <1>1, <1>2 DEF Reads

\* Nothing is read as nothing.
LEMMA ReadsNothing ==
  ASSUME NEW D, Nat \subseteq D
  PROVE  Reads(<<>>, <<>>, D)
  <1>1. ASSUME NEW doc \in Seq(D), NEW i \in 1..(Len(doc) + 1)
        PROVE  /\ Reading(doc)[i].text = <<>> \o Reading(doc)[i + Len(<<>>)].text
               /\ Reading(doc)[i].end = Reading(doc)[i + Len(<<>>)].end
    <2>1. i \in 1..(Len(doc) + 6) /\ i + Len(<<>>) = i
      BY LenProperties
    <2>2. Reading(doc)[i].text \in Seq(D)
      BY <2>1, ReadingType
    <2>3. QED
      BY <2>1, <2>2, ConcatEmptySeq
  <1>2. QED
    BY <1>1 DEF Reads

\* Two pieces side by side are read one after the other.
LEMMA ReadsBoth ==
  ASSUME NEW D, Nat \subseteq D, NEW a, NEW s, NEW b, NEW t,
         Reads(a, s, D), Reads(b, t, D)
  PROVE  Reads(a \o b, s \o t, D)
  <1>1. a \in Seq(D) /\ s \in Seq(D) /\ b \in Seq(D) /\ t \in Seq(D)
    BY DEF Reads
  <1>2. a \o b \in Seq(D) /\ s \o t \in Seq(D)
    BY <1>1, ConcatProperties
  <1>3. ASSUME NEW doc \in Seq(D), NEW i \in 1..(Len(doc) + 1), Has(doc, i, a \o b)
        PROVE  /\ Reading(doc)[i].text = (s \o t) \o Reading(doc)[i + Len(a \o b)].text
               /\ Reading(doc)[i].end = Reading(doc)[i + Len(a \o b)].end
    <2>1. /\ Has(doc, i, a) /\ Has(doc, i + Len(a), b)
          /\ i + Len(a) \in 1..(Len(doc) + 1)
          /\ i + Len(a) + Len(b) = i + Len(a \o b) /\ i + Len(a \o b) \in 1..(Len(doc) + 1)
      BY <1>1, <1>3, HasBoth
    <2> DEFINE here == Reading(doc)[i]
               mid  == Reading(doc)[i + Len(a)]
               rest == Reading(doc)[i + Len(a \o b)]
    <2>2. here.text = s \o mid.text /\ here.end = mid.end
      BY <2>1 DEF Reads
    <2>3. mid.text = t \o rest.text /\ mid.end = rest.end
      BY <2>1 DEF Reads
    <2>4. rest.text \in Seq(D)
      <3>1. i + Len(a \o b) \in 1..(Len(doc) + 6)
        BY <2>1, LenProperties
      <3>2. QED
        BY <3>1, ReadingType
    <2> DEFINE left == rest.text
    <2>5. (s \o t) \o left = s \o (t \o left)
      <3>1. left \in Seq(D)
        BY <2>4
      <3>2. s \in Seq(D) /\ t \in Seq(D)
        BY <1>1
      <3> HIDE DEF left
      <3>3. QED
        BY <3>1, <3>2, ConcatAssociative
    <2> HIDE DEF here, mid, rest
    <2>6. here.text = (s \o t) \o rest.text /\ here.end = rest.end
      BY <2>2, <2>3, <2>5
    <2>7. QED
      BY <2>6 DEF here, rest
  <1>4. QED
    BY <1>2, <1>3 DEF Reads

\* The inside of a string is read as the text it was written from.
LEMMA ReadsText ==
  ASSUME NEW D, Nat \subseteq D, NEW text \in Seq(D)
  PROVE  Reads(FlattenSeq([i \in 1..Len(text) |-> SerdeChar(text[i])]), text, D)
  <1> DEFINE a == [i \in 1..Len(text) |-> SerdeChar(text[i])]
             F == Flattening(a)
             N == Len(text)
             B == {m \in 0..N : m # 0 => Reads(F[m], SubSeq(text, 1, m), D)}
  <1>1. N \in Nat /\ \A i \in 1..N : text[i] \in D
    BY LenProperties, ElementOfSeq
  <1>2. \A i \in 1..N : a[i] = SerdeChar(text[i]) /\ Reads(SerdeChar(text[i]), <<text[i]>>, D)
    <2>1. ASSUME NEW i \in 1..N  PROVE Reads(SerdeChar(text[i]), <<text[i]>>, D)
      <3>1. /\ Whole(SerdeChar(text[i]), D) /\ SerdeChar(text[i])[1] # Quote
            /\ DecodedToken(SerdeChar(text[i])) = text[i]
        BY <1>1, WholeSerde
      <3>2. Reads(SerdeChar(text[i]), <<DecodedToken(SerdeChar(text[i]))>>, D)
        BY <3>1, ReadsToken
      <3>3. QED
        BY <3>1, <3>2
    <2>2. QED
      BY <2>1
  <1>3. a \in Seq(Seq(D)) /\ Len(a) = N
    <2>1. \A i \in 1..N : SerdeChar(text[i]) \in Seq(D)
      BY <1>2 DEF Reads
    <2>2. QED
      BY <1>1, <2>1
  <1>4. F = [i \in 1..N |-> IF i = 1 THEN a[i] ELSE F[i - 1] \o a[i]]
    BY <1>3, FlatteningFrom
  <1> HIDE DEF a, F
  <1>5. \A i \in 1..N : F[i] = IF i = 1 THEN a[i] ELSE F[i - 1] \o a[i]
    BY <1>4
  <1>6. 0 \in B
    BY <1>1
  <1>7. ASSUME NEW m \in 0..(N - 1), m \in B
        PROVE  m + 1 \in B
    <2>1. m + 1 \in 1..N /\ Reads(a[m + 1], <<text[m + 1]>>, D)
      BY <1>1, <1>2
    <2>2. CASE m = 0
      <3>1. SubSeq(text, 1, 1) = <<text[1]>>
        <4>1. 1 \in 1..N /\ 1 \in 1..Len(text)
          BY <2>1, <2>2
        <4> DEFINE first == SubSeq(text, 1, 1)
        <4>2. first \in Seq(D) /\ Len(first) = 1 /\ first[1] = text[1]
          BY <1>1, <4>1, SubSeqProperties
        <4> HIDE DEF first
        <4>3. first = <<text[1]>>
          BY <4>2
        <4>4. QED
          BY <4>3 DEF first
      <3>2. m + 1 = 1 /\ F[m + 1] = a[m + 1]
        BY <1>5, <2>1, <2>2
      <3>3. Reads(F[m + 1], SubSeq(text, 1, m + 1), D)
        BY <2>1, <3>1, <3>2
      <3>4. QED
        BY <2>1, <3>3
    <2>3. CASE m # 0
      <3>1. Reads(F[m], SubSeq(text, 1, m), D)
        BY <1>7, <2>3
      <3>2. F[m + 1] = F[m] \o a[m + 1]
        <4>1. m + 1 # 1 /\ (m + 1) - 1 = m
          BY <1>1, <2>3
        <4>2. QED
          BY <1>5, <2>1, <4>1
      <3>3. SubSeq(text, 1, m + 1) = SubSeq(text, 1, m) \o <<text[m + 1]>>
        <4>1. 1 \in 1..Len(text) /\ m + 1 \in 1..Len(text) /\ (m + 1) - 1 = m
          BY <1>1, <2>1, <2>3
        <4>2. SubSeq(text, 1, m + 1) = SubSeq(text, 1, (m + 1) - 1) \o <<text[m + 1]>>
          BY <4>1, SubSeqRecursiveSecond
        <4>3. QED
          BY <4>1, <4>2
      <3>4. Reads(F[m + 1], SubSeq(text, 1, m + 1), D)
        BY <2>1, <3>1, <3>2, <3>3, ReadsBoth
      <3>5. QED
        BY <2>1, <3>4
    <2>4. QED
      BY <2>2, <2>3
  <1>8. N \in B
    <2> HIDE DEF B
    <2>1. QED
      BY <1>1, <1>6, <1>7, Ascent
  <1>9. SubSeq(text, 1, N) = text
    BY SubSeqFull
  <1>10. FlattenSeq(a) = IF N = 0 THEN <<>> ELSE F[N]
    BY <1>3, FlatteningFrom DEF F
  <1>11. N = 0 => text = <<>>
    BY EmptySeq
  <1>12. Reads(FlattenSeq(a), text, D)
    BY <1>8, <1>9, <1>10, <1>11, ReadsNothing
  <1>13. QED
    BY <1>12 DEF a

-----------------------------------------------------------------------------
(* The texts a piece of a document shows. *)

\* a is passed over, and shows these texts, wherever it stands outside a string.
Shows(a, texts, D) ==
  /\ a \in Seq(D) /\ texts \in Seq(Seq(D))
  /\ \A doc \in Seq(D) : \A i \in 1..(Len(doc) + 1) :
       Has(doc, i, a) => Finding(doc)[i] = texts \o Finding(doc)[i + Len(a)]

\* Nothing shows nothing.
LEMMA ShowsNothing ==
  ASSUME NEW D, Nat \subseteq D
  PROVE  Shows(<<>>, <<>>, D)
  <1>1. ASSUME NEW doc \in Seq(D), NEW i \in 1..(Len(doc) + 1)
        PROVE  Finding(doc)[i] = <<>> \o Finding(doc)[i + Len(<<>>)]
    <2>1. i \in 1..(Len(doc) + 7) /\ i + Len(<<>>) = i
      BY LenProperties
    <2>2. Finding(doc)[i] \in Seq(Seq(D))
      BY <2>1, FindingType
    <2>3. QED
      BY <2>1, <2>2, ConcatEmptySeq
  <1>2. QED
    BY <1>1 DEF Shows

\* Two pieces side by side show the texts of the first, then those of the second.
LEMMA ShowsBoth ==
  ASSUME NEW D, Nat \subseteq D, NEW a, NEW s, NEW b, NEW t,
         Shows(a, s, D), Shows(b, t, D)
  PROVE  Shows(a \o b, s \o t, D)
  <1>1. a \in Seq(D) /\ s \in Seq(Seq(D)) /\ b \in Seq(D) /\ t \in Seq(Seq(D))
    BY DEF Shows
  <1>2. a \o b \in Seq(D) /\ s \o t \in Seq(Seq(D))
    BY <1>1, ConcatProperties
  <1>3. ASSUME NEW doc \in Seq(D), NEW i \in 1..(Len(doc) + 1), Has(doc, i, a \o b)
        PROVE  Finding(doc)[i] = (s \o t) \o Finding(doc)[i + Len(a \o b)]
    <2> DEFINE rest == Finding(doc)[i + Len(a \o b)]
    <2>1. /\ Has(doc, i, a) /\ Has(doc, i + Len(a), b)
          /\ i + Len(a) \in 1..(Len(doc) + 1)
          /\ i + Len(a) + Len(b) = i + Len(a \o b) /\ i + Len(a \o b) \in 1..(Len(doc) + 1)
      BY <1>1, <1>3, HasBoth
    <2>2. Finding(doc)[i] = s \o Finding(doc)[i + Len(a)]
      BY <2>1 DEF Shows
    <2>3. Finding(doc)[i + Len(a)] = t \o rest
      BY <2>1 DEF Shows
    <2>4. rest \in Seq(Seq(D))
      <3>1. i + Len(a \o b) \in 1..(Len(doc) + 7)
        BY <2>1, LenProperties
      <3>2. QED
        BY <3>1, FindingType
    <2> HIDE DEF rest
    <2>5. (s \o t) \o rest = s \o (t \o rest)
      <3> DEFINE T == Seq(D)
      <3>1. s \in Seq(T) /\ t \in Seq(T)
        BY <1>1
      <3>2. rest \in Seq(T)
        BY <2>4
      <3> HIDE DEF T
      <3>3. QED
        BY <3>1, <3>2, ConcatAssociative, SMTT(30)
    <2>6. QED
      BY <2>2, <2>3, <2>5 DEF rest
  <1>4. QED
    BY <1>2, <1>3 DEF Shows

\* And so do any number.
LEMMA ShowsAll ==
  ASSUME NEW D, Nat \subseteq D, NEW s \in Seq(Seq(D)), NEW t \in Seq(Seq(Seq(D))),
         Len(s) = Len(t), \A i \in 1..Len(s) : Shows(s[i], t[i], D)
  PROVE  Shows(FlattenSeq(s), FlattenSeq(t), D)
  <1> DEFINE R == {p \in Seq(D) \X Seq(Seq(D)) : Shows(p[1], p[2], D)}
  <1>1. \A a, b : <<a, b>> \in R <=> Shows(a, b, D)
    BY DEF Shows
  <1> HIDE DEF R
  <1>2. <<<<>>, <<>>>> \in R
    BY <1>1, ShowsNothing
  <1>3. \A a, b, c, d : <<a, b>> \in R /\ <<c, d>> \in R => <<a \o c, b \o d>> \in R
    BY <1>1, ShowsBoth
  <1>4. \A i \in 1..Len(s) : <<s[i], t[i]>> \in R
    BY <1>1
  <1>5. <<FlattenSeq(s), FlattenSeq(t)>> \in R
    BY <1>2, <1>3, <1>4, FlattenRelated
  <1>6. QED
    BY <1>1, <1>5

\* Outside a string an element other than a quote shows nothing.
LEMMA ShowsRaw ==
  ASSUME NEW D, Nat \subseteq D, NEW c \in D, c # Quote
  PROVE  Shows(<<c>>, <<>>, D)
  <1>1. ASSUME NEW doc \in Seq(D), NEW i \in 1..(Len(doc) + 1), Has(doc, i, <<c>>)
        PROVE  Finding(doc)[i] = <<>> \o Finding(doc)[i + Len(<<c>>)]
    <2>1. Len(doc) \in Nat /\ Len(<<c>>) = 1 /\ 1 \in 1..Len(<<c>>) /\ <<c>>[1] = c
      BY LenProperties
    <2>2. i <= Len(doc) /\ doc[i] = c
      <3>1. i + 1 - 1 = i
        BY <2>1
      <3>2. QED
        BY <1>1, <2>1, <3>1 DEF Has
    <2>3. i \in 1..(Len(doc) + 7) /\ i + 1 \in 1..(Len(doc) + 7) /\ ~(i > Len(doc))
      BY <2>1, <2>2
    <2>4. Finding(doc)[i] = Finding(doc)[i + 1]
      BY <2>2, <2>3, FindingSteps
    <2>5. Finding(doc)[i + 1] \in Seq(Seq(D))
      BY <2>3, FindingType
    <2>6. QED
      BY <2>1, <2>4, <2>5, ConcatEmptySeq
  <1>2. QED
    BY <1>1 DEF Shows

\* A string shows the text it was written from.
LEMMA ShowsString ==
  ASSUME NEW D, Nat \subseteq D, NEW text \in Seq(D)
  PROVE  Shows(String(text, "serde"), <<text>>, D)
  <1> DEFINE body == FlattenSeq([i \in 1..Len(text) |-> SerdeChar(text[i])])
             q    == <<Quote>>
  <1>1. String(text, "serde") = q \o body \o q
    BY DEF String, Encoded
  <1>2. Reads(body, text, D)
    BY ReadsText
  <1> HIDE DEF body
  <1>3. body \in Seq(D) /\ Len(body) \in Nat
    BY <1>2, LenProperties DEF Reads
  <1>4. q \in Seq(D) /\ Len(q) = 1 /\ q[1] = Quote
    <2>1. Quote \in D
      BY DEF Quote
    <2>2. QED
      BY <2>1
  <1> HIDE DEF q
  <1>5. q \o body \in Seq(D) /\ q \o body \o q \in Seq(D) /\ <<text>> \in Seq(Seq(D))
    BY <1>3, <1>4, ConcatProperties
  <1>6. ASSUME NEW doc \in Seq(D), NEW i \in 1..(Len(doc) + 1), Has(doc, i, q \o body \o q)
        PROVE  Finding(doc)[i] = <<text>> \o Finding(doc)[i + Len(q \o body \o q)]
    <2>1. /\ Has(doc, i, q \o body) /\ Has(doc, i + Len(q \o body), q)
          /\ i + Len(q \o body) \in 1..(Len(doc) + 1)
          /\ i + Len(q \o body) + Len(q) = i + Len(q \o body \o q)
          /\ i + Len(q \o body \o q) \in 1..(Len(doc) + 1)
      BY <1>4, <1>5, <1>6, HasBoth
    <2>2. /\ Has(doc, i, q) /\ Has(doc, i + Len(q), body)
          /\ i + Len(q) + Len(body) = i + Len(q \o body)
          /\ i + Len(q) \in 1..(Len(doc) + 1)
      <3>1. q \in Seq(D) /\ body \in Seq(D) /\ Has(doc, i, q \o body)
        BY <1>3, <1>4, <2>1
      <3>2. QED
        BY <3>1, HasBoth
    <2> DEFINE close == i + 1 + Len(body)
    <2>3. Len(doc) \in Nat /\ close = i + Len(q \o body) /\ i + Len(q \o body \o q) = close + 1
      <3>1. Len(doc) \in Nat
        BY LenProperties
      <3>2. close = i + Len(q \o body)
        <4>1. i + Len(q) + Len(body) = i + Len(q \o body)
          BY <2>2
        <4>2. i + 1 + Len(body) = i + Len(q \o body)
          BY <1>4, <4>1
        <4>3. QED
          BY <4>2
      <3>3. close + 1 = i + Len(q \o body \o q)
        BY <1>4, <2>1, <3>2
      <3>4. QED
        BY <3>1, <3>2, <3>3
    <2>4. i <= Len(doc) /\ doc[i] = Quote
      <3>1. i + 1 - 1 = i /\ 1 \in 1..Len(q)
        BY <1>4
      <3>2. QED
        BY <1>4, <2>2, <2>3, <3>1 DEF Has
    <2>5. close \in 1..Len(doc) /\ doc[close] = Quote
      <3>1. close + 1 - 1 = close /\ 1 \in 1..Len(q) /\ close \in 1..(Len(doc) + 1)
        BY <1>3, <1>4, <2>1, <2>3
      <3>2. close + 1 <= Len(doc) + 1 /\ doc[close] = Quote
        BY <1>4, <2>1, <2>3, <3>1 DEF Has
      <3>3. QED
        BY <1>3, <2>3, <3>1, <3>2
    <2>6. Reading(doc)[i + 1].text = text \o Reading(doc)[close].text
          /\ Reading(doc)[i + 1].end = Reading(doc)[close].end
      <3>1. Has(doc, i + 1, body) /\ i + 1 \in 1..(Len(doc) + 1)
        BY <1>4, <2>2
      <3>2. QED
        BY <1>2, <3>1 DEF Reads
    <2>7. Reading(doc)[close] = [text |-> <<>>, end |-> close]
      <3>1. close \in 1..(Len(doc) + 6)
        BY <2>3, <2>5
      <3> HIDE DEF close
      <3>2. QED
        BY <2>5, <3>1, ReadingSteps
    <2> HIDE DEF close
    <2>8. Reading(doc)[i + 1].text = text /\ Reading(doc)[i + 1].end = close
      <3>1. text \o <<>> = text
        BY ConcatEmptySeq
      <3>2. QED
        BY <2>6, <2>7, <3>1
    <2>9. Finding(doc)[i] = <<Reading(doc)[i + 1].text>> \o Finding(doc)[Reading(doc)[i + 1].end + 1]
      <3>1. i \in 1..(Len(doc) + 7) /\ ~(i > Len(doc))
        BY <2>3, <2>4
      <3>2. QED
        BY <2>4, <3>1, FindingSteps
    <2>10. QED
      BY <2>3, <2>8, <2>9
  <1>7. QED
    BY <1>1, <1>5, <1>6 DEF Shows

\* A reader of a document that is one piece finds the texts it shows.
LEMMA ShowsSelf ==
  ASSUME NEW D, Nat \subseteq D, NEW a, NEW texts, Shows(a, texts, D)
  PROVE  TextsOf(a) = texts
  <1>1. a \in Seq(D) /\ Len(a) \in Nat /\ texts \in Seq(Seq(D))
    BY LenProperties DEF Shows
  <1>2. 1 \in 1..(Len(a) + 1) /\ Has(a, 1, a)
    BY <1>1 DEF Has
  <1>3. Finding(a)[1] = texts \o Finding(a)[1 + Len(a)]
    BY <1>1, <1>2 DEF Shows
  <1>4. Finding(a)[1 + Len(a)] = <<>>
    <2>1. 1 + Len(a) \in 1..(Len(a) + 7) /\ 1 + Len(a) > Len(a)
      BY <1>1
    <2>2. QED
      BY <1>1, <2>1, FindingSteps
  <1>5. texts \o <<>> = texts
    BY <1>1, ConcatEmptySeq
  <1>6. TextsOf(a) = Finding(a)[1]
    BY <1>1, FindingFrom
  <1>7. QED
    BY <1>3, <1>4, <1>5, <1>6

\* The texts of an object whose fields show the texts g.
TextsOfObject(g) ==
  LET keys == Sorted(DOMAIN g) IN FlattenSeq([i \in 1..Len(keys) |-> <<keys[i]>> \o g[keys[i]]])

\* An object shows its keys, each followed by the texts of its field.
LEMMA ShowsObject ==
  ASSUME NEW D, Nat \subseteq D, NEW f, NEW g, DOMAIN f = DOMAIN g,
         DOMAIN f \in SUBSET Strings, IsFiniteSet(DOMAIN f),
         \A k \in DOMAIN f : Shows(f[k], g[k], D)
  PROVE  Shows(Object(f, "serde"), TextsOfObject(g), D)
  <1> DEFINE keys     == Sorted(DOMAIN f)
             Comma(i) == IF i < Len(keys) THEN <<44>> ELSE <<>>
             A(i)     == String(keys[i], "serde") \o <<58>> \o f[keys[i]] \o Comma(i)
             C(i)     == <<keys[i]>> \o g[keys[i]]
             a        == [i \in 1..Len(keys) |-> A(i)]
             c        == [i \in 1..Len(keys) |-> C(i)]
  <1>1. Object(f, "serde") = <<123>> \o FlattenSeq(a) \o <<125>> /\ TextsOfObject(g) = FlattenSeq(c)
    BY DEF Object, TextsOfObject
  <1>2. /\ Shows(<<123>>, <<>>, D) /\ Shows(<<125>>, <<>>, D)
        /\ Shows(<<58>>, <<>>, D) /\ Shows(<<44>>, <<>>, D) /\ Shows(<<>>, <<>>, D)
    <2>1. \A n \in {123, 125, 58, 44} : n \in D /\ n # Quote
      BY DEF Quote
    <2>2. QED
      BY <2>1, ShowsRaw, ShowsNothing
  <1>3. Len(keys) \in Nat /\ \A i \in 1..Len(keys) : keys[i] \in DOMAIN f /\ keys[i] \in Strings
    BY KeysOfObject
  <1>4. ASSUME NEW i \in 1..Len(keys)
        PROVE  Shows(A(i), C(i), D)
    <2> DEFINE k     == keys[i]
               x     == String(k, "serde")
               name  == <<k>>
               body  == f[k]
               texts == g[k]
               colon == <<58>>
               comma == Comma(i)
    <2>1. Shows(x, name, D)
      <3>1. k \in Seq(D)
        BY <1>3, SeqMonotonic DEF Strings
      <3>2. QED
        BY <3>1, ShowsString
    <2>2. Shows(body, texts, D)
      BY <1>3
    <2>3. Shows(comma, <<>>, D) /\ Shows(colon, <<>>, D)
      BY <1>2
    <2>4. A(i) = x \o colon \o body \o comma /\ C(i) = name \o texts
      OBVIOUS
    <2> HIDE DEF k, x, name, body, texts, colon, comma, A, C
    <2>5. Shows(x \o colon, name \o <<>>, D)
      BY <2>1, <2>3, ShowsBoth
    <2>6. name \o <<>> = name
      BY <2>1, ConcatEmptySeq DEF Shows
    <2>7. Shows(x \o colon \o body, name \o texts, D)
      BY <2>2, <2>5, <2>6, ShowsBoth
    <2>8. Shows(x \o colon \o body \o comma, (name \o texts) \o <<>>, D)
      BY <2>3, <2>7, ShowsBoth
    <2>9. (name \o texts) \o <<>> = name \o texts
      <3>1. name \o texts \in Seq(Seq(D))
        BY <2>7 DEF Shows
      <3>2. QED
        BY <3>1, ConcatEmptySeq
    <2>10. QED
      BY <2>4, <2>8, <2>9
  <1> HIDE DEF A, C, keys
  <1>5. \A i \in 1..Len(keys) : A(i) \in Seq(D) /\ C(i) \in Seq(Seq(D))
    BY <1>4 DEF Shows
  <1>6. /\ a \in Seq(Seq(D)) /\ c \in Seq(Seq(Seq(D))) /\ Len(a) = Len(c)
        /\ \A i \in 1..Len(a) : Shows(a[i], c[i], D)
    BY <1>3, <1>4, <1>5
  <1> HIDE DEF a, c
  <1>7. Shows(FlattenSeq(a), FlattenSeq(c), D)
    BY <1>6, ShowsAll
  <1>8. Shows(<<123>> \o FlattenSeq(a), <<>> \o FlattenSeq(c), D)
    BY <1>2, <1>7, ShowsBoth
  <1>9. Shows(<<123>> \o FlattenSeq(a) \o <<125>>, (<<>> \o FlattenSeq(c)) \o <<>>, D)
    BY <1>2, <1>8, ShowsBoth
  <1>10. (<<>> \o FlattenSeq(c)) \o <<>> = FlattenSeq(c)
    <2>1. FlattenSeq(c) \in Seq(Seq(D))
      BY <1>7 DEF Shows
    <2>2. QED
      BY <2>1, ConcatEmptySeq
  <1>11. QED
    BY <1>1, <1>9, <1>10

-----------------------------------------------------------------------------
(* The texts a payload shows. *)

\* One, two and three strings in order are sorted.
LEMMA SortedFew ==
  ASSUME NEW x \in Strings, NEW y \in Strings, NEW z \in Strings, Bytewise(x, y), Bytewise(y, z)
  PROVE  Sorted({x}) = <<x>> /\ Sorted({x, y}) = <<x, y>> /\ Sorted({x, y, z}) = <<x, y, z>>
  <1>1. Bytewise(x, z)
    BY BytewiseOrder
  <1>2. /\ ~Bytewise(x, x) /\ ~Bytewise(y, y) /\ ~Bytewise(z, z)
        /\ ~Bytewise(y, x) /\ ~Bytewise(z, y) /\ ~Bytewise(z, x) /\ x # y /\ y # z /\ x # z
    BY <1>1, BytewiseOrder
  <1>3. IsFiniteSet({x}) /\ Cardinality({x}) = 1
    BY FS_Singleton
  <1>4. IsFiniteSet({x} \union {y}) /\ Cardinality({x} \union {y}) = 2
    BY <1>2, <1>3, FS_AddElement
  <1>5. IsFiniteSet({x} \union {y} \union {z}) /\ Cardinality({x} \union {y} \union {z}) = 3
    BY <1>2, <1>4, FS_AddElement
  <1>6. {x} \union {y} = {x, y} /\ {x} \union {y} \union {z} = {x, y, z}
    OBVIOUS
  <1>7. Sorted({x}) = <<x>>
    <2> DEFINE s == Sorted({x})
    <2>1. s \in Seq({x}) /\ Len(s) = 1
      BY <1>3, SortedParts
    <2> HIDE DEF s
    <2>2. s[1] = x
      BY <2>1, ElementOfSeq
    <2>3. QED
      BY <2>1, <2>2 DEF s
  <1>8. Sorted({x, y}) = <<x, y>>
    <2> DEFINE s == Sorted({x, y})
    <2>1. s \in Seq({x, y}) /\ Len(s) = 2 /\ Increasing(s)
      BY <1>4, <1>6, SortedParts
    <2> HIDE DEF s
    <2>2. s[1] \in {x, y} /\ s[2] \in {x, y} /\ Bytewise(s[1], s[2])
      BY <2>1, ElementOfSeq DEF Increasing
    <2>3. s[1] = x /\ s[2] = y
      BY <1>2, <2>2
    <2>4. QED
      BY <2>1, <2>3 DEF s
  <1>9. Sorted({x, y, z}) = <<x, y, z>>
    <2> DEFINE s == Sorted({x, y, z})
    <2>1. s \in Seq({x, y, z}) /\ Len(s) = 3 /\ Increasing(s)
      BY <1>5, <1>6, SortedParts
    <2> HIDE DEF s
    <2>2. /\ s[1] \in {x, y, z} /\ s[2] \in {x, y, z} /\ s[3] \in {x, y, z}
          /\ Bytewise(s[1], s[2]) /\ Bytewise(s[2], s[3])
      <3>1. \A i \in 1..3 : s[i] \in {x, y, z}
        BY <2>1, ElementOfSeq
      <3>2. \A i, j \in 1..3 : i < j => Bytewise(s[i], s[j])
        BY <2>1 DEF Increasing
      <3>3. QED
        BY <3>1, <3>2
    <2>3. s[1] = x /\ s[2] = y /\ s[3] = z
      BY <1>2, <2>2
    <2>4. QED
      BY <2>1, <2>3 DEF s
  <1>10. QED
    BY <1>7, <1>8, <1>9

\* The names of the payload are in order.
LEMMA NamesSorted ==
  /\ Sorted({Id}) = <<Id>> /\ Sorted({Id, Fingerprint}) = <<Fingerprint, Id>>
  /\ Sorted({Account, Machine, Dataset}) = <<Account, Dataset, Machine>>
  <1>1. ASSUME NEW m \in Nat, NEW n \in Nat, m < n
        PROVE  Bytewise(<<m>>, <<n>>)
    <2> DEFINE s == <<m>>
               t == <<n>>
    <2>1. Len(s) = 1 /\ s[1] = m /\ Len(t) = 1 /\ t[1] = n /\ s \in Strings /\ t \in Strings
      BY DEF Strings
    <2> HIDE DEF s, t
    <2>2. Before(s, t, 1)
      BY <1>1, <2>1 DEF Before
    <2>3. Bytewise(s, t)
      BY <2>1, <2>2, BytewiseAt
    <2>4. QED
      BY <2>3 DEF s, t
  <1>2. /\ Bytewise(Account, Dataset) /\ Bytewise(Dataset, Machine)
        /\ Bytewise(Fingerprint, Id) /\ Bytewise(Id, Machine)
    BY <1>1 DEF Account, Dataset, Fingerprint, Id, Machine
  <1>3. /\ Account \in Strings /\ Dataset \in Strings /\ Machine \in Strings
        /\ Fingerprint \in Strings /\ Id \in Strings
    BY NamesOfPayload
  <1>4. Sorted({Account, Dataset, Machine}) = <<Account, Dataset, Machine>>
    BY <1>2, <1>3, SortedFew
  <1>5. Sorted({Fingerprint, Id}) = <<Fingerprint, Id>>
    BY <1>2, <1>3, SortedFew
  <1>6. Sorted({Id}) = <<Id>>
    <2>1. Bytewise(<<109>>, <<110>>) /\ <<110>> \in Strings
      BY <1>1 DEF Strings
    <2>2. Bytewise(Machine, <<110>>)
      BY <2>1 DEF Machine
    <2>3. QED
      BY <1>2, <1>3, <2>1, <2>2, SortedFew
  <1>7. {Account, Machine, Dataset} = {Account, Dataset, Machine} /\ {Id, Fingerprint} = {Fingerprint, Id}
    OBVIOUS
  <1>8. QED
    BY <1>4, <1>5, <1>6, <1>7

\* The texts of an object of texts.
FieldTexts(d) ==
  LET names == Sorted(DOMAIN d) IN FlattenSeq([i \in 1..Len(names) |-> <<names[i], d[names[i]]>>])

\* Elements side by side.
LEMMA TuplesJoin ==
  /\ \A x, y : <<x>> \o <<y>> = <<x, y>>
  /\ \A x, y, z : <<x>> \o <<y, z>> = <<x, y, z>>
  /\ \A x, y, z, w : <<x, y>> \o <<z, w>> = <<x, y, z, w>>
  /\ \A x, y, z, w : <<x, y, z>> \o <<w>> = <<x, y, z, w>>
  /\ \A x, y, z, w, v : <<x>> \o <<y, z, w, v>> = <<x, y, z, w, v>>
  <1>1. ASSUME NEW x, NEW y  PROVE <<x>> \o <<y>> = <<x, y>>
    <2> DEFINE a == <<x>> \o <<y>>
    <2>1. a \in Seq({x, y}) /\ Len(a) = 2 /\ a[1] = x /\ a[2] = y
      OBVIOUS
    <2> HIDE DEF a
    <2>2. a = <<x, y>>
      BY <2>1
    <2>3. QED
      BY <2>2 DEF a
  <1>2. ASSUME NEW x, NEW y, NEW z  PROVE <<x>> \o <<y, z>> = <<x, y, z>>
    <2> DEFINE a == <<x>> \o <<y, z>>
    <2>1. a \in Seq({x, y, z}) /\ Len(a) = 3 /\ a[1] = x /\ a[2] = y /\ a[3] = z
      OBVIOUS
    <2> HIDE DEF a
    <2>2. a = <<x, y, z>>
      BY <2>1
    <2>3. QED
      BY <2>2 DEF a
  <1>3. ASSUME NEW x, NEW y, NEW z, NEW w  PROVE <<x, y>> \o <<z, w>> = <<x, y, z, w>>
    <2> DEFINE a == <<x, y>> \o <<z, w>>
    <2>1. a \in Seq({x, y, z, w}) /\ Len(a) = 4 /\ a[1] = x /\ a[2] = y /\ a[3] = z /\ a[4] = w
      OBVIOUS
    <2> HIDE DEF a
    <2>2. a = <<x, y, z, w>>
      BY <2>1
    <2>3. QED
      BY <2>2 DEF a
  <1>4. ASSUME NEW x, NEW y, NEW z, NEW w  PROVE <<x, y, z>> \o <<w>> = <<x, y, z, w>>
    <2> DEFINE a == <<x, y, z>> \o <<w>>
    <2>1. a \in Seq({x, y, z, w}) /\ Len(a) = 4 /\ a[1] = x /\ a[2] = y /\ a[3] = z /\ a[4] = w
      OBVIOUS
    <2> HIDE DEF a
    <2>2. a = <<x, y, z, w>>
      BY <2>1
    <2>3. QED
      BY <2>2 DEF a
  <1>5. ASSUME NEW x, NEW y, NEW z, NEW w, NEW v  PROVE <<x>> \o <<y, z, w, v>> = <<x, y, z, w, v>>
    <2> DEFINE a == <<x>> \o <<y, z, w, v>>
    <2>1. a \in Seq({x, y, z, w, v}) /\ Len(a) = 5 /\ a[1] = x /\ a[2] = y /\ a[3] = z /\ a[4] = w /\ a[5] = v
      OBVIOUS
    <2> HIDE DEF a
    <2>2. a = <<x, y, z, w, v>>
      BY <2>1
    <2>3. QED
      BY <2>2 DEF a
  <1>6. QED
    BY <1>1, <1>2, <1>3, <1>4, <1>5

\* An object of texts shows each name with its text.
LEMMA TextsOfFields ==
  ASSUME NEW d, IsDataset(d), NEW g, g = [k \in DOMAIN d |-> <<d[k]>>]
  PROVE  TextsOfObject(g) = FieldTexts(d)
  <1> DEFINE names == Sorted(DOMAIN d)
             C(i)  == <<names[i]>> \o g[names[i]]
             E(i)  == <<names[i], d[names[i]]>>
  <1>1. TextsOfObject(g) = FlattenSeq([i \in 1..Len(names) |-> C(i)])
    BY DEF TextsOfObject
  <1>2. FieldTexts(d) = FlattenSeq([i \in 1..Len(names) |-> E(i)])
    BY DEF FieldTexts
  <1>3. ASSUME NEW i \in 1..Len(names)  PROVE C(i) = E(i)
    <2>1. names[i] \in DOMAIN d
      BY KeysOfObject DEF IsDataset
    <2>2. g[names[i]] = <<d[names[i]]>>
      BY <2>1
    <2>3. <<names[i]>> \o <<d[names[i]]>> = <<names[i], d[names[i]]>>
      BY TuplesJoin
    <2>4. QED
      BY <2>2, <2>3
  <1> HIDE DEF names, C, E
  <1>4. [i \in 1..Len(names) |-> C(i)] = [i \in 1..Len(names) |-> E(i)]
    BY <1>3
  <1>5. QED
    BY <1>1, <1>2, <1>4

\* The texts of an object of one, two or three keys.
LEMMA TextsOfFew ==
  ASSUME NEW g, \A k \in DOMAIN g : k \in Strings /\ g[k] \in Seq(Strings)
  PROVE  /\ \A x \in DOMAIN g : Sorted(DOMAIN g) = <<x>> => TextsOfObject(g) = <<x>> \o g[x]
         /\ \A x, y \in DOMAIN g :
              Sorted(DOMAIN g) = <<x, y>> => TextsOfObject(g) = (<<x>> \o g[x]) \o (<<y>> \o g[y])
         /\ \A x, y, z \in DOMAIN g :
              Sorted(DOMAIN g) = <<x, y, z>> =>
                TextsOfObject(g) = (<<x>> \o g[x]) \o (<<y>> \o g[y]) \o (<<z>> \o g[z])
  <1> DEFINE keys == Sorted(DOMAIN g)
             P(x) == <<x>> \o g[x]
             c    == [i \in 1..Len(keys) |-> P(keys[i])]
  <1>1. TextsOfObject(g) = FlattenSeq(c)
    BY DEF TextsOfObject
  <1>2. ASSUME NEW x \in DOMAIN g  PROVE P(x) \in Seq(Strings)
    <2>1. <<x>> \in Seq(Strings) /\ g[x] \in Seq(Strings)
      OBVIOUS
    <2>2. QED
      BY <2>1, ConcatProperties
  <1> HIDE DEF keys, P
  <1>3. ASSUME NEW x \in DOMAIN g, keys = <<x>>  PROVE FlattenSeq(c) = P(x)
    <2>1. c = [i \in 1..1 |-> P(keys[i])] /\ keys[1] = x
      BY <1>3
    <2>2. \A i \in 1..1 : P(keys[i]) = P(x)
      BY <2>1
    <2> HIDE DEF c
    <2>3. c \in Seq(Seq(Strings)) /\ Len(c) = 1 /\ c[1] = P(x)
      BY <1>2, <2>1, <2>2
    <2>4. QED
      BY <2>3, FlattenFew
  <1>4. ASSUME NEW x \in DOMAIN g, NEW y \in DOMAIN g, keys = <<x, y>>  PROVE FlattenSeq(c) = P(x) \o P(y)
    <2>1. c = [i \in 1..2 |-> P(keys[i])] /\ keys[1] = x /\ keys[2] = y
      BY <1>4
    <2>2. \A i \in 1..2 : P(keys[i]) \in Seq(Strings)
      BY <1>2, <2>1
    <2> HIDE DEF c
    <2>3. c \in Seq(Seq(Strings)) /\ Len(c) = 2 /\ c[1] = P(x) /\ c[2] = P(y)
      BY <2>1, <2>2
    <2>4. QED
      BY <2>3, FlattenFew
  <1>5. ASSUME NEW x \in DOMAIN g, NEW y \in DOMAIN g, NEW z \in DOMAIN g, keys = <<x, y, z>>
        PROVE  FlattenSeq(c) = P(x) \o P(y) \o P(z)
    <2>1. c = [i \in 1..3 |-> P(keys[i])] /\ keys[1] = x /\ keys[2] = y /\ keys[3] = z
      BY <1>5
    <2>2. \A i \in 1..3 : P(keys[i]) \in Seq(Strings)
      BY <1>2, <2>1
    <2> HIDE DEF c
    <2>3. c \in Seq(Seq(Strings)) /\ Len(c) = 3 /\ c[1] = P(x) /\ c[2] = P(y) /\ c[3] = P(z)
      BY <2>1, <2>2
    <2>4. QED
      BY <2>3, FlattenFew
  <1> HIDE DEF c
  <1>6. QED
    BY <1>1, <1>3, <1>4, <1>5 DEF keys, P

\* The account's object shows its id, the machine's its fingerprint and its id.
LEMMA TextsOfNamed ==
  ASSUME NEW account \in Strings, NEW machine \in Strings, NEW fingerprint \in Strings
  PROVE  /\ TextsOfObject([k \in {Id} |-> <<account>>]) = <<Id, account>>
         /\ TextsOfObject([k \in {Id, Fingerprint} |-> <<IF k = Id THEN machine ELSE fingerprint>>])
              = <<Fingerprint, fingerprint, Id, machine>>
  <1> DEFINE g1 == [k \in {Id} |-> <<account>>]
             g2 == [k \in {Id, Fingerprint} |-> <<IF k = Id THEN machine ELSE fingerprint>>]
  <1>1. Id \in Strings /\ Fingerprint \in Strings /\ Fingerprint # Id
    BY NamesOfPayload
  <1>2. /\ DOMAIN g1 = {Id} /\ g1[Id] = <<account>> /\ \A k \in DOMAIN g1 : k \in Strings /\ g1[k] \in Seq(Strings)
    BY <1>1
  <1>3. /\ DOMAIN g2 = {Id, Fingerprint} /\ g2[Id] = <<machine>> /\ g2[Fingerprint] = <<fingerprint>>
        /\ \A k \in DOMAIN g2 : k \in Strings /\ g2[k] \in Seq(Strings)
    BY <1>1
  <1> HIDE DEF g1, g2
  <1>4. TextsOfObject(g1) = <<Id>> \o <<account>>
    BY <1>2, NamesSorted, TextsOfFew
  <1>5. TextsOfObject(g2) = (<<Fingerprint>> \o <<fingerprint>>) \o (<<Id>> \o <<machine>>)
    <2>1. Sorted(DOMAIN g2) = <<Fingerprint, Id>> /\ Fingerprint \in DOMAIN g2 /\ Id \in DOMAIN g2
      BY <1>3, NamesSorted
    <2>2. TextsOfObject(g2) = (<<Fingerprint>> \o g2[Fingerprint]) \o (<<Id>> \o g2[Id])
      BY <1>3, <2>1, TextsOfFew
    <2>3. QED
      BY <1>3, <2>2
  <1>6. /\ <<Fingerprint>> \o <<fingerprint>> = <<Fingerprint, fingerprint>>
        /\ <<Id>> \o <<machine>> = <<Id, machine>> /\ <<Id>> \o <<account>> = <<Id, account>>
        /\ <<Fingerprint, fingerprint>> \o <<Id, machine>> = <<Fingerprint, fingerprint, Id, machine>>
    BY TuplesJoin
  <1>7. QED
    BY <1>4, <1>5, <1>6 DEF g1, g2

\* The elements of a and of b take turns in x.
TakeTurns(a, b, x, S) ==
  /\ x \in Seq(S) /\ Len(x) = 2 * Len(a)
  /\ \A i \in 1..Len(a) : x[2 * i - 1] = a[i] /\ x[2 * i] = b[i]

\* s has them in pairs.
InPairs(a, b, s, S) ==
  /\ s \in Seq(Seq(S)) /\ Len(s) = Len(a)
  /\ \A i \in 1..Len(a) : s[i] = <<a[i], b[i]>>

\* Names and texts in pairs, flattened, take turns.
LEMMA TakingTurns ==
  ASSUME NEW S, NEW a \in Seq(S), NEW b \in Seq(S), Len(a) = Len(b),
         NEW s, InPairs(a, b, s, S)
  PROVE  TakeTurns(a, b, FlattenSeq(s), S)
  <1> DEFINE N == Len(a)
             x == FlattenSeq(s)
             F == Flattening(s)
             Turns(y, m) == /\ y \in Seq(S) /\ Len(y) = 2 * m
                            /\ \A i \in 1..m : y[2 * i - 1] = a[i] /\ y[2 * i] = b[i]
             B == {m \in 0..N : m # 0 => Turns(F[m], m)}
  <1>1. N \in Nat /\ \A i \in 1..N : a[i] \in S /\ b[i] \in S
    BY LenProperties, ElementOfSeq
  <1>3. s \in Seq(Seq(S)) /\ Len(s) = N /\ \A i \in 1..N : s[i] = <<a[i], b[i]>>
    BY DEF InPairs
  <1> HIDE DEF N, x
  <1>4. /\ F = [i \in 1..N |-> IF i = 1 THEN s[i] ELSE F[i - 1] \o s[i]]
        /\ FlattenSeq(s) = IF N = 0 THEN <<>> ELSE F[N]
    BY <1>3, FlatteningFrom
  <1> HIDE DEF F
  <1>5. \A i \in 1..N : F[i] = IF i = 1 THEN s[i] ELSE F[i - 1] \o s[i]
    BY <1>4
  <1>6. 0 \in B
    <2> HIDE DEF Turns
    <2>1. QED
      BY <1>1
  <1>7. ASSUME NEW m \in 0..(N - 1), m \in B
        PROVE  m + 1 \in B
    <2> DEFINE p == a[m + 1]
               q == b[m + 1]
    <2>1. m \in Nat /\ m + 1 \in 1..N /\ (m + 1) - 1 = m
      BY <1>1
    <2>2. s[m + 1] = <<p, q>> /\ p \in S /\ q \in S
      BY <1>1, <1>3, <2>1
    <2>3. CASE m = 0
      <3>1. F[1] = <<a[1], b[1]>> /\ a[1] \in S /\ b[1] \in S
        BY <1>5, <2>1, <2>2, <2>3
      <3>2. Turns(F[1], 1)
        <4>1. \A i \in 1..1 : i = 1
          OBVIOUS
        <4>2. QED
          BY <3>1, <4>1
      <3> HIDE DEF Turns
      <3>3. QED
        BY <2>1, <2>3, <3>2
    <2>4. CASE m # 0
      <3> DEFINE y == F[m]
                 z == <<p, q>>
      <3>1. F[m + 1] = y \o z
        <4>1. m + 1 # 1
          BY <2>1, <2>4
        <4>2. F[m + 1] = F[m] \o s[m + 1]
          BY <1>5, <2>1, <4>1
        <4>3. QED
          BY <2>2, <4>2
      <3>2. Turns(y, m)
        BY <1>7, <2>4
      <3>3. z \in Seq(S) /\ Len(z) = 2 /\ z[1] = p /\ z[2] = q
        BY <2>2
      <3> HIDE DEF y, z
      <3>4. /\ y \o z \in Seq(S) /\ Len(y \o z) = 2 * m + 2
            /\ \A i \in 1..(2 * m) : (y \o z)[i] = y[i]
            /\ \A i \in 1..2 : (y \o z)[2 * m + i] = z[i]
        <4>1. y \in Seq(S) /\ Len(y) = 2 * m /\ z \in Seq(S) /\ Len(z) = 2
          BY <3>2, <3>3
        <4>2. /\ y \o z \in Seq(S) /\ Len(y \o z) = Len(y) + Len(z)
              /\ \A i \in 1..Len(y) : (y \o z)[i] = y[i]
              /\ \A i \in 1..Len(z) : (y \o z)[Len(y) + i] = z[i]
          <5>1. y \in Seq(S) /\ z \in Seq(S)
            BY <4>1
          <5>2. QED
            BY <5>1, SideBySide
        <4> DEFINE yz == y \o z
        <4> HIDE DEF yz
        <4>3. /\ yz \in Seq(S) /\ Len(yz) = 2 * m + 2
              /\ \A i \in 1..(2 * m) : yz[i] = y[i]
              /\ \A i \in 1..2 : yz[2 * m + i] = z[i]
          BY <4>1, <4>2 DEF yz
        <4>4. QED
          BY <4>3 DEF yz
      <3> DEFINE w == y \o z
      <3>5. Turns(w, m + 1)
        <4>1. w \in Seq(S) /\ Len(w) = 2 * (m + 1)
          BY <2>1, <3>4
        <4>2. ASSUME NEW i \in 1..(m + 1)
              PROVE  w[2 * i - 1] = a[i] /\ w[2 * i] = b[i]
          <5>1. CASE i = m + 1
            <6>1. 2 * i - 1 = 2 * m + 1 /\ 2 * i = 2 * m + 2
              BY <2>1, <5>1
            <6>2. w[2 * m + 1] = z[1] /\ w[2 * m + 2] = z[2]
              BY <3>4
            <6>3. QED
              BY <3>3, <5>1, <6>1, <6>2
          <5>2. CASE i # m + 1
            <6>1. i \in 1..m /\ 2 * i - 1 \in 1..(2 * m) /\ 2 * i \in 1..(2 * m)
              BY <2>1, <5>2
            <6>2. w[2 * i - 1] = y[2 * i - 1] /\ w[2 * i] = y[2 * i]
              BY <3>4, <6>1
            <6>3. QED
              BY <3>2, <6>1, <6>2
          <5>3. QED
            BY <5>1, <5>2
        <4>3. QED
          BY <4>1, <4>2
      <3>6. F[m + 1] = w
        BY <3>1
      <3> HIDE DEF Turns, w
      <3>7. QED
        BY <2>1, <3>5, <3>6
    <2>5. QED
      BY <2>3, <2>4
  <1>8. N \in B
    <2> HIDE DEF B
    <2>1. QED
      BY <1>1, <1>6, <1>7, Ascent
  <1>9. x = FlattenSeq(s)
    BY DEF x
  <1>10. Turns(x, N)
    <2>1. CASE N = 0
      <3>1. x = <<>>
        BY <1>4, <1>9, <2>1
      <3>2. QED
        BY <2>1, <3>1
    <2>2. CASE N # 0
      <3>1. x = F[N] /\ Turns(F[N], N)
        BY <1>4, <1>8, <1>9, <2>2
      <3> HIDE DEF Turns
      <3>2. QED
        BY <3>1
    <2>3. QED
      BY <2>1, <2>2
  <1>11. QED
    BY <1>10 DEF N, x, TakeTurns

\* The names of a dataset in order, and its texts.
NamedTexts(d) ==
  LET names == Sorted(DOMAIN d)
      x     == FieldTexts(d)
  IN /\ names \in Seq(Strings) /\ Len(names) \in Nat /\ {names[i] : i \in 1..Len(names)} = DOMAIN d
     /\ x \in Seq(Strings) /\ Len(x) = 2 * Len(names)
     /\ \A i \in 1..Len(names) : x[2 * i - 1] = names[i] /\ x[2 * i] = d[names[i]]

\* The texts of a dataset are its names, in order, each with its text.
LEMMA NamesAndTexts ==
  ASSUME NEW d, IsDataset(d)
  PROVE  NamedTexts(d)
  <1> DEFINE names == Sorted(DOMAIN d)
  <1>1. DOMAIN d \in SUBSET Strings /\ IsFiniteSet(DOMAIN d) /\ \A k \in DOMAIN d : d[k] \in Strings
    BY DEF IsDataset
  <1>2. /\ names \in Seq(DOMAIN d) /\ Len(names) \in Nat
        /\ \A i \in 1..Len(names) : names[i] \in DOMAIN d
    BY <1>1, KeysOfObject
  <1>3. {names[i] : i \in 1..Len(names)} = DOMAIN d
    <2>1. {Sorted(DOMAIN d)[i] : i \in 1..Len(Sorted(DOMAIN d))} = DOMAIN d
      BY <1>1, SortedParts
    <2>2. QED
      BY <2>1
  <1>4. names \in Seq(Strings)
    BY <1>1, <1>2, SeqMonotonic
  <1> DEFINE texts == [i \in 1..Len(names) |-> d[names[i]]]
  <1>5. texts \in Seq(Strings) /\ Len(texts) = Len(names) /\ \A i \in 1..Len(names) : texts[i] = d[names[i]]
    BY <1>1, <1>2
  <1> DEFINE pairs == [i \in 1..Len(names) |-> <<names[i], d[names[i]]>>]
             x     == FieldTexts(d)
  <1>6. /\ x = FlattenSeq(pairs) /\ pairs \in Seq(Seq(Strings)) /\ Len(pairs) = Len(names)
        /\ \A i \in 1..Len(names) : pairs[i] = <<names[i], texts[i]>>
    <2>1. x = FlattenSeq(pairs)
      BY DEF FieldTexts
    <2>2. \A i \in 1..Len(names) : <<names[i], d[names[i]]>> \in Seq(Strings)
      BY <1>1, <1>2
    <2>3. pairs \in Seq(Seq(Strings)) /\ Len(pairs) = Len(names)
      BY <1>2, <2>2
    <2>4. QED
      BY <1>5, <2>1, <2>3
  <1> HIDE DEF texts, pairs, x
  <1>7. /\ x \in Seq(Strings) /\ Len(x) = 2 * Len(names)
        /\ \A i \in 1..Len(names) : x[2 * i - 1] = names[i] /\ x[2 * i] = texts[i]
    <2>1. Len(names) = Len(texts) /\ texts \in Seq(Strings)
      BY <1>5
    <2>2. InPairs(names, texts, pairs, Strings)
      BY <1>6 DEF InPairs
    <2>3. TakeTurns(names, texts, FlattenSeq(pairs), Strings)
      BY <1>4, <2>1, <2>2, TakingTurns
    <2>4. QED
      BY <1>6, <2>3 DEF TakeTurns
  <1>8. \A i \in 1..Len(names) : x[2 * i - 1] = names[i] /\ x[2 * i] = d[names[i]]
    BY <1>5, <1>7
  <1>9. QED
    BY <1>2, <1>3, <1>4, <1>7, <1>8 DEF x, NamedTexts

\* The texts of a dataset say which it is.
LEMMA FieldTextsName ==
  ASSUME NEW d, IsDataset(d), NEW e, IsDataset(e), FieldTexts(d) = FieldTexts(e)
  PROVE  d = e
  <1> DEFINE names  == Sorted(DOMAIN d)
             names2 == Sorted(DOMAIN e)
             x      == FieldTexts(d)
  <1>1. /\ Len(names) \in Nat /\ Len(x) = 2 * Len(names) /\ {names[i] : i \in 1..Len(names)} = DOMAIN d
        /\ \A i \in 1..Len(names) : x[2 * i - 1] = names[i] /\ x[2 * i] = d[names[i]]
    <2>1. NamedTexts(d)
      BY NamesAndTexts
    <2>2. QED
      BY <2>1 DEF NamedTexts
  <1>2. /\ Len(names2) \in Nat /\ Len(x) = 2 * Len(names2) /\ {names2[i] : i \in 1..Len(names2)} = DOMAIN e
        /\ \A i \in 1..Len(names2) : x[2 * i - 1] = names2[i] /\ x[2 * i] = e[names2[i]]
    <2>1. NamedTexts(e)
      BY NamesAndTexts
    <2>2. QED
      BY <2>1 DEF NamedTexts
  <1> HIDE DEF names, names2, x
  <1>3. Len(names) = Len(names2)
    BY <1>1, <1>2
  <1>4. \A i \in 1..Len(names) : names[i] = names2[i] /\ d[names[i]] = e[names[i]]
    BY <1>1, <1>2, <1>3
  <1>5. DOMAIN d = DOMAIN e
    <2>1. {names[i] : i \in 1..Len(names)} = {names2[i] : i \in 1..Len(names2)}
      BY <1>3, <1>4
    <2>2. QED
      BY <1>1, <1>2, <2>1
  <1>6. ASSUME NEW k \in DOMAIN d  PROVE d[k] = e[k]
    <2>1. PICK i \in 1..Len(names) : names[i] = k
      BY <1>1
    <2>2. QED
      BY <1>4, <2>1
  <1>7. QED
    BY <1>5, <1>6 DEF IsDataset

\* The payload's object shows the account's texts, the dataset's and the machine's.
LEMMA TextsOfPayload ==
  ASSUME NEW account \in Strings, NEW machine \in Strings, NEW fingerprint \in Strings,
         NEW dataset, IsDataset(dataset), NEW g, DOMAIN g = {Account, Machine, Dataset},
         g[Account] = <<Id, account>>, g[Dataset] = FieldTexts(dataset),
         g[Machine] = <<Fingerprint, fingerprint, Id, machine>>
  PROVE  TextsOfObject(g) = TextsOfTuple(Tuple(account, machine, fingerprint, dataset))
  <1> DEFINE F == FieldTexts(dataset)
             a == <<Account, Id, account>>
             b == <<Dataset>>
             c == <<Machine, Fingerprint, fingerprint, Id, machine>>
  <1>1. TextsOfTuple(Tuple(account, machine, fingerprint, dataset)) = <<Account, Id, account, Dataset>> \o F \o c
    BY DEF TextsOfTuple, FieldTexts, Tuple
  <1>2. /\ Account \in Strings /\ Machine \in Strings /\ Dataset \in Strings
        /\ Id \in Strings /\ Fingerprint \in Strings
    BY NamesOfPayload
  <1>3. F \in Seq(Strings)
    BY NamesAndTexts DEF NamedTexts
  <1>4. a \in Seq(Strings) /\ b \in Seq(Strings)
    BY <1>2
  <1>5. \A k \in DOMAIN g : k \in Strings /\ g[k] \in Seq(Strings)
    <2>1. <<Id, account>> \in Seq(Strings) /\ <<Fingerprint, fingerprint, Id, machine>> \in Seq(Strings)
      BY <1>2
    <2>2. QED
      BY <1>2, <1>3, <2>1
  <1>6. TextsOfObject(g) = (<<Account>> \o g[Account]) \o (<<Dataset>> \o g[Dataset]) \o (<<Machine>> \o g[Machine])
    <2>1. Sorted(DOMAIN g) = <<Account, Dataset, Machine>>
          /\ Account \in DOMAIN g /\ Dataset \in DOMAIN g /\ Machine \in DOMAIN g
      BY NamesSorted
    <2>2. QED
      BY <1>5, <2>1, TextsOfFew
  <1>7. /\ <<Account>> \o <<Id, account>> = a /\ a \o b = <<Account, Id, account, Dataset>>
        /\ <<Machine>> \o <<Fingerprint, fingerprint, Id, machine>> = c
    <2>1. <<Account>> \o <<Id, account>> = <<Account, Id, account>>
      BY TuplesJoin
    <2>2. <<Account, Id, account>> \o <<Dataset>> = <<Account, Id, account, Dataset>>
      BY TuplesJoin
    <2>3. <<Machine>> \o <<Fingerprint, fingerprint, Id, machine>> = <<Machine, Fingerprint, fingerprint, Id, machine>>
      BY TuplesJoin
    <2>4. QED
      BY <2>1, <2>2, <2>3
  <1> HIDE DEF F, a, c
  <1>8. a \o (b \o F) = (a \o b) \o F
    <2> HIDE DEF b
    <2>1. QED
      BY <1>3, <1>4, ConcatAssociative
  <1>9. TextsOfObject(g) = a \o (b \o F) \o c
    BY <1>6, <1>7 DEF F
  <1>10. QED
    BY <1>1, <1>7, <1>8, <1>9

\* A reader of a payload serde_json writes finds the tuple it was written from.
LEMMA PayloadShowsTuple ==
  ASSUME NEW account \in Strings, NEW machine \in Strings, NEW fingerprint \in Strings,
         NEW dataset, IsDataset(dataset)
  PROVE  LET t == Tuple(account, machine, fingerprint, dataset)
         IN  TextsOf(Payload(t, "serde")) = TextsOfTuple(t)
  <1> DEFINE t  == Tuple(account, machine, fingerprint, dataset)
             f1 == [k \in {Id} |-> String(account, "serde")]
             g1 == [k \in {Id} |-> <<account>>]
             f2 == [k \in {Id, Fingerprint} |-> String(IF k = Id THEN machine ELSE fingerprint, "serde")]
             g2 == [k \in {Id, Fingerprint} |-> <<IF k = Id THEN machine ELSE fingerprint>>]
             f3 == [k \in DOMAIN dataset |-> String(dataset[k], "serde")]
             g3 == [k \in DOMAIN dataset |-> <<dataset[k]>>]
             f  == [k \in {Account, Machine, Dataset} |->
                      Object(CASE k = Account -> f1 [] k = Machine -> f2 [] k = Dataset -> f3, "serde")]
             g  == [k \in {Account, Machine, Dataset} |->
                      TextsOfObject(CASE k = Account -> g1 [] k = Machine -> g2 [] k = Dataset -> g3)]
  <1>1. \A text \in Strings : Shows(String(text, "serde"), <<text>>, Nat)
    BY ShowsString DEF Strings
  <1>2. Shows(Object(f1, "serde"), TextsOfObject(g1), Nat)
    <2>1. /\ DOMAIN f1 = DOMAIN g1 /\ DOMAIN f1 \in SUBSET Strings /\ IsFiniteSet(DOMAIN f1)
          /\ \A k \in DOMAIN f1 : Shows(f1[k], g1[k], Nat)
      BY <1>1, NamesOfPayload
    <2> HIDE DEF f1, g1
    <2>2. QED
      BY <2>1, ShowsObject
  <1>3. Shows(Object(f2, "serde"), TextsOfObject(g2), Nat)
    <2>1. /\ DOMAIN f2 = DOMAIN g2 /\ DOMAIN f2 \in SUBSET Strings /\ IsFiniteSet(DOMAIN f2)
          /\ \A k \in DOMAIN f2 : Shows(f2[k], g2[k], Nat)
      BY <1>1, NamesOfPayload
    <2> HIDE DEF f2, g2
    <2>2. QED
      BY <2>1, ShowsObject
  <1>4. Shows(Object(f3, "serde"), TextsOfObject(g3), Nat)
    <2>1. /\ DOMAIN f3 = DOMAIN g3 /\ DOMAIN f3 \in SUBSET Strings /\ IsFiniteSet(DOMAIN f3)
          /\ \A k \in DOMAIN f3 : Shows(f3[k], g3[k], Nat)
      BY <1>1 DEF IsDataset
    <2> HIDE DEF f3, g3
    <2>2. QED
      BY <2>1, ShowsObject
  <1>5. Shows(Object(f, "serde"), TextsOfObject(g), Nat)
    <2> HIDE DEF f1, g1, f2, g2, f3, g3
    <2>1. /\ DOMAIN f = {Account, Machine, Dataset} /\ DOMAIN g = {Account, Machine, Dataset}
          /\ f[Account] = Object(f1, "serde") /\ g[Account] = TextsOfObject(g1)
          /\ f[Machine] = Object(f2, "serde") /\ g[Machine] = TextsOfObject(g2)
          /\ f[Dataset] = Object(f3, "serde") /\ g[Dataset] = TextsOfObject(g3)
      BY NamesOfPayload
    <2>2. /\ DOMAIN f = DOMAIN g /\ DOMAIN f \in SUBSET Strings /\ IsFiniteSet(DOMAIN f)
          /\ \A k \in DOMAIN f : Shows(f[k], g[k], Nat)
      BY <1>2, <1>3, <1>4, <2>1, NamesOfPayload
    <2> HIDE DEF f, g
    <2>3. QED
      BY <2>2, ShowsObject
  <1>6. TextsOfObject(g) = TextsOfTuple(t)
    <2>1. /\ TextsOfObject(g1) = <<Id, account>>
          /\ TextsOfObject(g2) = <<Fingerprint, fingerprint, Id, machine>>
      BY TextsOfNamed
    <2>2. TextsOfObject(g3) = FieldTexts(dataset)
      BY TextsOfFields
    <2> HIDE DEF g1, g2, g3
    <2>3. /\ DOMAIN g = {Account, Machine, Dataset} /\ g[Account] = TextsOfObject(g1)
          /\ g[Machine] = TextsOfObject(g2) /\ g[Dataset] = TextsOfObject(g3)
      BY NamesOfPayload
    <2> HIDE DEF g
    <2>4. QED
      BY <2>1, <2>2, <2>3, TextsOfPayload
  <1>7. Payload(t, "serde") = Object(f, "serde")
    BY DEF Payload, Tuple
  <1> HIDE DEF f, g, t
  <1>8. TextsOf(Payload(t, "serde")) = TextsOfTuple(t)
    BY <1>5, <1>6, <1>7, ShowsSelf
  <1>9. QED
    BY <1>8 DEF t

\* Where the texts of a tuple are.
LEMMA PlacesOfTuple ==
  ASSUME NEW account \in Strings, NEW machine \in Strings, NEW fingerprint \in Strings,
         NEW dataset, IsDataset(dataset)
  PROVE  LET x == TextsOfTuple(Tuple(account, machine, fingerprint, dataset))
             F == FieldTexts(dataset)
         IN  /\ F \in Seq(Strings) /\ Len(x) = Len(F) + 9
             /\ x[3] = account /\ x[Len(F) + 7] = fingerprint /\ x[Len(F) + 9] = machine
             /\ \A i \in 1..Len(F) : x[4 + i] = F[i]
  <1> DEFINE F == FieldTexts(dataset)
             a == <<Account, Id, account, Dataset>>
             c == <<Machine, Fingerprint, fingerprint, Id, machine>>
             y == a \o F
             x == TextsOfTuple(Tuple(account, machine, fingerprint, dataset))
  <1>1. x = y \o c
    BY DEF TextsOfTuple, FieldTexts, Tuple
  <1>2. F \in Seq(Strings) /\ Len(F) \in Nat
    BY NamesAndTexts, LenProperties DEF NamedTexts
  <1>3. /\ Account \in Strings /\ Machine \in Strings /\ Dataset \in Strings
        /\ Id \in Strings /\ Fingerprint \in Strings
    BY NamesOfPayload
  <1>4. a \in Seq(Strings) /\ Len(a) = 4 /\ a[3] = account
    BY <1>3
  <1>5. c \in Seq(Strings) /\ Len(c) = 5 /\ c[3] = fingerprint /\ c[5] = machine
    BY <1>3
  <1> HIDE DEF F, a, c
  <1>6. /\ y \in Seq(Strings) /\ Len(y) = Len(a) + Len(F)
        /\ \A i \in 1..Len(a) : y[i] = a[i]
        /\ \A i \in 1..Len(F) : y[Len(a) + i] = F[i]
    <2>1. a \in Seq(Strings) /\ F \in Seq(Strings)
      BY <1>2, <1>4
    <2>2. QED
      BY <2>1, SideBySide
  <1> HIDE DEF y, x
  <1>7. /\ Len(x) = Len(y) + Len(c)
        /\ \A i \in 1..Len(y) : x[i] = y[i]
        /\ \A i \in 1..Len(c) : x[Len(y) + i] = c[i]
    <2>1. y \in Seq(Strings) /\ c \in Seq(Strings)
      BY <1>5, <1>6
    <2>2. /\ Len(y \o c) = Len(y) + Len(c)
          /\ \A i \in 1..Len(y) : (y \o c)[i] = y[i]
          /\ \A i \in 1..Len(c) : (y \o c)[Len(y) + i] = c[i]
      BY <2>1, SideBySide
    <2>3. QED
      BY <1>1, <2>2
  <1>8. Len(y) = Len(F) + 4 /\ Len(x) = Len(F) + 9
    BY <1>2, <1>4, <1>5, <1>6, <1>7
  <1>9. x[3] = account /\ \A i \in 1..Len(F) : x[4 + i] = F[i]
    <2>1. \A i \in 1..Len(F) : 4 + i \in 1..Len(y)
      BY <1>2, <1>8
    <2>2. 3 \in 1..Len(y) /\ 3 \in 1..Len(a)
      BY <1>2, <1>4, <1>8
    <2>3. QED
      BY <1>4, <1>6, <1>7, <2>1, <2>2
  <1>10. x[Len(F) + 7] = fingerprint /\ x[Len(F) + 9] = machine
    <2>1. /\ 3 \in 1..Len(c) /\ Len(y) + 3 = Len(F) + 7
          /\ 5 \in 1..Len(c) /\ Len(y) + 5 = Len(F) + 9
      BY <1>2, <1>5, <1>8
    <2>2. x[Len(y) + 3] = c[3] /\ x[Len(y) + 5] = c[5]
      BY <1>7, <2>1
    <2>3. QED
      BY <1>5, <2>1, <2>2
  <1>11. QED
    BY <1>2, <1>8, <1>9, <1>10 DEF F, x

\* A proof verifies for the tuple and under the key it was issued for and for no other:
\* two tuples with the same signed bytes are the same tuple, whatever texts they hold
\* and however many entries their datasets have, so that a proof of one machine is
\* never taken for another's (VerifyOfflineProof).
THEOREM ProofNamesOneTuple ==
  ASSUME NEW account \in Strings, NEW machine \in Strings, NEW fingerprint \in Strings,
         NEW dataset, IsDataset(dataset),
         NEW account2 \in Strings, NEW machine2 \in Strings, NEW fingerprint2 \in Strings,
         NEW dataset2, IsDataset(dataset2), NEW key, NEW key2
  PROVE  LET t  == Tuple(account, machine, fingerprint, dataset)
             t2 == Tuple(account2, machine2, fingerprint2, dataset2)
         IN  VerifyOfflineProof(key2, t2, IssuedProof(key, t)) = "ok" => t = t2 /\ key = key2
  <1> DEFINE t  == Tuple(account, machine, fingerprint, dataset)
             t2 == Tuple(account2, machine2, fingerprint2, dataset2)
             F  == FieldTexts(dataset)
             F2 == FieldTexts(dataset2)
             x  == TextsOfTuple(t)
             x2 == TextsOfTuple(t2)
  <1> SUFFICES ASSUME VerifyOfflineProof(key2, t2, IssuedProof(key, t)) = "ok"
               PROVE  t = t2 /\ key = key2
    OBVIOUS
  <1>1. buildOfflineProofPayloadJSON(t2) = Payload(t2, "serde")
    BY SerdeCompatible
  <1>2. TextsOf(Payload(t, "serde")) = x /\ TextsOf(Payload(t2, "serde")) = x2
    BY PayloadShowsTuple
  <1>3. /\ F \in Seq(Strings) /\ Len(x) = Len(F) + 9
        /\ x[3] = account /\ x[Len(F) + 7] = fingerprint /\ x[Len(F) + 9] = machine
        /\ \A i \in 1..Len(F) : x[4 + i] = F[i]
    BY PlacesOfTuple
  <1>4. /\ F2 \in Seq(Strings) /\ Len(x2) = Len(F2) + 9
        /\ x2[3] = account2 /\ x2[Len(F2) + 7] = fingerprint2 /\ x2[Len(F2) + 9] = machine2
        /\ \A i \in 1..Len(F2) : x2[4 + i] = F2[i]
    BY PlacesOfTuple
  <1> HIDE DEF t, t2, F, F2, x, x2
  <1>5. IssuedProof(key, t).sig = [key |-> key2, doc |-> buildOfflineProofPayloadJSON(t2)]
    BY DEF VerifyOfflineProof
  <1>6. Payload(t, "serde") = buildOfflineProofPayloadJSON(t2) /\ key = key2
    BY <1>5 DEF IssuedProof
  <1>7. x = x2
    BY <1>1, <1>2, <1>6
  <1>8. Len(F) = Len(F2) /\ Len(F) \in Nat
    <2>1. Len(F) \in Nat /\ Len(F2) \in Nat
      BY <1>3, <1>4, LenProperties
    <2>2. QED
      BY <1>3, <1>4, <1>7, <2>1
  <1>9. account = account2 /\ fingerprint = fingerprint2 /\ machine = machine2
    BY <1>3, <1>4, <1>7, <1>8
  <1>10. F = F2
    <2>1. \A i \in 1..Len(F) : F[i] = F2[i]
      BY <1>3, <1>4, <1>7, <1>8
    <2>2. QED
      BY <1>3, <1>4, <1>8, <2>1
  <1>11. dataset = dataset2
    BY <1>10, FieldTextsName DEF F, F2
  <1>12. QED
    BY <1>6, <1>9, <1>11 DEF t, t2

-----------------------------------------------------------------------------
(* The run of MCCanonical. *)

\* Every piece MCCanonical builds its texts from is a text.
LEMMA PiecesAreTexts == Pieces \subseteq Strings
  <1>1. ASSUME NEW piece \in Pieces  PROVE piece \in Strings
    <2>1. /\ <<Backslash>> \in Strings /\ <<Quote>> \in Strings /\ <<LS>> \in Strings
          /\ <<PS>> \in Strings
      BY DEF Strings, Backslash, Quote, LS, PS
    <2>2. <<31>> \in Strings /\ <<10>> \in Strings /\ <<60>> \in Strings
      BY DEF Strings
    <2>3. <<LetterU, 50, 48, 50, 56>> \in Strings /\ <<Quote, 44, Quote, 58, Quote>> \in Strings
      BY DEF Strings, LetterU, Quote
    <2>4. QED
      BY <2>1, <2>2, <2>3 DEF Pieces
  <1>2. QED
    BY <1>1

\* What the run builds its texts from.
PiecesInv == pieces \in Seq(Pieces)

\* Only pieces are appended.
LEMMA PiecesStay == Spec => []PiecesInv
  <1>1. Init => PiecesInv
    BY DEF Init, PiecesInv
  <1>2. PiecesInv /\ [Next]_<<pieces, components>> => PiecesInv'
    <2>1. CASE AppendPiece
      BY <2>1 DEF PiecesInv, AppendPiece
    <2>2. CASE AppendComponent
      BY <2>2 DEF PiecesInv, AppendComponent
    <2>3. CASE UNCHANGED <<pieces, components>>
      BY <2>3 DEF PiecesInv
    <2>4. QED
      BY <2>1, <2>2, <2>3 DEF Next
  <1>3. QED
    BY <1>1, <1>2, PTL DEF Spec

\* So the tuple of the run is one of texts.
LEMMA TheTupleOfTexts ==
  ASSUME PiecesInv
  PROVE  \E account \in Strings, machine \in Strings, fingerprint \in Strings : \E dataset :
           IsDataset(dataset) /\ TheTuple = Tuple(account, machine, fingerprint, dataset)
  <1> DEFINE text    == FlattenSeq(pieces)
             dataset == [k \in {text, <<107>>} |-> k \o <<118>>]
  <1>1. text \in Strings
    <2>1. pieces \in Seq(Seq(Nat))
      BY PiecesAreTexts, SeqMonotonic DEF PiecesInv, Strings
    <2>2. QED
      BY <2>1, FlattenSeqType DEF Strings
  <1>2. TheTuple = Tuple(text \o <<97>>, text \o <<109>>, text \o <<102>>, dataset)
    BY DEF TheTuple
  <1> HIDE DEF text
  <1>3. ASSUME NEW s \in Strings, NEW n \in Nat  PROVE s \o <<n>> \in Strings
    <2>1. s \in Seq(Nat) /\ <<n>> \in Seq(Nat)
      BY DEF Strings
    <2>2. QED
      BY <2>1, ConcatProperties DEF Strings
  <1>4. IsDataset(dataset)
    <2>1. <<107>> \in Strings
      BY DEF Strings
    <2>2. IsFiniteSet({text} \union {<<107>>}) /\ {text} \union {<<107>>} = {text, <<107>>}
      <3>1. IsFiniteSet({text})
        BY FS_Singleton
      <3>2. IsFiniteSet({text} \union {<<107>>})
        BY <3>1, FS_AddElement
      <3>3. QED
        BY <3>2
    <2>3. DOMAIN dataset = {text, <<107>>} /\ DOMAIN dataset \in SUBSET Strings
      BY <1>1, <2>1
    <2>4. \A k \in DOMAIN dataset : dataset[k] \in Strings
      BY <1>3, <2>3
    <2>5. dataset = [k \in DOMAIN dataset |-> dataset[k]]
      OBVIOUS
    <2> HIDE DEF dataset
    <2>6. QED
      BY <2>2, <2>3, <2>4, <2>5 DEF IsDataset
  <1> HIDE DEF dataset
  <1>5. text \o <<97>> \in Strings /\ text \o <<109>> \in Strings /\ text \o <<102>> \in Strings
    BY <1>1, <1>3
  <1>6. QED
    BY <1>2, <1>4, <1>5

\* A proof the server issued verifies for every tuple the run can build, of texts of
\* any length (VerifyOfflineProof, buildOfflineProofPayloadJSON).
THEOREM GenuineProofsVerify == Spec => []GenuineProofVerifies
  <1>1. PiecesInv => GenuineProofVerifies
    <2> SUFFICES ASSUME PiecesInv  PROVE GenuineProofVerifies
      OBVIOUS
    <2>1. PICK account \in Strings, machine \in Strings, fingerprint \in Strings : \E dataset :
            IsDataset(dataset) /\ TheTuple = Tuple(account, machine, fingerprint, dataset)
      BY TheTupleOfTexts
    <2>2. PICK dataset : IsDataset(dataset) /\ TheTuple = Tuple(account, machine, fingerprint, dataset)
      BY <2>1
    <2>3. "rsa" # "nil"
      OBVIOUS
    <2>4. VerifyOfflineProof("rsa", TheTuple, IssuedProof("rsa", TheTuple)) = "ok"
      BY <2>2, <2>3, GenuineProofIsAccepted
    <2>5. QED
      BY <2>4 DEF GenuineProofVerifies
  <1>2. QED
    BY <1>1, PiecesStay, PTL

\* A reader finds in the payload the texts of the tuple, for every tuple the run can
\* build, of texts of any length (buildOfflineProofPayloadJSON).
THEOREM ProofsBindTuples == Spec => []ProofBindsTuple
  <1>1. PiecesInv => ProofBindsTuple
    <2> SUFFICES ASSUME PiecesInv  PROVE ProofBindsTuple
      OBVIOUS
    <2>1. PICK account \in Strings, machine \in Strings, fingerprint \in Strings : \E dataset :
            IsDataset(dataset) /\ TheTuple = Tuple(account, machine, fingerprint, dataset)
      BY TheTupleOfTexts
    <2>2. PICK dataset : IsDataset(dataset) /\ TheTuple = Tuple(account, machine, fingerprint, dataset)
      BY <2>1
    <2>3. buildOfflineProofPayloadJSON(TheTuple) = Payload(TheTuple, "serde")
      BY <2>2, SerdeCompatible
    <2>4. TextsOf(Payload(TheTuple, "serde")) = TextsOfTuple(TheTuple)
      BY <2>2, PayloadShowsTuple
    <2>5. QED
      BY <2>3, <2>4 DEF ProofBindsTuple
  <1>2. QED
    BY <1>1, PiecesStay, PTL

-----------------------------------------------------------------------------
(* One component: its trimmed value, and its part read back. *)

\* A part of a string is a string.
LEMMA Within ==
  ASSUME NEW s \in Strings, NEW m \in Nat \ {0}, NEW n \in Nat, n <= Len(s)
  PROVE  /\ SubSeq(s, m, n) \in Strings
         /\ Len(SubSeq(s, m, n)) = IF m <= n THEN n - m + 1 ELSE 0
         /\ \A i \in 1..(n - m + 1) : SubSeq(s, m, n)[i] = s[m + i - 1]
  <1>1. m \in Int /\ n \in Int /\ \A i \in m..n : s[i] \in Nat
    BY StringType
  <1>2. QED
    BY <1>1, SubSeqProperties DEF Strings

\* Where a value holds something else than whitespace.
Kept(value) == {i \in 1..Len(value) : value[i] \notin Whitespace}

\* A trimmed value is a string.
LEMMA TrimType ==
  ASSUME NEW value \in Strings
  PROVE  /\ Trim(value) \in Strings
         /\ Kept(value) # {} =>
              /\ Min(Kept(value)) \in Kept(value) /\ Max(Kept(value)) \in Kept(value)
              /\ \A i \in Kept(value) : Min(Kept(value)) <= i /\ i <= Max(Kept(value))
              /\ Trim(value) = SubSeq(value, Min(Kept(value)), Max(Kept(value)))
  <1> DEFINE K == Kept(value)
  <1>1. Trim(value) = IF K = {} THEN <<>> ELSE SubSeq(value, Min(K), Max(K))
    BY DEF Trim, Kept
  <1>2. Len(value) \in Nat
    BY StringType
  <1>3. K \subseteq Nat \ {0} /\ K \subseteq 0..Len(value)
    BY <1>2 DEF Kept
  <1>4. CASE K = {}
    <2>1. <<>> \in Strings
      BY DEF Strings
    <2>2. QED
      BY <1>1, <1>4, <2>1
  <1>5. CASE K # {}
    <2>1. /\ Min(K) \in K /\ \A i \in K : Min(K) <= i
          /\ Max(K) \in K /\ \A i \in K : i <= Max(K)
      BY <1>2, <1>3, <1>5, MinOf, MaxOf
    <2> HIDE DEF K
    <2>2. SubSeq(value, Min(K), Max(K)) \in Strings
      <3>1. \A i \in K : i \in Nat \ {0} /\ i <= Len(value)
        BY <1>2, <1>3
      <3>2. Min(K) \in Nat \ {0} /\ Max(K) \in Nat /\ Max(K) <= Len(value)
        BY <2>1, <3>1
      <3>3. QED
        BY <3>2, Within
    <2>3. QED
      BY <1>1, <1>5, <2>1, <2>2 DEF K
  <1>6. QED
    BY <1>4, <1>5

\* Whitespace around a value is trimmed away.
LEMMA TrimPadding ==
  ASSUME NEW value \in Strings
  PROVE  /\ <<32, 9>> \o value \o <<10>> \in Strings
         /\ Trim(<<32, 9>> \o value \o <<10>>) = Trim(value)
  <1> DEFINE padded == <<32, 9>> \o value \o <<10>>
  <1>1. value \in Seq(Nat) /\ Len(value) \in Nat
    BY StringType
  <1>2. /\ <<32, 9>> \in Seq(Nat) /\ <<10>> \in Seq(Nat)
    OBVIOUS
  <1>3. /\ <<32, 9>> \o value \in Seq(Nat) /\ Len(<<32, 9>> \o value) = Len(value) + 2
        /\ \A i \in 1..(Len(value) + 2) : (<<32, 9>> \o value)[i] = IF i <= 2 THEN <<32, 9>>[i] ELSE value[i - 2]
    <2>1. Len(<<32, 9>>) = 2
      OBVIOUS
    <2>2. /\ <<32, 9>> \o value \in Seq(Nat) /\ Len(<<32, 9>> \o value) = 2 + Len(value)
          /\ \A i \in 1..(2 + Len(value)) : (<<32, 9>> \o value)[i] = IF i <= 2 THEN <<32, 9>>[i] ELSE value[i - 2]
      BY <1>1, <1>2, <2>1, ConcatProperties
    <2>3. QED
      BY <1>1, <2>2
  <1>4. /\ padded \in Seq(Nat) /\ Len(padded) = Len(value) + 3
        /\ \A i \in 1..(Len(value) + 2) : padded[i] = (<<32, 9>> \o value)[i]
        /\ padded[Len(value) + 3] = 10
    <2> DEFINE front == <<32, 9>> \o value
    <2>1. front \in Seq(Nat) /\ Len(front) = Len(value) + 2
      BY <1>3
    <2> HIDE DEF front
    <2>2. /\ front \o <<10>> \in Seq(Nat) /\ Len(front \o <<10>>) = Len(value) + 3
          /\ \A i \in 1..(Len(value) + 2) : (front \o <<10>>)[i] = front[i]
          /\ (front \o <<10>>)[Len(value) + 3] = 10
      BY <1>1, <1>2, <2>1, SideBySide
    <2>3. QED
      BY <2>2 DEF front
  <1>5. /\ padded[1] = 32 /\ padded[2] = 9 /\ padded[Len(value) + 3] = 10
        /\ \A i \in 1..Len(value) : padded[i + 2] = value[i]
    <2>1. padded[1] = 32 /\ padded[2] = 9
      BY <1>1, <1>3, <1>4
    <2>2. ASSUME NEW i \in 1..Len(value)  PROVE padded[i + 2] = value[i]
      <3>1. i + 2 \in 1..(Len(value) + 2) /\ ~(i + 2 <= 2) /\ (i + 2) - 2 = i
        BY <1>1
      <3>2. QED
        BY <1>3, <1>4, <3>1
    <2>3. QED
      BY <1>4, <2>1, <2>2
  <1>6. padded \in Strings
    BY <1>4 DEF Strings
  <1> HIDE DEF padded
  <1>7. \A i \in 1..Len(padded) : i \in Kept(padded) <=> i - 2 \in Kept(value)
    <2>1. ASSUME NEW i \in 1..Len(padded)  PROVE i \in Kept(padded) <=> i - 2 \in Kept(value)
      <3>1. CASE i \in {1, 2, Len(value) + 3}
        BY <1>1, <1>4, <1>5, <3>1 DEF Kept, Whitespace
      <3>2. CASE i \notin {1, 2, Len(value) + 3}
        <4>1. i - 2 \in 1..Len(value) /\ (i - 2) + 2 = i
          BY <1>1, <1>4, <3>2
        <4>2. padded[i] = value[i - 2]
          BY <1>5, <4>1
        <4>3. QED
          BY <4>1, <4>2 DEF Kept
      <3>3. QED
        BY <3>1, <3>2
    <2>2. QED
      BY <2>1
  <1>8. \A j \in Kept(value) : j \in 1..Len(value) /\ j + 2 \in 1..Len(padded) /\ j + 2 \in Kept(padded)
    <2>1. ASSUME NEW j \in Kept(value)
          PROVE  j \in 1..Len(value) /\ j + 2 \in 1..Len(padded) /\ j + 2 \in Kept(padded)
      <3>1. j \in 1..Len(value) /\ j + 2 \in 1..Len(padded) /\ (j + 2) - 2 = j
        BY <1>1, <1>4 DEF Kept
      <3>2. QED
        BY <1>7, <3>1
    <2>2. QED
      BY <2>1
  <1>9. \A i \in Kept(padded) : i \in 1..Len(padded) /\ i - 2 \in Kept(value)
    BY <1>7 DEF Kept
  <1>10. ASSUME Kept(value) = {}  PROVE Trim(padded) = Trim(value)
    <2>1. Kept(padded) = {}
      BY <1>9, <1>10
    <2>2. QED
      BY <1>10, <2>1 DEF Trim, Kept
  <1>11. ASSUME Kept(value) # {}  PROVE Trim(padded) = Trim(value)
    <2> DEFINE a == Min(Kept(value))
               b == Max(Kept(value))
               c == Min(Kept(padded))
               d == Max(Kept(padded))
    <2>1. /\ a \in Kept(value) /\ b \in Kept(value)
          /\ \A i \in Kept(value) : a <= i /\ i <= b
          /\ Trim(value) = SubSeq(value, a, b)
      BY <1>11, TrimType
    <2>2. Kept(padded) # {}
      BY <1>8, <1>11
    <2>3. /\ c \in Kept(padded) /\ d \in Kept(padded)
          /\ \A i \in Kept(padded) : c <= i /\ i <= d
          /\ Trim(padded) = SubSeq(padded, c, d)
      BY <1>6, <2>2, TrimType
    <2> HIDE DEF a, b, c, d
    <2>4. c = a + 2 /\ d = b + 2 /\ a \in 1..Len(value) /\ b \in 1..Len(value) /\ a <= b
      <3>1. a \in 1..Len(value) /\ b \in 1..Len(value) /\ a <= b /\ c \in Int /\ d \in Int
        BY <1>8, <1>9, <2>1, <2>3
      <3>2. c <= a + 2 /\ b + 2 <= d /\ a <= c - 2 /\ d - 2 <= b
        BY <1>8, <1>9, <2>1, <2>3
      <3>3. QED
        BY <3>1, <3>2
    <2>5. /\ SubSeq(value, a, b) \in Strings /\ Len(SubSeq(value, a, b)) = b - a + 1
          /\ \A i \in 1..(b - a + 1) : SubSeq(value, a, b)[i] = value[a + i - 1]
      BY <1>1, <2>4, Within, SMTT(30)
    <2>6. /\ SubSeq(padded, c, d) \in Strings /\ Len(SubSeq(padded, c, d)) = b - a + 1
          /\ \A i \in 1..(b - a + 1) : SubSeq(padded, c, d)[i] = padded[c + i - 1]
      <3>1. c \in Nat \ {0} /\ d \in Nat /\ d <= Len(padded) /\ c <= d /\ d - c + 1 = b - a + 1
        BY <1>1, <1>4, <2>4, SMTT(30)
      <3>2. QED
        BY <1>6, <3>1, Within
    <2>7. ASSUME NEW i \in 1..(b - a + 1)
          PROVE  SubSeq(padded, c, d)[i] = SubSeq(value, a, b)[i]
      <3>1. a + i - 1 \in 1..Len(value) /\ (a + i - 1) + 2 = c + i - 1
        BY <1>1, <2>4
      <3>2. padded[c + i - 1] = value[a + i - 1]
        BY <1>5, <3>1
      <3>3. QED
        BY <2>5, <2>6, <3>2
    <2>8. SubSeq(padded, c, d) = SubSeq(value, a, b)
      BY <2>5, <2>6, <2>7, SeqEqual DEF Strings
    <2>9. QED
      BY <2>1, <2>3, <2>8
  <1>12. QED
    BY <1>6, <1>10, <1>11 DEF padded

\* A part read back: the label has no '=', whatever the value has.
LEMMA PartReadsBack ==
  ASSUME NEW label \in Strings, NEW value \in Strings,
         \A i \in 1..Len(label) : label[i] # Equals
  PROVE  /\ label \o <<Equals>> \o value \in Strings
         /\ Len(label \o <<Equals>> \o value) = Len(label) + 1 + Len(value)
         /\ \A i \in 1..Len(label \o <<Equals>> \o value) :
              (label \o <<Equals>> \o value)[i] =
                IF i <= Len(label) THEN label[i]
                ELSE IF i = Len(label) + 1 THEN Equals ELSE value[i - (Len(label) + 1)]
         /\ SplitPart(label \o <<Equals>> \o value) = <<label, value>>
  <1> DEFINE front == label \o <<Equals>>
             part  == front \o value
             n     == Len(label)
  <1>1. label \in Seq(Nat) /\ value \in Seq(Nat) /\ n \in Nat /\ Len(value) \in Nat
    BY StringType
  <1>2. /\ front \in Seq(Nat) /\ Len(front) = n + 1
        /\ \A i \in 1..n : front[i] = label[i]
        /\ front[n + 1] = Equals
    <2>1. <<Equals>> \in Seq(Nat)
      BY DEF Equals
    <2>2. QED
      BY <1>1, <2>1, SideBySide
  <1> HIDE DEF front
  <1>3. /\ part \in Seq(Nat) /\ Len(part) = n + 1 + Len(value)
        /\ \A i \in 1..(n + 1) : part[i] = front[i]
        /\ \A i \in 1..Len(value) : part[n + 1 + i] = value[i]
    <2>1. front \in Seq(Nat) /\ value \in Seq(Nat)
      BY <1>1, <1>2
    <2>2. /\ part \in Seq(Nat) /\ Len(part) = Len(front) + Len(value)
          /\ \A i \in 1..Len(front) : part[i] = front[i]
          /\ \A i \in 1..Len(value) : part[Len(front) + i] = value[i]
      BY <2>1, SideBySide
    <2> HIDE DEF part
    <2>3. QED
      BY <1>2, <2>2
  <1> HIDE DEF part
  <1>4. ASSUME NEW i \in 1..Len(part)
        PROVE  part[i] = IF i <= n THEN label[i] ELSE IF i = n + 1 THEN Equals ELSE value[i - (n + 1)]
    <2>1. CASE i <= n + 1
      BY <1>1, <1>2, <1>3, <2>1, SMTT(30)
    <2>2. CASE i > n + 1
      <3>1. i - (n + 1) \in 1..Len(value) /\ n + 1 + (i - (n + 1)) = i
        BY <1>1, <1>3, <2>2
      <3>2. part[i] = value[i - (n + 1)]
        BY <1>3, <3>1
      <3>3. ~(i <= n) /\ i # n + 1
        BY <1>1, <2>2
      <3>4. QED
        BY <3>2, <3>3
    <2>3. QED
      BY <1>1, <2>1, <2>2
  <1> DEFINE places == {Len(part) + 1} \union {i \in 1..Len(part) : part[i] = Equals}
             at     == Min(places)
  <1>5. at = n + 1
    <2>1. n + 1 \in places
      BY <1>1, <1>3, <1>4
    <2>2. \A i \in places : n + 1 <= i /\ i \in Nat
      <3>1. ASSUME NEW i \in places  PROVE n + 1 <= i /\ i \in Nat
        <4>1. CASE i = Len(part) + 1
          BY <1>1, <1>3, <4>1
        <4>2. CASE i \in 1..Len(part) /\ part[i] = Equals
          BY <1>1, <1>4, <4>2
        <4>3. QED
          BY <4>1, <4>2
      <3>2. QED
        BY <3>1
    <2> HIDE DEF places
    <2>3. at \in places /\ at <= n + 1
      BY <2>1, <2>2, MinOf
    <2>4. QED
      BY <1>1, <2>2, <2>3
  <1>6. SplitPart(part) = <<SubSeq(part, 1, at - 1), SubSeq(part, at + 1, Len(part))>>
    BY DEF SplitPart
  <1> HIDE DEF at
  <1>7. SplitPart(part) = <<SubSeq(part, 1, n), SubSeq(part, n + 2, Len(part))>>
    <2>1. at - 1 = n /\ at + 1 = n + 2
      BY <1>1, <1>5
    <2>2. QED
      BY <1>6, <2>1
  <1>8. SubSeq(part, 1, n) = label
    <2>1. /\ SubSeq(part, 1, n) \in Strings /\ Len(SubSeq(part, 1, n)) = n
          /\ \A i \in 1..n : SubSeq(part, 1, n)[i] = part[i]
      <3>1. part \in Strings /\ n <= Len(part) /\ n - 1 + 1 = n
        BY <1>1, <1>3 DEF Strings
      <3>2. /\ SubSeq(part, 1, n) \in Strings
            /\ Len(SubSeq(part, 1, n)) = IF 1 <= n THEN n - 1 + 1 ELSE 0
            /\ \A i \in 1..(n - 1 + 1) : SubSeq(part, 1, n)[i] = part[1 + i - 1]
        BY <1>1, <3>1, Within
      <3>3. QED
        BY <1>1, <3>2
    <2>2. \A i \in 1..n : part[i] = label[i]
      BY <1>1, <1>3, <1>4
    <2>3. QED
      BY <2>1, <2>2, SeqEqual DEF Strings
  <1>9. SubSeq(part, n + 2, Len(part)) = value
    <2>1. /\ SubSeq(part, n + 2, Len(part)) \in Strings
          /\ Len(SubSeq(part, n + 2, Len(part))) = Len(value)
          /\ \A i \in 1..Len(value) : SubSeq(part, n + 2, Len(part))[i] = part[n + 2 + i - 1]
      <3>1. part \in Strings /\ n + 2 \in Nat \ {0} /\ Len(part) \in Nat
        BY <1>1, <1>3 DEF Strings
      <3>2. /\ SubSeq(part, n + 2, Len(part)) \in Strings
            /\ Len(SubSeq(part, n + 2, Len(part))) = IF n + 2 <= Len(part) THEN Len(part) - (n + 2) + 1 ELSE 0
            /\ \A i \in 1..(Len(part) - (n + 2) + 1) : SubSeq(part, n + 2, Len(part))[i] = part[n + 2 + i - 1]
        BY <3>1, Within
      <3>3. QED
        BY <1>1, <1>3, <3>2
    <2>2. \A i \in 1..Len(value) : part[n + 2 + i - 1] = value[i]
      <3>1. ASSUME NEW i \in 1..Len(value)  PROVE part[n + 2 + i - 1] = value[i]
        <4>1. n + 2 + i - 1 = n + 1 + i
          BY <1>1
        <4>2. QED
          BY <1>3, <4>1
      <3>2. QED
        BY <3>1
    <2>3. QED
      BY <2>1, <2>2, SeqEqual DEF Strings
  <1>10. SplitPart(part) = <<label, value>>
    BY <1>7, <1>8, <1>9
  <1>11. part \in Strings
    BY <1>3 DEF Strings
  <1>12. QED
    BY <1>3, <1>4, <1>10, <1>11 DEF part, front

-----------------------------------------------------------------------------
(* A form read back: its stretches from one separator to the next. *)

\* The stretches of a form: a separator, and where the next one stands or the form
\* ends.
Stretches(form) ==
  {q \in (1..Len(form)) \X (2..(Len(form) + 1)) :
     /\ form[q[1]] = fingerprintSeparator
     /\ q[1] < q[2]
     /\ q[2] <= Len(form) => form[q[2]] = fingerprintSeparator
     /\ \A j \in (q[1] + 1)..(q[2] - 1) : form[j] # fingerprintSeparator}

\* A form is read back stretch by stretch.
LEMMA ReadBackStretches ==
  ASSUME NEW form \in Strings
  PROVE  ReadBack(form) = {SplitPart(SubSeq(form, q[1] + 1, q[2] - 1)) : q \in Stretches(form)}
  <1> DEFINE cuts   == {i \in 1..Len(form) : form[i] = fingerprintSeparator}
             after(i) == {Len(form) + 1} \union {j \in cuts : j > i}
             End(i) == Min(after(i))
  <1>1. Len(form) \in Nat
    BY StringType
  <1>2. ReadBack(form) = {SplitPart(SubSeq(form, i + 1, End(i) - 1)) : i \in cuts}
    BY DEF ReadBack
  <1>3. ASSUME NEW i \in cuts
        PROVE  <<i, End(i)>> \in Stretches(form)
    <2>1. End(i) \in after(i) /\ \A j \in after(i) : End(i) <= j
      <3>1. after(i) \subseteq Nat /\ after(i) # {}
        BY <1>1
      <3> HIDE DEF after
      <3>2. QED
        BY <3>1, MinOf
    <2> HIDE DEF End
    <2>2. i \in 1..Len(form) /\ form[i] = fingerprintSeparator /\ i < End(i) /\ End(i) \in 2..(Len(form) + 1)
      BY <1>1, <2>1
    <2>3. End(i) <= Len(form) => form[End(i)] = fingerprintSeparator
      BY <1>1, <2>1
    <2>4. ASSUME NEW j \in (i + 1)..(End(i) - 1)  PROVE form[j] # fingerprintSeparator
      <3>1. j \in 1..Len(form) /\ j > i /\ ~(End(i) <= j)
        BY <1>1, <2>2
      <3>2. j \notin after(i)
        BY <2>1, <3>1
      <3>3. QED
        BY <3>1, <3>2
    <2>5. QED
      BY <2>2, <2>3, <2>4 DEF Stretches
  <1>4. ASSUME NEW q \in Stretches(form)
        PROVE  q[1] \in cuts /\ End(q[1]) = q[2]
    <2>1. /\ q[1] \in 1..Len(form) /\ q[2] \in 2..(Len(form) + 1) /\ q[1] < q[2]
          /\ form[q[1]] = fingerprintSeparator
          /\ q[2] <= Len(form) => form[q[2]] = fingerprintSeparator
          /\ \A j \in (q[1] + 1)..(q[2] - 1) : form[j] # fingerprintSeparator
      BY DEF Stretches
    <2>2. q[1] \in cuts
      BY <2>1
    <2> DEFINE i == q[1]
               e == End(i)
    <2>3. e \in after(i) /\ \A j \in after(i) : e <= j
      <3>1. after(i) \subseteq Nat /\ after(i) # {}
        BY <1>1
      <3> HIDE DEF after, i
      <3>2. QED
        BY <3>1, MinOf
    <2>4. q[2] \in after(i)
      BY <1>1, <2>1
    <2> HIDE DEF e
    <2>5. e <= q[2]
      BY <2>3, <2>4
    <2>6. ~(e < q[2])
      <3>1. ASSUME e < q[2]  PROVE FALSE
        <4>1. e \in (q[1] + 1)..(q[2] - 1) /\ form[e] = fingerprintSeparator
          BY <1>1, <2>1, <2>3, <3>1
        <4>2. QED
          BY <2>1, <4>1
      <3>2. QED
        BY <3>1
    <2>7. e = q[2]
      <3>1. e \in Int /\ q[2] \in Int
        BY <1>1, <2>1, <2>3
      <3>2. QED
        BY <2>5, <2>6, <3>1
    <2>8. QED
      BY <2>2, <2>7 DEF e
  <1> HIDE DEF End, cuts
  <1>5. ReadBack(form) \subseteq {SplitPart(SubSeq(form, q[1] + 1, q[2] - 1)) : q \in Stretches(form)}
    <2>1. ASSUME NEW i \in cuts
          PROVE  \E q \in Stretches(form) :
                   SplitPart(SubSeq(form, i + 1, End(i) - 1)) = SplitPart(SubSeq(form, q[1] + 1, q[2] - 1))
      <3> DEFINE q == <<i, End(i)>>
      <3>1. q \in Stretches(form) /\ q[1] = i /\ q[2] = End(i)
        BY <1>3
      <3> HIDE DEF q
      <3>2. QED
        BY <3>1
    <2>2. QED
      BY <1>2, <2>1
  <1>6. {SplitPart(SubSeq(form, q[1] + 1, q[2] - 1)) : q \in Stretches(form)} \subseteq ReadBack(form)
    <2>1. ASSUME NEW q \in Stretches(form)
          PROVE  \E i \in cuts :
                   SplitPart(SubSeq(form, q[1] + 1, q[2] - 1)) = SplitPart(SubSeq(form, i + 1, End(i) - 1))
      BY <1>4
    <2>2. QED
      BY <1>2, <2>1
  <1>7. QED
    BY <1>5, <1>6

\* A string that holds no separator.
Clean(s) == s \in Strings /\ \A i \in 1..Len(s) : s[i] # fingerprintSeparator

\* One more part is one more stretch, and leaves the others as they are.
LEMMA OneMorePart ==
  ASSUME NEW a \in Strings, NEW p, Clean(p)
  PROVE  /\ a \o (<<fingerprintSeparator>> \o p) \in Strings
         /\ ReadBack(a \o (<<fingerprintSeparator>> \o p)) = ReadBack(a) \union {SplitPart(p)}
  <1> DEFINE sep  == <<fingerprintSeparator>>
             b    == sep \o p
             form == a \o b
             m    == Len(a)
             n    == Len(p)
  <1>1. /\ a \in Seq(Nat) /\ p \in Seq(Nat) /\ m \in Nat /\ n \in Nat
        /\ sep \in Seq(Nat) /\ Len(sep) = 1 /\ sep[1] = fingerprintSeparator
        /\ \A i \in 1..n : p[i] # fingerprintSeparator
    BY StringType DEF Clean, fingerprintSeparator
  <1> HIDE DEF sep
  <1>2. /\ b \in Seq(Nat) /\ Len(b) = 1 + n /\ b[1] = fingerprintSeparator
        /\ \A i \in 1..n : b[1 + i] = p[i]
    <2>1. /\ sep \o p \in Seq(Nat) /\ Len(sep \o p) = Len(sep) + Len(p)
          /\ \A i \in 1..Len(sep) : (sep \o p)[i] = sep[i]
          /\ \A i \in 1..Len(p) : (sep \o p)[Len(sep) + i] = p[i]
      <3>1. sep \in Seq(Nat) /\ p \in Seq(Nat)
        BY <1>1
      <3>2. QED
        BY <3>1, SideBySide
    <2>2. QED
      BY <1>1, <2>1
  <1> HIDE DEF b
  <1>3. /\ form \in Seq(Nat) /\ Len(form) = m + (1 + n)
        /\ \A i \in 1..m : form[i] = a[i]
        /\ \A i \in 1..(1 + n) : form[m + i] = b[i]
    <2>1. /\ a \o b \in Seq(Nat) /\ Len(a \o b) = Len(a) + Len(b)
          /\ \A i \in 1..Len(a) : (a \o b)[i] = a[i]
          /\ \A i \in 1..Len(b) : (a \o b)[Len(a) + i] = b[i]
      <3>1. a \in Seq(Nat) /\ b \in Seq(Nat)
        BY <1>1, <1>2
      <3>2. QED
        BY <3>1, SideBySide
    <2>2. QED
      BY <1>2, <2>1
  <1> HIDE DEF form
  <1>4. /\ form \in Strings /\ Len(form) = m + n + 1
        /\ form[m + 1] = fingerprintSeparator
        /\ \A i \in 1..n : form[m + 1 + i] = p[i]
    <2>1. form[m + 1] = fingerprintSeparator
      BY <1>1, <1>2, <1>3
    <2>2. ASSUME NEW i \in 1..n  PROVE form[m + 1 + i] = p[i]
      <3>1. 1 + i \in 1..(1 + n) /\ m + (1 + i) = m + 1 + i
        BY <1>1
      <3>2. QED
        BY <1>2, <1>3, <3>1
    <2>3. QED
      BY <1>1, <1>3, <2>1, <2>2 DEF Strings
  <1>5. \A k \in (m + 2)..(m + n + 1) : form[k] # fingerprintSeparator
    <2>1. ASSUME NEW k \in (m + 2)..(m + n + 1)  PROVE form[k] # fingerprintSeparator
      <3>1. k - (m + 1) \in 1..n /\ m + 1 + (k - (m + 1)) = k
        BY <1>1
      <3>2. QED
        BY <1>1, <1>4, <3>1
    <2>2. QED
      BY <2>1
  <1> DEFINE new == <<m + 1, m + n + 2>>
  <1>6. new \in Stretches(form)
    <2>1. new \in (1..Len(form)) \X (2..(Len(form) + 1)) /\ new[1] = m + 1 /\ new[2] = m + n + 2
      BY <1>1, <1>4
    <2> HIDE DEF new
    <2>2. ~(new[2] <= Len(form)) /\ new[1] < new[2]
      BY <1>1, <1>4, <2>1
    <2>3. \A j \in (new[1] + 1)..(new[2] - 1) : form[j] # fingerprintSeparator
      <3>1. new[1] + 1 = m + 2 /\ new[2] - 1 = m + n + 1
        BY <1>1, <2>1
      <3>2. QED
        BY <1>5, <3>1
    <2>4. QED
      BY <1>4, <2>1, <2>2, <2>3 DEF Stretches
  <1>7. ASSUME NEW q \in Stretches(a)  PROVE q \in Stretches(form)
    <2>1. /\ q \in (1..m) \X (2..(m + 1)) /\ q[1] \in 1..m /\ q[2] \in 2..(m + 1) /\ q[1] < q[2]
          /\ a[q[1]] = fingerprintSeparator
          /\ q[2] <= m => a[q[2]] = fingerprintSeparator
          /\ \A j \in (q[1] + 1)..(q[2] - 1) : a[j] # fingerprintSeparator
      BY DEF Stretches
    <2>2. q \in (1..Len(form)) \X (2..(Len(form) + 1))
      <3>1. q[1] \in 1..Len(form) /\ q[2] \in 2..(Len(form) + 1)
        BY <1>1, <1>4, <2>1
      <3>2. q = <<q[1], q[2]>>
        BY <2>1
      <3>3. QED
        BY <3>1, <3>2
    <2>3. form[q[1]] = fingerprintSeparator
      BY <1>3, <2>1
    <2>4. form[q[2]] = fingerprintSeparator
      <3>1. CASE q[2] <= m
        <4>1. q[2] \in 1..m /\ a[q[2]] = fingerprintSeparator
          BY <1>1, <2>1, <3>1
        <4>2. QED
          BY <1>3, <4>1
      <3>2. CASE q[2] = m + 1
        BY <1>4, <3>2
      <3>3. QED
        BY <1>1, <2>1, <3>1, <3>2, SMTT(30)
    <2>5. \A j \in (q[1] + 1)..(q[2] - 1) : form[j] # fingerprintSeparator
      <3>1. \A j \in (q[1] + 1)..(q[2] - 1) : j \in 1..m
        BY <1>1, <2>1, SMTT(30)
      <3>2. QED
        BY <1>3, <2>1, <3>1
    <2>6. QED
      BY <2>1, <2>2, <2>3, <2>4, <2>5 DEF Stretches
  <1>8. ASSUME NEW q \in Stretches(form), q # new  PROVE q \in Stretches(a)
    <2>1. /\ q[1] \in 1..(m + n + 1) /\ q[2] \in 2..(m + n + 2) /\ q[1] < q[2] /\ q = <<q[1], q[2]>>
          /\ form[q[1]] = fingerprintSeparator
          /\ q[2] <= m + n + 1 => form[q[2]] = fingerprintSeparator
          /\ \A j \in (q[1] + 1)..(q[2] - 1) : form[j] # fingerprintSeparator
      <3>1. /\ q \in (1..Len(form)) \X (2..(Len(form) + 1)) /\ q[1] < q[2]
            /\ form[q[1]] = fingerprintSeparator
            /\ q[2] <= Len(form) => form[q[2]] = fingerprintSeparator
            /\ \A j \in (q[1] + 1)..(q[2] - 1) : form[j] # fingerprintSeparator
        BY DEF Stretches
      <3>2. Len(form) = m + n + 1 /\ Len(form) + 1 = m + n + 2
        BY <1>1, <1>4
      <3>3. QED
        BY <3>1, <3>2
    <2>2. q[1] \notin (m + 2)..(m + n + 1) /\ (q[2] <= m + n + 1 => q[2] \notin (m + 2)..(m + n + 1))
      BY <1>5, <2>1
    <2>3. q[1] # m + 1
      <3>1. ASSUME q[1] = m + 1  PROVE FALSE
        <4>1. q[2] = m + n + 2
          <5>1. q[2] \in 2..(m + n + 2) /\ m + 1 < q[2]
            BY <2>1, <3>1
          <5>2. m \in Nat /\ n \in Nat
            BY <1>1
          <5>3. q[2] <= m + n + 1 => q[2] \notin (m + 2)..(m + n + 1)
            BY <2>2
          <5> HIDE DEF m, n
          <5>4. QED
            BY <5>1, <5>2, <5>3
        <4>2. QED
          BY <1>8, <2>1, <3>1, <4>1
      <3>2. QED
        BY <3>1
    <2>4. q[1] \in 1..m
      BY <1>1, <2>1, <2>2, <2>3
    <2>5. q[2] \in 2..(m + 1)
      <3>1. ASSUME q[2] > m + 1  PROVE FALSE
        <4>1. m + 1 \in (q[1] + 1)..(q[2] - 1)
          BY <1>1, <2>1, <2>4, <3>1
        <4>2. QED
          BY <1>4, <2>1, <4>1
      <3>2. QED
        BY <1>1, <2>1, <3>1
    <2>6. a[q[1]] = fingerprintSeparator
      BY <1>3, <2>1, <2>4
    <2>7. q[2] <= m => a[q[2]] = fingerprintSeparator
      BY <1>1, <1>3, <2>1, <2>5, SMTT(30)
    <2>8. \A j \in (q[1] + 1)..(q[2] - 1) : a[j] # fingerprintSeparator
      <3>1. \A j \in (q[1] + 1)..(q[2] - 1) : j \in 1..m
        BY <1>1, <2>4, <2>5
      <3>2. QED
        BY <1>3, <2>1, <3>1
    <2>9. q \in (1..m) \X (2..(m + 1))
      BY <2>1, <2>4, <2>5
    <2>10. QED
      BY <2>1, <2>6, <2>7, <2>8, <2>9 DEF Stretches
  <1>9. SplitPart(SubSeq(form, new[1] + 1, new[2] - 1)) = SplitPart(p)
    <2>1. new[1] + 1 = m + 2 /\ new[2] - 1 = m + n + 1
      BY <1>1
    <2>2. SubSeq(form, m + 2, m + n + 1) = p
      <3>1. /\ SubSeq(form, m + 2, m + n + 1) \in Strings
            /\ Len(SubSeq(form, m + 2, m + n + 1)) = n
            /\ \A i \in 1..n : SubSeq(form, m + 2, m + n + 1)[i] = form[m + 2 + i - 1]
        <4>1. m + 2 \in Nat \ {0} /\ m + n + 1 \in Nat /\ m + n + 1 <= Len(form)
              /\ (m + n + 1) - (m + 2) + 1 = n /\ (m + 2 <= m + n + 1 <=> n # 0)
          BY <1>1, <1>4
        <4>2. /\ SubSeq(form, m + 2, m + n + 1) \in Strings
              /\ Len(SubSeq(form, m + 2, m + n + 1)) =
                   IF m + 2 <= m + n + 1 THEN (m + n + 1) - (m + 2) + 1 ELSE 0
              /\ \A i \in 1..((m + n + 1) - (m + 2) + 1) :
                   SubSeq(form, m + 2, m + n + 1)[i] = form[m + 2 + i - 1]
          BY <1>4, <4>1, Within
        <4>3. QED
          BY <4>1, <4>2
      <3>2. \A i \in 1..n : form[m + 2 + i - 1] = p[i]
        <4>1. \A i \in 1..n : m + 2 + i - 1 = m + 1 + i
          BY <1>1
        <4>2. QED
          BY <1>4, <4>1
      <3>3. QED
        BY <1>1, <3>1, <3>2, SeqEqual DEF Strings
    <2>3. QED
      BY <2>1, <2>2
  <1>10. ASSUME NEW q \in Stretches(a)
         PROVE  SubSeq(form, q[1] + 1, q[2] - 1) = SubSeq(a, q[1] + 1, q[2] - 1)
    <2> DEFINE i == q[1] + 1
               j == q[2] - 1
    <2>1. i \in Nat \ {0} /\ j \in Nat /\ j <= m /\ j <= Len(form)
      BY <1>1, <1>4, SMTT(30) DEF Stretches
    <2> HIDE DEF i, j
    <2>2. /\ SubSeq(form, i, j) \in Strings
          /\ Len(SubSeq(form, i, j)) = IF i <= j THEN j - i + 1 ELSE 0
          /\ \A k \in 1..(j - i + 1) : SubSeq(form, i, j)[k] = form[i + k - 1]
      BY <1>4, <2>1, Within
    <2>3. /\ SubSeq(a, i, j) \in Strings
          /\ Len(SubSeq(a, i, j)) = IF i <= j THEN j - i + 1 ELSE 0
          /\ \A k \in 1..(j - i + 1) : SubSeq(a, i, j)[k] = a[i + k - 1]
      BY <2>1, Within
    <2>4. \A k \in 1..(j - i + 1) : i + k - 1 \in 1..m
      BY <1>1, <2>1
    <2>5. \A k \in 1..(j - i + 1) : SubSeq(form, i, j)[k] = SubSeq(a, i, j)[k]
      BY <1>3, <2>2, <2>3, <2>4
    <2>6. \A k \in 1..Len(SubSeq(form, i, j)) : k \in 1..(j - i + 1)
      BY <2>1, <2>2
    <2>7. SubSeq(form, i, j) = SubSeq(a, i, j)
      BY <2>2, <2>3, <2>5, <2>6, SeqEqual DEF Strings
    <2>8. QED
      BY <2>7 DEF i, j
  <1> HIDE DEF new, m, n
  <1> DEFINE Read(f, q) == SplitPart(SubSeq(f, q[1] + 1, q[2] - 1))
  <1>11. /\ ReadBack(form) = {Read(form, q) : q \in Stretches(form)}
         /\ ReadBack(a) = {Read(a, q) : q \in Stretches(a)}
    BY <1>4, ReadBackStretches
  <1>12. \A q \in Stretches(a) : Read(form, q) = Read(a, q)
    BY <1>10
  <1>13. Read(form, new) = SplitPart(p)
    BY <1>9
  <1> HIDE DEF Read
  <1>14. Stretches(form) = Stretches(a) \union {new}
    BY <1>6, <1>7, <1>8
  <1>15. ReadBack(form) = ReadBack(a) \union {SplitPart(p)}
    BY <1>11, <1>12, <1>13, <1>14
  <1>16. QED
    BY <1>4, <1>15 DEF form, b, sep

\* A form is read back part by part.
LEMMA FormReadsBack ==
  ASSUME NEW parts, NEW N \in Nat, parts \in [1..N -> Strings], \A i \in 1..N : Clean(parts[i])
  PROVE  LET form == fingerprintDomain
                       \o FlattenSeq([i \in 1..N |-> <<fingerprintSeparator>> \o parts[i]])
         IN /\ form \in Strings
            /\ ReadBack(form) = {SplitPart(parts[i]) : i \in 1..N}
  <1> DEFINE marked == [i \in 1..N |-> <<fingerprintSeparator>> \o parts[i]]
             F      == Flattening(marked)
             B      == {m \in 0..N : m # 0 =>
                          /\ F[m] \in Strings
                          /\ fingerprintDomain \o F[m] \in Strings
                          /\ ReadBack(fingerprintDomain \o F[m]) = {SplitPart(parts[i]) : i \in 1..m}}
  <1>1. /\ fingerprintDomain \in Strings /\ fingerprintDomain \in Seq(Nat)
        /\ ReadBack(fingerprintDomain) = {}
    <2>1. fingerprintDomain \in Strings /\ fingerprintDomain \in Seq(Nat)
      BY DEF fingerprintDomain, Strings
    <2>2. \A i \in 1..Len(fingerprintDomain) : fingerprintDomain[i] # fingerprintSeparator
      BY DEF fingerprintDomain, fingerprintSeparator
    <2>3. Stretches(fingerprintDomain) = {}
      BY <2>2 DEF Stretches
    <2>4. QED
      BY <2>1, <2>3, ReadBackStretches
  <1>2. \A i \in 1..N : <<fingerprintSeparator>> \o parts[i] \in Seq(Nat)
    <2>1. <<fingerprintSeparator>> \in Seq(Nat)
      BY DEF fingerprintSeparator
    <2>2. QED
      BY <2>1, ConcatProperties DEF Strings
  <1>3. marked \in Seq(Seq(Nat)) /\ Len(marked) = N
    BY <1>2
  <1>4. /\ F = [i \in 1..Len(marked) |-> IF i = 1 THEN marked[i] ELSE F[i - 1] \o marked[i]]
        /\ FlattenSeq(marked) = IF Len(marked) = 0 THEN <<>> ELSE F[Len(marked)]
    <2> HIDE DEF marked
    <2>1. QED
      BY <1>3, FlatteningFrom
  <1>5. \A i \in 1..N : marked[i] = <<fingerprintSeparator>> \o parts[i] /\ marked[i] \in Seq(Nat)
    BY <1>2
  <1> HIDE DEF F, marked
  <1>6. /\ \A i \in 1..N : F[i] = IF i = 1 THEN marked[i] ELSE F[i - 1] \o marked[i]
        /\ FlattenSeq(marked) = IF N = 0 THEN <<>> ELSE F[N]
    BY <1>3, <1>4
  <1>7. 0 \in B
    OBVIOUS
  <1>8. ASSUME NEW m \in 0..(N - 1), m \in B  PROVE m + 1 \in B
    <2>1. m + 1 \in 1..N /\ (m + 1) - 1 = m
      OBVIOUS
    <2> DEFINE base == IF m = 0 THEN fingerprintDomain ELSE fingerprintDomain \o F[m]
    <2>2. base \in Strings /\ ReadBack(base) = {SplitPart(parts[i]) : i \in 1..m}
      <3>1. CASE m = 0
        <4>1. 1..m = {}
          BY <3>1
        <4>2. QED
          BY <1>1, <3>1, <4>1
      <3>2. CASE m # 0
        BY <1>8, <3>2
      <3>3. QED
        BY <3>1, <3>2
    <2>3. /\ F[m + 1] \in Seq(Nat)
          /\ fingerprintDomain \o F[m + 1] = base \o (<<fingerprintSeparator>> \o parts[m + 1])
      <3>1. CASE m = 0
        <4>1. F[m + 1] = marked[m + 1] /\ base = fingerprintDomain
          BY <1>6, <2>1, <3>1
        <4>2. marked[m + 1] = <<fingerprintSeparator>> \o parts[m + 1] /\ marked[m + 1] \in Seq(Nat)
          BY <1>5, <2>1
        <4>3. QED
          BY <4>1, <4>2
      <3>2. CASE m # 0
        <4>1. F[m + 1] = F[m] \o marked[m + 1] /\ F[m] \in Seq(Nat) /\ marked[m + 1] \in Seq(Nat)
          <5>1. F[m + 1] = F[m] \o marked[m + 1]
            <6>1. m + 1 # 1
              BY <3>2
            <6>2. QED
              BY <1>6, <2>1, <6>1
          <5>2. F[m] \in Seq(Nat)
            BY <1>8, <3>2 DEF Strings
          <5>3. QED
            BY <1>5, <2>1, <5>1, <5>2
        <4>2. (fingerprintDomain \o F[m]) \o marked[m + 1] = fingerprintDomain \o (F[m] \o marked[m + 1])
          <5> DEFINE before == F[m]
                     last   == marked[m + 1]
          <5>1. before \in Seq(Nat) /\ last \in Seq(Nat)
            BY <4>1
          <5> HIDE DEF before, last
          <5>2. (fingerprintDomain \o before) \o last = fingerprintDomain \o (before \o last)
            BY <1>1, <5>1, ConcatAssociative, SMTT(30)
          <5>3. QED
            BY <5>2 DEF before, last
        <4>3. F[m + 1] \in Seq(Nat)
          BY <4>1, ConcatProperties
        <4>4. QED
          BY <1>5, <2>1, <3>2, <4>1, <4>2, <4>3
      <3>3. QED
        BY <3>1, <3>2
    <2> HIDE DEF base
    <2>4. /\ base \o (<<fingerprintSeparator>> \o parts[m + 1]) \in Strings
          /\ ReadBack(base \o (<<fingerprintSeparator>> \o parts[m + 1])) =
               ReadBack(base) \union {SplitPart(parts[m + 1])}
      BY <2>1, <2>2, OneMorePart
    <2>5. {SplitPart(parts[i]) : i \in 1..(m + 1)} =
            {SplitPart(parts[i]) : i \in 1..m} \union {SplitPart(parts[m + 1])}
      <3>1. \A i : i \in 1..(m + 1) <=> i \in 1..m \/ i = m + 1
        OBVIOUS
      <3>2. QED
        BY <3>1
    <2>6. /\ F[m + 1] \in Strings
          /\ fingerprintDomain \o F[m + 1] \in Strings
          /\ ReadBack(fingerprintDomain \o F[m + 1]) = {SplitPart(parts[i]) : i \in 1..(m + 1)}
      <3>1. F[m + 1] \in Strings
        BY <2>3 DEF Strings
      <3>2. QED
        BY <2>2, <2>3, <2>4, <2>5, <3>1
    <2>7. QED
      BY <2>1, <2>6
  <1>9. N \in B
    <2> HIDE DEF B
    <2>1. QED
      BY <1>7, <1>8, Ascent
  <1>10. CASE N = 0
    <2>1. 1..N = {} /\ fingerprintDomain \o FlattenSeq(marked) = fingerprintDomain
      BY <1>1, <1>6, <1>10, ConcatEmptySeq
    <2>2. QED
      BY <1>1, <2>1 DEF marked
  <1>11. CASE N # 0
    BY <1>6, <1>9, <1>11 DEF marked
  <1>12. QED
    BY <1>10, <1>11

-----------------------------------------------------------------------------
(* The fingerprint of any list of components. *)

Components == Seq([label : Strings, value : Strings])

\* What is accepted, without the order the code looks in.
LEMMA AcceptedMeans ==
  ASSUME NEW c \in Components
  PROVE  Accepted(c) <=>
           /\ Len(c) # 0
           /\ \A i \in 1..Len(c) : /\ validateFingerprintLabel(c[i].label)
                                   /\ validateFingerprintValue(Trim(c[i].value))
           /\ \A i, j \in 1..Len(c) : i # j => c[i].label # c[j].label
  <1>1. Len(c) \in Nat /\ (c # <<>> <=> Len(c) # 0)
    BY EmptySeq, LenProperties DEF Components
  <1>2. (\A i \in 1..Len(c) : \A j \in 1..(i - 1) : c[j].label # c[i].label)
          <=> \A i, j \in 1..Len(c) : i # j => c[i].label # c[j].label
    <2>1. ASSUME \A i \in 1..Len(c) : \A j \in 1..(i - 1) : c[j].label # c[i].label,
                 NEW i \in 1..Len(c), NEW j \in 1..Len(c), i # j
          PROVE  c[i].label # c[j].label
      <3>1. j \in 1..(i - 1) \/ i \in 1..(j - 1)
        BY <1>1, <2>1
      <3>2. QED
        BY <2>1, <3>1
    <2>2. ASSUME \A i, j \in 1..Len(c) : i # j => c[i].label # c[j].label,
                 NEW i \in 1..Len(c), NEW j \in 1..(i - 1)
          PROVE  c[j].label # c[i].label
      <3>1. j \in 1..Len(c) /\ i # j
        BY <1>1
      <3>2. QED
        BY <2>2, <3>1
    <2>3. QED
      BY <2>1, <2>2
  <1>3. QED
    BY <1>1, <1>2 DEF Accepted

\* A component of an accepted list: its part holds no separator and is read back.
LEMMA AcceptedPart ==
  ASSUME NEW component \in [label : Strings, value : Strings],
         validateFingerprintLabel(component.label),
         validateFingerprintValue(Trim(component.value))
  PROVE  /\ Clean(Part(component))
         /\ SplitPart(Part(component)) = <<component.label, Trim(component.value)>>
  <1> DEFINE label == component.label
             value == Trim(component.value)
             part  == label \o <<Equals>> \o value
  <1>1. label \in Strings /\ value \in Strings
    BY TrimType
  <1>2. \A i \in 1..Len(label) : label[i] # Equals /\ label[i] # fingerprintSeparator
    <2>1. \A i \in 1..Len(label) : label[i] \in 33..126 /\ label[i] # Equals
      BY DEF validateFingerprintLabel
    <2>2. \A byte \in 33..126 : byte # fingerprintSeparator
      BY DEF fingerprintSeparator
    <2> HIDE DEF label
    <2>3. QED
      BY <2>1, <2>2
  <1>3. \A i \in 1..Len(value) : value[i] # fingerprintSeparator
    <2>1. ASSUME NEW i \in 1..Len(value)  PROVE value[i] # fingerprintSeparator
      <3>1. value[i] > 31
        BY DEF validateFingerprintValue
      <3>2. value[i] \in Int
        BY <1>1, StringType
      <3>3. QED
        BY <3>1, <3>2 DEF fingerprintSeparator
    <2>2. QED
      BY <2>1
  <1>4. Part(component) = part
    BY DEF Part
  <1> HIDE DEF label, value
  <1>5. /\ part \in Strings /\ Len(part) = Len(label) + 1 + Len(value)
        /\ \A i \in 1..Len(part) :
             part[i] = IF i <= Len(label) THEN label[i]
                       ELSE IF i = Len(label) + 1 THEN Equals ELSE value[i - (Len(label) + 1)]
        /\ SplitPart(part) = <<label, value>>
    BY <1>1, <1>2, PartReadsBack
  <1> HIDE DEF part
  <1>6. ASSUME NEW i \in 1..Len(part)  PROVE part[i] # fingerprintSeparator
    <2>1. Len(label) \in Nat /\ Len(value) \in Nat
      BY <1>1, StringType
    <2>2. CASE i <= Len(label)
      BY <1>2, <1>5, <2>1, <2>2
    <2>3. CASE i = Len(label) + 1
      <3>1. part[i] = Equals
        BY <1>5, <2>1, <2>3
      <3>2. QED
        BY <3>1 DEF Equals, fingerprintSeparator
    <2>4. CASE i > Len(label) + 1
      <3>1. i - (Len(label) + 1) \in 1..Len(value)
        BY <1>5, <2>1, <2>4
      <3>2. part[i] = value[i - (Len(label) + 1)]
        BY <1>5, <2>1, <2>4
      <3>3. QED
        BY <1>3, <3>1, <3>2
    <2>5. QED
      BY <2>1, <2>2, <2>3, <2>4
  <1>7. Clean(part)
    BY <1>5, <1>6 DEF Clean
  <1>8. QED
    BY <1>4, <1>5, <1>7 DEF label, value

\* The canonical form of an accepted list can be read back (fingerprintCanonicalForm).
THEOREM FingerprintReadsBack ==
  ASSUME NEW c \in Components, Accepted(c)
  PROVE  ReadBack(fingerprintCanonicalForm(c)) = Identity(c) /\ Identity(c) # {}
  <1> DEFINE S     == Parts(c)
             parts == Sorted(S)
             N     == Len(parts)
  <1>1. Len(c) \in Nat /\ \A i \in 1..Len(c) : c[i] \in [label : Strings, value : Strings]
    BY LenProperties, ElementOfSeq DEF Components
  <1>2. \A i \in 1..Len(c) : /\ Clean(Part(c[i]))
                             /\ SplitPart(Part(c[i])) = <<c[i].label, Trim(c[i].value)>>
    BY <1>1, AcceptedMeans, AcceptedPart
  <1>3. S \in SUBSET Strings /\ \A s \in S : Clean(s)
    BY <1>2 DEF Parts, Clean
  <1>4. IsFiniteSet(S)
    <2> DEFINE f == [i \in 1..Len(c) |-> Part(c[i])]
    <2>1. f \in Surjection(1..Len(c), S)
      BY DEF Surjection, Parts
    <2>2. IsFiniteSet(1..Len(c))
      BY <1>1, FS_Interval
    <2> HIDE DEF f
    <2>3. QED
      BY <2>1, <2>2, FS_Surjection
  <1> HIDE DEF S
  <1>5. parts \in Seq(S) /\ {parts[i] : i \in 1..N} = S
    BY <1>3, <1>4, SortedParts
  <1> HIDE DEF parts
  <1>6. N \in Nat /\ parts \in [1..N -> Strings] /\ \A i \in 1..N : Clean(parts[i])
    BY <1>3, <1>5, LenProperties, ElementOfSeq
  <1>7. fingerprintCanonicalForm(c) =
          fingerprintDomain \o FlattenSeq([i \in 1..N |-> <<fingerprintSeparator>> \o parts[i]])
    BY DEF fingerprintCanonicalForm, parts, S
  <1> HIDE DEF N
  <1>8. ReadBack(fingerprintCanonicalForm(c)) = {SplitPart(parts[i]) : i \in 1..N}
    BY <1>6, <1>7, FormReadsBack
  <1>9. {SplitPart(parts[i]) : i \in 1..N} = {SplitPart(s) : s \in S}
    BY <1>5 DEF N
  <1>10. {SplitPart(s) : s \in S} = {SplitPart(Part(c[i])) : i \in 1..Len(c)}
    BY DEF S, Parts
  <1>11. {SplitPart(Part(c[i])) : i \in 1..Len(c)} = Identity(c)
    BY <1>2 DEF Identity
  <1>12. Identity(c) # {}
    <2>1. 1 \in 1..Len(c)
      BY <1>1, AcceptedMeans
    <2>2. QED
      BY <2>1 DEF Identity
  <1>13. QED
    BY <1>8, <1>9, <1>10, <1>11, <1>12

\* The canonical form depends on the components through what they mean alone.
LEMMA SameIdentity ==
  ASSUME NEW c \in Components, NEW d \in Components, Identity(c) = Identity(d),
         Accepted(c) <=> Accepted(d)
  PROVE  fingerprintCanonicalForm(c) = fingerprintCanonicalForm(d)
  <1> DEFINE Joined(x) == x[1] \o <<Equals>> \o x[2]
  <1>1. ASSUME NEW e \in Components  PROVE Parts(e) = {Joined(x) : x \in Identity(e)}
    <2> DEFINE x(i) == <<e[i].label, Trim(e[i].value)>>
    <2>1. \A i \in 1..Len(e) : Part(e[i]) = Joined(x(i)) /\ x(i) \in Identity(e)
      BY DEF Part, Identity
    <2>2. Identity(e) = {x(i) : i \in 1..Len(e)}
      BY DEF Identity
    <2> HIDE DEF Joined, x
    <2>3. QED
      BY <2>1, <2>2 DEF Parts
  <1> HIDE DEF Joined
  <1>2. Parts(c) = Parts(d)
    BY <1>1
  <1>3. QED
    BY <1>2 DEF fingerprintCanonicalForm

\* Two lists have one fingerprint exactly when both are accepted and name the same
\* labels and values: no two machines share one, and no machine has two
\* (CanonicalFingerprint).
THEOREM OneFingerprintOneMachine ==
  ASSUME NEW c \in Components, NEW d \in Components, Accepted(c)
  PROVE  fingerprintCanonicalForm(c) = fingerprintCanonicalForm(d)
           <=> Accepted(d) /\ Identity(c) = Identity(d)
  <1>1. ReadBack(Refused) = {}
    <2>1. Refused \in Strings /\ Stretches(Refused) = {}
      BY DEF Refused, Strings, Stretches
    <2>2. QED
      BY <2>1, ReadBackStretches
  <1>2. ASSUME fingerprintCanonicalForm(c) = fingerprintCanonicalForm(d)
        PROVE  Accepted(d) /\ Identity(c) = Identity(d)
    <2>1. Accepted(d)
      <3>1. ASSUME ~Accepted(d)  PROVE FALSE
        <4>1. fingerprintCanonicalForm(c) = Refused
          BY <1>2, <3>1 DEF fingerprintCanonicalForm
        <4>2. QED
          BY <1>1, <4>1, FingerprintReadsBack
      <3>2. QED
        BY <3>1
    <2>2. QED
      BY <1>2, <2>1, FingerprintReadsBack
  <1>3. QED
    BY <1>2, SameIdentity

\* The order of the components does not change the fingerprint (slices.Sort).
THEOREM FingerprintIgnoresOrder ==
  ASSUME NEW c \in Components, NEW p \in Bijection(DOMAIN c, DOMAIN c)
  PROVE  fingerprintCanonicalForm([i \in DOMAIN c |-> c[p[i]]]) = fingerprintCanonicalForm(c)
  <1> DEFINE d == [i \in DOMAIN c |-> c[p[i]]]
             n == Len(c)
  <1>1. n \in Nat /\ DOMAIN c = 1..n /\ \A i \in 1..n : c[i] \in [label : Strings, value : Strings]
    BY LenProperties, ElementOfSeq DEF Components
  <1>2. /\ p \in [1..n -> 1..n]
        /\ \A i, j \in 1..n : p[i] = p[j] => i = j
        /\ \A j \in 1..n : \E i \in 1..n : p[i] = j
    BY <1>1 DEF Bijection, Injection, Surjection, IsInjective
  <1>3. d \in Components /\ Len(d) = n /\ \A i \in 1..n : d[i] = c[p[i]]
    <2>1. d = [i \in 1..n |-> c[p[i]]]
      BY <1>1
    <2>2. QED
      BY <1>1, <1>2, <2>1 DEF Components
  <1> HIDE DEF d, n
  <1>4. Identity(d) = Identity(c)
    <2>1. /\ Identity(d) = {<<c[p[i]].label, Trim(c[p[i]].value)>> : i \in 1..n}
          /\ Identity(c) = {<<c[j].label, Trim(c[j].value)>> : j \in 1..n}
      BY <1>3 DEF Identity, n
    <2> DEFINE meant(j) == <<c[j].label, Trim(c[j].value)>>
    <2>2. Identity(d) = {meant(p[i]) : i \in 1..n} /\ Identity(c) = {meant(j) : j \in 1..n}
      BY <2>1
    <2> HIDE DEF meant
    <2>3. {meant(p[i]) : i \in 1..n} = {meant(j) : j \in 1..n}
      <3>1. \A j \in 1..n : \E i \in 1..n : meant(j) = meant(p[i])
        BY <1>2
      <3>2. \A i \in 1..n : p[i] \in 1..n
        BY <1>2
      <3>3. QED
        BY <3>1, <3>2
    <2>4. QED
      BY <2>2, <2>3
  <1>5. Accepted(d) <=> Accepted(c)
    <2> DEFINE Valid(e) == /\ validateFingerprintLabel(e.label)
                           /\ validateFingerprintValue(Trim(e.value))
    <2>1. /\ Accepted(d) <=> /\ n # 0
                             /\ \A i \in 1..n : Valid(c[p[i]])
                             /\ \A i, j \in 1..n : i # j => c[p[i]].label # c[p[j]].label
          /\ Accepted(c) <=> /\ n # 0
                             /\ \A i \in 1..n : Valid(c[i])
                             /\ \A i, j \in 1..n : i # j => c[i].label # c[j].label
      <3>1. /\ Accepted(d) <=> /\ Len(d) # 0
                               /\ \A i \in 1..Len(d) : Valid(d[i])
                               /\ \A i, j \in 1..Len(d) : i # j => d[i].label # d[j].label
            /\ Accepted(c) <=> /\ Len(c) # 0
                               /\ \A i \in 1..Len(c) : Valid(c[i])
                               /\ \A i, j \in 1..Len(c) : i # j => c[i].label # c[j].label
        BY <1>3, AcceptedMeans
      <3> HIDE DEF Valid
      <3>2. QED
        BY <1>3, <3>1 DEF n
    <2> HIDE DEF Valid
    <2>2. ASSUME Accepted(c)  PROVE Accepted(d)
      BY <1>2, <2>1, <2>2
    <2>3. ASSUME Accepted(d)  PROVE Accepted(c)
      <3>1. ASSUME NEW i \in 1..n, NEW j \in 1..n
            PROVE  Valid(c[i]) /\ (i # j => c[i].label # c[j].label)
        <4>1. PICK k \in 1..n : p[k] = i
          BY <1>2
        <4>2. PICK l \in 1..n : p[l] = j
          BY <1>2
        <4>3. QED
          BY <2>1, <2>3, <4>1, <4>2
      <3>2. QED
        BY <2>1, <2>3, <3>1
    <2>4. QED
      BY <2>2, <2>3
  <1>6. QED
    BY <1>3, <1>4, <1>5, SameIdentity DEF d

\* Nor does ASCII whitespace around their values (strings.Trim).
THEOREM FingerprintIgnoresPadding ==
  ASSUME NEW c \in Components
  PROVE  fingerprintCanonicalForm(Padded(c)) = fingerprintCanonicalForm(c)
  <1> DEFINE d == Padded(c)
             n == Len(c)
  <1>1. n \in Nat /\ \A i \in 1..n : c[i] \in [label : Strings, value : Strings]
    BY LenProperties, ElementOfSeq DEF Components
  <1>2. d = [i \in 1..n |-> [c[i] EXCEPT !.value = <<32, 9>> \o @ \o <<10>>]]
    BY DEF Padded
  <1>3. ASSUME NEW i \in 1..n
        PROVE  /\ d[i] \in [label : Strings, value : Strings]
               /\ d[i].label = c[i].label /\ Trim(d[i].value) = Trim(c[i].value)
    <2>1. /\ c[i].value \in Strings /\ c[i].label \in Strings
          /\ <<32, 9>> \o c[i].value \o <<10>> \in Strings
          /\ Trim(<<32, 9>> \o c[i].value \o <<10>>) = Trim(c[i].value)
      BY <1>1, TrimPadding
    <2> DEFINE padded == <<32, 9>> \o c[i].value \o <<10>>
    <2>2. d[i] = [c[i] EXCEPT !.value = padded]
      BY <1>2
    <2>3. padded \in Strings /\ Trim(padded) = Trim(c[i].value)
      BY <2>1
    <2> HIDE DEF padded, d
    <2>4. QED
      BY <1>1, <2>1, <2>2, <2>3
  <1>4. d \in Components /\ Len(d) = n
    <2>1. d \in [1..n -> [label : Strings, value : Strings]]
      BY <1>2, <1>3
    <2>2. n \in Nat
      BY <1>1
    <2> HIDE DEF d, n
    <2>3. d \in Seq([label : Strings, value : Strings]) /\ Len(d) = n
      <3> DEFINE T == [label : Strings, value : Strings]
      <3>1. d \in [1..n -> T]
        BY <2>1
      <3> HIDE DEF T
      <3>2. d \in Seq(T) /\ Len(d) = n
        BY <2>2, <3>1
      <3>3. QED
        BY <3>2 DEF T
    <2>4. QED
      BY <2>3 DEF Components
  <1> HIDE DEF d
  <1>5. Identity(d) = Identity(c)
    BY <1>3, <1>4 DEF Identity
  <1>6. Accepted(d) <=> Accepted(c)
    <2>1. /\ Accepted(d) <=>
               /\ n # 0
               /\ \A i \in 1..n : /\ validateFingerprintLabel(d[i].label)
                                 /\ validateFingerprintValue(Trim(d[i].value))
               /\ \A i, j \in 1..n : i # j => d[i].label # d[j].label
      BY <1>4, AcceptedMeans
    <2>2. /\ Accepted(c) <=>
               /\ n # 0
               /\ \A i \in 1..n : /\ validateFingerprintLabel(c[i].label)
                                 /\ validateFingerprintValue(Trim(c[i].value))
               /\ \A i, j \in 1..n : i # j => c[i].label # c[j].label
      BY AcceptedMeans
    <2> HIDE DEF n
    <2>3. \A i, j \in 1..n : d[i].label # d[j].label <=> c[i].label # c[j].label
      BY <1>3
    <2>4. QED
      BY <1>3, <2>1, <2>2, <2>3
  <1>7. QED
    BY <1>4, <1>5, <1>6, SameIdentity DEF d

\* The components the instance is about.
ComponentsInv == components \in Components

LEMMA ComponentsStay == Spec => []ComponentsInv
  <1>1. Labels \subseteq Strings
    BY DEF Labels, Strings
  <1>2. Values \subseteq Strings
    <2>1. ASSUME NEW n \in 0..MaxValue, NEW value \in [1..n -> {32, 31, 61, 65, 195}]
          PROVE  value \in Strings
      <3>1. n \in Nat /\ value \in [1..n -> Nat]
        OBVIOUS
      <3>2. QED
        BY <3>1 DEF Strings
    <2>2. QED
      BY <2>1 DEF Values
  <1>3. Init => ComponentsInv
    BY DEF Init, ComponentsInv, Components
  <1>4. ComponentsInv /\ [Next]_<<pieces, components>> => ComponentsInv'
    <2>1. SUFFICES ASSUME ComponentsInv, [Next]_<<pieces, components>>
                   PROVE  ComponentsInv'
      OBVIOUS
    <2>2. CASE AppendPiece
      BY <2>1, <2>2 DEF AppendPiece, ComponentsInv
    <2>3. CASE AppendComponent
      BY <1>1, <1>2, <2>1, <2>3 DEF AppendComponent, ComponentsInv, Components
    <2>4. CASE UNCHANGED <<pieces, components>>
      BY <2>1, <2>4 DEF ComponentsInv
    <2>5. QED
      BY <2>1, <2>2, <2>3, <2>4 DEF Next
  <1>5. QED
    BY <1>3, <1>4, PTL DEF Spec

\* Two lists of components get one fingerprint exactly when they mean the same, for
\* any number of components and any length of their values (CanonicalFingerprint).
THEOREM FingerprintsIdentify == Spec => []FingerprintIsIdentity
  <1>1. ComponentsInv => FingerprintIsIdentity
    <2>1. SUFFICES ASSUME ComponentsInv  PROVE FingerprintIsIdentity
      OBVIOUS
    <2>2. components \in Components
      BY <2>1 DEF ComponentsInv
    <2>3. fingerprintCanonicalForm(components) # Refused
            => ReadBack(fingerprintCanonicalForm(components)) = Identity(components)
      BY <2>2, FingerprintReadsBack DEF fingerprintCanonicalForm
    <2>4. \A p \in Bijection(DOMAIN components, DOMAIN components) :
            fingerprintCanonicalForm([i \in DOMAIN components |-> components[p[i]]])
              = fingerprintCanonicalForm(components)
      BY <2>2, FingerprintIgnoresOrder
    <2>5. fingerprintCanonicalForm(Padded(components)) = fingerprintCanonicalForm(components)
      BY <2>2, FingerprintIgnoresPadding
    <2>6. QED
      BY <2>3, <2>4, <2>5 DEF FingerprintIsIdentity
  <1>2. QED
    BY <1>1, ComponentsStay, PTL
=============================================================================
