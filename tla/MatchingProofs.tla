-------------------------- MODULE MatchingProofs --------------------------
(***************************************************************************)
(* Proofs about Matching, for any letters, templates, keys and values: a   *)
(* rule is used for the events of its pattern, and what Render replaces    *)
(* one after the other is replaced at once.                                *)
(***************************************************************************)
EXTENDS Matching, SequenceTheorems, WellFoundedInduction, TLAPS

\* The rule and the event of a run.
Inputs ==
    /\ pattern \in Names
    /\ event \in Names /\ Star \notin Range(event)
    /\ template \in Templates
    /\ payload \in Payloads

\* What has been decided is what Match says.
Decided ==
    /\ pc \in {"match", "render", "loop", "done", "skipped"}
    /\ pc = "skipped" => ~Match(pattern, event)
    /\ pc \in {"render", "loop", "done"} => Match(pattern, event)

MatchInv == Inputs /\ Decided

LEMMA MatchInvariant == Spec => []MatchInv
  <1>1. Init => MatchInv
    BY DEF Init, MatchInv, Inputs, Decided
  <1>2. MatchInv /\ [Next]_vars => MatchInv'
    <2> SUFFICES ASSUME MatchInv, [Next]_vars PROVE MatchInv'
      OBVIOUS
    <2>1. UNCHANGED input
      BY DEF Next, MatchRule, RenderEmpty, Render, ReplaceKey, Done, vars
    <2>2. Inputs'
      BY <2>1 DEF MatchInv, Inputs, input
    <2>3. Decided'
      BY <2>1 DEF MatchInv, Decided, input, Next, MatchRule, RenderEmpty, Render,
                  ReplaceKey, Done, vars
    <2> QED
      BY <2>2, <2>3 DEF MatchInv
  <1> QED
    BY <1>1, <1>2, PTL DEF Spec

\* A name is a sequence of letters that has a last one.
LEMMA NameIsSequence ==
    ASSUME NEW name \in Names
    PROVE  name \in Seq(Letters) /\ Len(name) \in Nat \ {0}
  <1>1. PICK n \in 1 .. MaxLength : name \in [1 .. n -> Letters]
    BY DEF Names
  <1>2. n \in Nat \ {0} /\ \A i \in 1 .. n : name[i] \in Letters
    BY <1>1, LengthAssumption
  <1>3. name = [i \in 1 .. n |-> name[i]]
    BY <1>1
  <1>4. name \in Seq(Letters)
    BY <1>1, <1>2, SeqDef
  <1>5. DOMAIN name = 1 .. n /\ DOMAIN name = 1 .. Len(name) /\ Len(name) \in Nat
    BY <1>1, <1>4, LenProperties
  <1> QED
    BY <1>2, <1>4, <1>5

\* What the star at the end of a pattern stands for.
Described(p, e) ==
    IF p[Len(p)] # Star THEN e = p
    ELSE \E n \in 0 .. Len(e) : SubSeq(e, 1, n) = SubSeq(p, 1, Len(p) - 1)

LEMMA MatchIsDescribed ==
    ASSUME NEW p \in Names, NEW e \in Names, Star \notin Range(e)
    PROVE  Match(p, e) <=> Described(p, e)
  <1>1. /\ p \in Seq(Letters) /\ Len(p) \in Nat \ {0}
        /\ e \in Seq(Letters) /\ Len(e) \in Nat \ {0}
    BY NameIsSequence
  <1>2. p = e => p[Len(p)] # Star
    <2>1. e[Len(e)] \in Range(e)
      BY <1>1, LenProperties DEF Range
    <2> QED
      BY <2>1
  <1> DEFINE front == SubSeq(p, 1, Len(p) - 1)
  <1>3. front \in Seq(Letters) /\ Len(front) = Len(p) - 1
    <2>1. \A i \in 1 .. Len(p) - 1 : p[i] \in Letters
      BY <1>1, ElementOfSeq
    <2>2. /\ front \in Seq(Letters)
          /\ Len(front) = IF 1 <= Len(p) - 1 THEN Len(p) - 1 - 1 + 1 ELSE 0
      BY <1>1, <2>1, SubSeqProperties
    <2> HIDE DEF front
    <2> DEFINE n == Len(p)
    <2>3. n \in Nat \ {0} /\ Len(front) = IF 1 <= n - 1 THEN n - 1 - 1 + 1 ELSE 0
      BY <1>1, <2>2
    <2> HIDE DEF n
    <2>4. Len(front) = n - 1
      BY <2>3
    <2> QED
      BY <2>2, <2>4 DEF n
  <1>4. Front(p) = front
    BY DEF Front
  <1>5. SubSeq(front, 1, Len(front)) = front
    BY <1>3, SubSeqFull
  <1>6. ASSUME NEW n \in 0 .. Len(e) PROVE Len(SubSeq(e, 1, n)) = n
    <2>1. \A i \in 1 .. n : e[i] \in Letters
      BY <1>1, ElementOfSeq
    <2>2. Len(SubSeq(e, 1, n)) = IF 1 <= n THEN n - 1 + 1 ELSE 0
      BY <2>1, SubSeqProperties
    <2> QED
      BY <2>2
  <1> HIDE DEF front
  <1>7. IsPrefix(front, e) <=> \E n \in 0 .. Len(e) : SubSeq(e, 1, n) = front
    <2>1. ASSUME IsPrefix(front, e)
          PROVE  \E n \in 0 .. Len(e) : SubSeq(e, 1, n) = front
      <3>1. Len(front) \in 0 .. Len(e) /\ SubSeq(e, 1, Len(front)) = front
        BY <1>1, <1>3, <1>5, <2>1 DEF IsPrefix
      <3> QED
        BY <3>1
    <2>2. ASSUME NEW n \in 0 .. Len(e), SubSeq(e, 1, n) = front
          PROVE  IsPrefix(front, e)
      <3>1. n = Len(front)
        BY <1>6, <2>2
      <3> QED
        BY <1>1, <1>5, <2>2, <3>1 DEF IsPrefix
    <2> QED
      BY <2>1, <2>2
  <1>8. p = <<Star>> => p[Len(p)] = Star /\ IsPrefix(front, e)
    <2> SUFFICES ASSUME p = <<Star>> PROVE p[Len(p)] = Star /\ IsPrefix(front, e)
      OBVIOUS
    <2>1. Len(p) = 1 /\ p[1] = Star
      OBVIOUS
    <2>2. front = <<>> /\ Len(front) = 0
      BY <1>3, <2>1, EmptySeq
    <2>3. SubSeq(e, 1, 0) = <<>>
      BY SubSeqEmpty
    <2>4. 0 \in 0 .. Len(e)
      BY <1>1
    <2> QED
      BY <1>7, <2>1, <2>2, <2>3, <2>4
  <1>9. Last(p) = p[Len(p)]
    BY DEF Last
  <1>10. Described(p, e)
           <=> IF p[Len(p)] # Star THEN e = p
               ELSE \E n \in 0 .. Len(e) : SubSeq(e, 1, n) = front
    BY DEF Described, front
  <1> QED
    BY <1>2, <1>4, <1>7, <1>8, <1>9, <1>10 DEF Match

\* A rule is used exactly for the events its pattern describes, whatever the
\* letters and however long the names (template.go:31-38).
THEOREM RulesAreUsedByPattern == Spec => []MatchIsByPrefix
  <1>1. MatchInv => MatchIsByPrefix
    BY MatchIsDescribed DEF MatchInv, Inputs, Decided, MatchIsByPrefix, Described
  <1> QED
    BY <1>1, MatchInvariant, PTL

-----------------------------------------------------------------------------
(* FlattenSeq is a recursive function of the length.  What is shown of it  *)
(* and of the replacements it is used for is shown for the least length    *)
(* for which it would not be so.                                           *)

LEMMA LeastLength ==
    ASSUME NEW S \in SUBSET Nat, NEW x \in S
    PROVE  \E n \in S : \A k \in S : n <= k
  <1>1. PICK n \in S : \A k \in S : ~(<<k, n>> \in OpToRel(<, Nat))
    BY WFMin, NatLessThanWellFounded
  <1>2. \A k \in S : ~(k < n)
    BY <1>1 DEF OpToRel
  <1> QED
    BY <1>2

\* The pieces up to the m-th are put together in f.
Joins(seqs, f, m) ==
    f = [i \in 1 .. m |-> IF i = 1 THEN seqs[i] ELSE f[i - 1] \o seqs[i]]

LEMMA JoinsAt ==
    ASSUME NEW seqs, NEW f, NEW m, Joins(seqs, f, m), NEW i \in 1 .. m
    PROVE  f[i] = IF i = 1 THEN seqs[i] ELSE f[i - 1] \o seqs[i]
  BY DEF Joins

\* Two ways to put the same pieces together come to the same.
LEMMA JoinsAgree ==
    ASSUME NEW s, NEW t, NEW f, NEW g, NEW a \in Nat, NEW b \in Nat,
           Joins(s, f, a), Joins(t, g, b),
           NEW m \in Nat, 0 < m, m <= a, m <= b, \A i \in 1 .. m : s[i] = t[i]
    PROVE  f[m] = g[m]
  <1> DEFINE Differ == {i \in Nat : 0 < i /\ i <= m /\ f[i] # g[i]}
  <1> SUFFICES ASSUME m \in Differ PROVE FALSE
    OBVIOUS
  <1>1. PICK i \in Differ : \A k \in Differ : i <= k
    BY LeastLength
  <1>2. i \in 1 .. a /\ i \in 1 .. b /\ i \in 1 .. m
    BY <1>1
  <1>3. /\ f[i] = IF i = 1 THEN s[i] ELSE f[i - 1] \o s[i]
        /\ g[i] = IF i = 1 THEN t[i] ELSE g[i - 1] \o t[i]
    BY <1>2, JoinsAt
  <1>4. i # 1 => f[i - 1] = g[i - 1]
    BY <1>1, <1>2
  <1>5. f[i] = g[i]
    BY <1>2, <1>3, <1>4
  <1> QED
    BY <1>1, <1>5

LEMMA JoinsExists ==
    ASSUME NEW seqs, NEW n \in Nat
    PROVE  \E f : Joins(seqs, f, n)
  <1> DEFINE Without == {m \in Nat : ~ \E f : Joins(seqs, f, m)}
  <1> SUFFICES ASSUME n \in Without PROVE FALSE
    OBVIOUS
  <1>1. PICK m \in Without : \A k \in Without : m <= k
    BY LeastLength
  <1>2. \E g : m # 0 => Joins(seqs, g, m - 1)
    BY <1>1
  <1>3. PICK g : m # 0 => Joins(seqs, g, m - 1)
    BY <1>2
  <1> DEFINE f == [i \in 1 .. m |-> IF i = 1 THEN seqs[i] ELSE g[i - 1] \o seqs[i]]
  <1>4. m \in Nat
    BY <1>1
  <1>5. \A i \in 1 .. m : i # m =>
          g[i] = IF i = 1 THEN seqs[i] ELSE g[i - 1] \o seqs[i]
    <2> SUFFICES ASSUME NEW i \in 1 .. m, i # m
                 PROVE  g[i] = IF i = 1 THEN seqs[i] ELSE g[i - 1] \o seqs[i]
      OBVIOUS
    <2>1. m # 0 /\ i \in 1 .. m - 1
      BY <1>4
    <2> QED
      BY <1>3, <2>1, JoinsAt
  <1>6. \A i \in 1 .. m : i # m => f[i] = g[i]
    BY <1>5
  <1>7. \A i \in 1 .. m : i # 1 => f[i - 1] = g[i - 1]
    BY <1>4, <1>6
  <1>8. f = [i \in 1 .. m |-> IF i = 1 THEN seqs[i] ELSE f[i - 1] \o seqs[i]]
    <2> DEFINE h == [i \in 1 .. m |-> IF i = 1 THEN seqs[i] ELSE f[i - 1] \o seqs[i]]
    <2>1. \A i \in 1 .. m : f[i] = IF i = 1 THEN seqs[i] ELSE g[i - 1] \o seqs[i]
      OBVIOUS
    <2>2. DOMAIN f = 1 .. m
      OBVIOUS
    <2>3. f = [i \in DOMAIN f |-> f[i]]
      OBVIOUS
    <2> HIDE DEF f
    <2>4. \A i \in 1 .. m : f[i] = h[i]
      BY <1>7, <2>1
    <2> QED
      BY <2>2, <2>3, <2>4
  <1> HIDE DEF f
  <1>9. Joins(seqs, f, m)
    BY <1>8 DEF Joins
  <1> QED
    BY <1>1, <1>9

LEMMA FlattenSeqJoins ==
    ASSUME NEW S, NEW seqs \in Seq(S), Len(seqs) # 0,
           NEW f, Joins(seqs, f, Len(seqs))
    PROVE  FlattenSeq(seqs) = f[Len(seqs)]
  <1>1. \E g : Joins(seqs, g, Len(seqs)) /\ FlattenSeq(seqs) = g[Len(seqs)]
    BY Zenon DEF FlattenSeq, Joins
  <1>2. PICK g : Joins(seqs, g, Len(seqs)) /\ FlattenSeq(seqs) = g[Len(seqs)]
    BY <1>1
  <1>3. Len(seqs) \in Nat /\ 0 < Len(seqs)
    BY LenProperties
  <1> QED
    BY <1>2, <1>3, JoinsAgree

\* A text of letters that is put together, but for its last piece.
LEMMA FlattenSeqOfLast ==
    ASSUME NEW S, NEW seqs \in Seq(S), NEW last \in S
    PROVE  FlattenSeq(Append(seqs, last))
             = IF seqs = <<>> THEN last ELSE FlattenSeq(seqs) \o last
  <1> DEFINE more == Append(seqs, last)
             n == Len(seqs)
  <1>1. /\ more \in Seq(S) /\ Len(more) = n + 1 /\ n \in Nat
        /\ \A i \in 1 .. n : more[i] = seqs[i]
        /\ more[n + 1] = last
    BY AppendProperties, LenProperties
  <1>2. n = 0 <=> seqs = <<>>
    BY EmptySeq
  <1> HIDE DEF more, n
  <1>3. PICK f : Joins(more, f, n + 1)
    <2>1. n + 1 \in Nat
      BY <1>1
    <2> QED
      BY <2>1, JoinsExists
  <1>4. FlattenSeq(more) = f[n + 1]
    <2>1. Joins(more, f, Len(more)) /\ Len(more) # 0
      BY <1>1, <1>3
    <2>2. FlattenSeq(more) = f[Len(more)]
      BY <1>1, <2>1, FlattenSeqJoins, Zenon
    <2> QED
      BY <1>1, <2>2
  <1>5. f[n + 1] = IF n = 0 THEN last ELSE f[n] \o last
    <2>1. n + 1 \in 1 .. n + 1 /\ n + 1 - 1 = n /\ (n + 1 = 1 <=> n = 0)
      BY <1>1
    <2>2. \A i \in 1 .. n + 1 :
            f[i] = IF i = 1 THEN more[i] ELSE f[i - 1] \o more[i]
      BY <1>3, JoinsAt
    <2> QED
      BY <1>1, <2>1, <2>2
  <1>6. n # 0 => FlattenSeq(seqs) = f[n]
    <2> SUFFICES ASSUME n # 0 PROVE FlattenSeq(seqs) = f[n]
      OBVIOUS
    <2>1. PICK g : Joins(seqs, g, n)
      BY <1>1, JoinsExists
    <2>2. FlattenSeq(seqs) = g[n]
      BY <2>1, FlattenSeqJoins DEF n
    <2>3. f[n] = g[n]
      BY <1>1, <1>3, <2>1, JoinsAgree
    <2> QED
      BY <2>2, <2>3
  <1> QED
    BY <1>1, <1>2, <1>4, <1>5, <1>6 DEF more

LEMMA FlattenSeqOfNone == FlattenSeq(<<>>) = <<>>
  BY EmptySeq DEF FlattenSeq

\* The same, where the empty text is that of no pieces.
LEMMA FlattenSeqOfAppend ==
    ASSUME NEW S, NEW seqs \in Seq(Seq(S)), NEW last \in Seq(S),
           FlattenSeq(seqs) \in Seq(S)
    PROVE  FlattenSeq(Append(seqs, last)) = FlattenSeq(seqs) \o last
  <1>1. seqs = <<>> => FlattenSeq(seqs) \o last = last
    BY FlattenSeqOfNone, ConcatEmptySeq
  <1> QED
    BY <1>1, FlattenSeqOfLast

\* Texts of texts are texts.
LEMMA FlattenSeqIsText ==
    ASSUME NEW S, NEW seqs \in Seq(Seq(S))
    PROVE  FlattenSeq(seqs) \in Seq(S)
  <1> DEFINE Wrong == {n \in Nat : \E s \in Seq(Seq(S)) :
                                      Len(s) = n /\ FlattenSeq(s) \notin Seq(S)}
  <1> SUFFICES ASSUME FlattenSeq(seqs) \notin Seq(S) PROVE FALSE
    OBVIOUS
  <1>1. Len(seqs) \in Wrong
    BY LenProperties
  <1>2. PICK n \in Wrong : \A k \in Wrong : n <= k
    BY <1>1, LeastLength
  <1>3. PICK s \in Seq(Seq(S)) : Len(s) = n /\ FlattenSeq(s) \notin Seq(S)
    BY <1>2
  <1>4. s # <<>>
    BY <1>3, FlattenSeqOfNone, EmptySeq
  <1>5. PICK front \in Seq(Seq(S)), last \in Seq(S) : s = Append(front, last)
    BY <1>4, SequenceEmptyOrAppend
  <1>6. Len(front) \in Nat /\ n = Len(front) + 1
    BY <1>3, <1>5, AppendProperties, LenProperties
  <1>7. Len(front) \notin Wrong
    <2> HIDE DEF Wrong
    <2>1. ~(n <= Len(front))
      BY <1>6
    <2> QED
      BY <1>2, <2>1
  <1>8. FlattenSeq(front) \in Seq(S)
    BY <1>6, <1>7
  <1>9. FlattenSeq(s) \in Seq(S)
    BY <1>5, <1>8, FlattenSeqOfAppend, ConcatProperties
  <1> QED
    BY <1>3, <1>9

LEMMA AppendOfConcat ==
    ASSUME NEW S, NEW s \in Seq(S), NEW t \in Seq(S), NEW last \in S
    PROVE  s \o Append(t, last) = Append(s \o t, last)
  <1>1. <<last>> \in Seq(S) /\ s \o t \in Seq(S)
    BY ConcatProperties
  <1>2. /\ Append(t, last) = t \o <<last>>
        /\ Append(s \o t, last) = (s \o t) \o <<last>>
    BY <1>1, AppendIsConcat, Zenon
  <1>3. (s \o t) \o <<last>> = s \o (t \o <<last>>)
    BY <1>1, ConcatAssociative
  <1> QED
    BY <1>2, <1>3, Zenon

\* The pieces of two texts, one after the other.
LEMMA FlattenSeqOfConcat ==
    ASSUME NEW S, NEW a \in Seq(Seq(S)), NEW b \in Seq(Seq(S))
    PROVE  FlattenSeq(a \o b) = FlattenSeq(a) \o FlattenSeq(b)
  <1> DEFINE Law(c) == FlattenSeq(a \o c) = FlattenSeq(a) \o FlattenSeq(c)
             Wrong == {n \in Nat : \E c \in Seq(Seq(S)) : Len(c) = n /\ ~Law(c)}
  <1> SUFFICES ASSUME ~Law(b) PROVE FALSE
    OBVIOUS
  <1>1. Len(b) \in Wrong
    BY LenProperties
  <1>2. PICK n \in Wrong : \A k \in Wrong : n <= k
    BY <1>1, LeastLength
  <1>3. PICK c \in Seq(Seq(S)) : Len(c) = n /\ ~Law(c)
    BY <1>2
  <1>4. FlattenSeq(a) \in Seq(S)
    BY FlattenSeqIsText
  <1>5. c # <<>>
    <2>1. Law(<<>>)
      BY <1>4, FlattenSeqOfNone, ConcatEmptySeq
    <2> QED
      BY <1>3, <2>1
  <1>6. PICK front \in Seq(Seq(S)), last \in Seq(S) : c = Append(front, last)
    BY <1>5, SequenceEmptyOrAppend
  <1>7. Len(front) \in Nat /\ n = Len(front) + 1
    BY <1>3, <1>6, AppendProperties, LenProperties
  <1>8. Law(front)
    <2>1. Len(front) \notin Wrong
      <3> HIDE DEF Wrong
      <3>1. ~(n <= Len(front))
        BY <1>7
      <3> QED
        BY <1>2, <3>1
    <2> QED
      BY <1>7, <2>1, Zenon
  <1> HIDE DEF Law, Wrong
  <1>9. a \o c = Append(a \o front, last)
    BY <1>6, AppendOfConcat
  <1>10. /\ a \o front \in Seq(Seq(S)) /\ FlattenSeq(a \o front) \in Seq(S)
         /\ FlattenSeq(front) \in Seq(S)
    BY ConcatProperties, FlattenSeqIsText
  <1>11. FlattenSeq(a \o c) = (FlattenSeq(a) \o FlattenSeq(front)) \o last
    <2>1. FlattenSeq(Append(a \o front, last)) = FlattenSeq(a \o front) \o last
      BY <1>10, FlattenSeqOfAppend, Zenon
    <2>2. FlattenSeq(a \o front) = FlattenSeq(a) \o FlattenSeq(front)
      BY <1>8 DEF Law
    <2> QED
      BY <1>9, <2>1, <2>2, Zenon
  <1>12. FlattenSeq(c) = FlattenSeq(front) \o last
    BY <1>6, <1>10, FlattenSeqOfAppend, Zenon
  <1>13. Law(c)
    <2>1. PICK x \in Seq(S), y \in Seq(S) : x = FlattenSeq(a) /\ y = FlattenSeq(front)
      BY <1>4, <1>10
    <2>2. (x \o y) \o last = x \o (y \o last)
      BY ConcatAssociative
    <2> QED
      BY <1>11, <1>12, <2>1, <2>2, Zenon DEF Law
  <1> QED
    BY <1>3, <1>13

-----------------------------------------------------------------------------
(* What a replacement makes of a text.                                     *)

Pieces(text, hole, value) ==
    [i \in DOMAIN text |-> IF text[i] = hole THEN value ELSE <<text[i]>>]

LEMMA PiecesAreTexts ==
    ASSUME NEW S, NEW text \in Seq(S), NEW hole, NEW value \in Seq(S)
    PROVE  /\ Pieces(text, hole, value) \in Seq(Seq(S))
           /\ Len(Pieces(text, hole, value)) = Len(text)
           /\ \A i \in 1 .. Len(text) :
                 Pieces(text, hole, value)[i]
                   = IF text[i] = hole THEN value ELSE <<text[i]>>
  <1> DEFINE pieces == Pieces(text, hole, value)
             n == Len(text)
  <1>1. /\ n \in Nat /\ DOMAIN text = 1 .. n
        /\ \A i \in 1 .. n : text[i] \in S
    BY LenProperties, ElementOfSeq
  <1>2. \A i \in 1 .. n : <<text[i]>> \in Seq(S)
    BY <1>1
  <1> HIDE DEF n
  <1>3. pieces \in [1 .. n -> Seq(S)]
    BY <1>1, <1>2 DEF Pieces
  <1>4. \A i \in 1 .. n : pieces[i] = IF text[i] = hole THEN value ELSE <<text[i]>>
    BY <1>1 DEF Pieces
  <1>5. DOMAIN pieces = 1 .. n
    BY <1>3
  <1> HIDE DEF pieces
  <1>6. pieces \in Seq(Seq(S))
    BY <1>1, <1>3, SeqDef
  <1>7. Len(pieces) \in Nat /\ DOMAIN pieces = 1 .. Len(pieces)
    BY <1>6, LenProperties
  <1>8. Len(pieces) = n
    BY <1>1, <1>5, <1>7
  <1> QED
    BY <1>4, <1>6, <1>8 DEF pieces, n

LEMMA ReplacedIsFlat ==
    ASSUME NEW text, NEW hole, NEW value
    PROVE  Replaced(text, hole, value) = FlattenSeq(Pieces(text, hole, value))
  BY DEF Replaced, Pieces

LEMMA ReplacedIsText ==
    ASSUME NEW S, NEW text \in Seq(S), NEW hole, NEW value \in Seq(S)
    PROVE  Replaced(text, hole, value) \in Seq(S)
  <1>1. Pieces(text, hole, value) \in Seq(Seq(S))
    BY PiecesAreTexts
  <1>2. FlattenSeq(Pieces(text, hole, value)) \in Seq(S)
    BY <1>1, FlattenSeqIsText
  <1> QED
    BY <1>2, ReplacedIsFlat

\* One text after the other is replaced one after the other.
LEMMA ReplacedOfConcat ==
    ASSUME NEW S, NEW s \in Seq(S), NEW t \in Seq(S), NEW hole, NEW value \in Seq(S)
    PROVE  Replaced(s \o t, hole, value)
             = Replaced(s, hole, value) \o Replaced(t, hole, value)
  <1> DEFINE P(text) == Pieces(text, hole, value)
             T == Seq(S)
  <1>1. /\ s \o t \in Seq(S) /\ Len(s \o t) = Len(s) + Len(t)
        /\ \A i \in 1 .. Len(s) + Len(t) :
              (s \o t)[i] = IF i <= Len(s) THEN s[i] ELSE t[i - Len(s)]
    BY ConcatProperties
  <1>2. \A text \in Seq(S) :
          /\ P(text) \in Seq(T) /\ Len(P(text)) = Len(text)
          /\ \A i \in 1 .. Len(text) :
                P(text)[i] = IF text[i] = hole THEN value ELSE <<text[i]>>
    BY PiecesAreTexts
  <1>3. Len(s) \in Nat /\ Len(t) \in Nat
    BY LenProperties
  <1> HIDE DEF P, T
  <1>4. /\ P(s) \o P(t) \in Seq(T) /\ Len(P(s) \o P(t)) = Len(s) + Len(t)
        /\ \A i \in 1 .. Len(s) + Len(t) :
              (P(s) \o P(t))[i] = IF i <= Len(s) THEN P(s)[i] ELSE P(t)[i - Len(s)]
    <2>1. PICK a \in Seq(T), b \in Seq(T) :
            a = P(s) /\ b = P(t) /\ Len(a) = Len(s) /\ Len(b) = Len(t)
      BY <1>2
    <2>2. /\ a \o b \in Seq(T) /\ Len(a \o b) = Len(a) + Len(b)
          /\ \A i \in 1 .. Len(a) + Len(b) :
                (a \o b)[i] = IF i <= Len(a) THEN a[i] ELSE b[i - Len(a)]
      BY ConcatProperties
    <2> QED
      BY <2>1, <2>2
  <1>5. ASSUME NEW i \in 1 .. Len(s) + Len(t)
        PROVE  P(s \o t)[i] = (P(s) \o P(t))[i]
    <2>1. P(s \o t)[i] = IF (s \o t)[i] = hole THEN value ELSE <<(s \o t)[i]>>
      BY <1>1, <1>2
    <2>2. CASE i <= Len(s)
      <3>1. i \in 1 .. Len(s) /\ (s \o t)[i] = s[i] /\ (P(s) \o P(t))[i] = P(s)[i]
        BY <1>1, <1>3, <1>4, <2>2
      <3> QED
        BY <1>2, <2>1, <3>1
    <2>3. CASE ~(i <= Len(s))
      <3>1. /\ i - Len(s) \in 1 .. Len(t)
            /\ (s \o t)[i] = t[i - Len(s)]
            /\ (P(s) \o P(t))[i] = P(t)[i - Len(s)]
        BY <1>1, <1>3, <1>4, <2>3
      <3> QED
        BY <1>2, <2>1, <3>1
    <2> QED
      BY <2>2, <2>3
  <1>6. P(s \o t) \in Seq(T) /\ Len(P(s \o t)) = Len(s) + Len(t)
    BY <1>1, <1>2
  <1>7. P(s \o t) = P(s) \o P(t)
    BY <1>4, <1>5, <1>6, SeqEqual
  <1>8. FlattenSeq(P(s) \o P(t)) = FlattenSeq(P(s)) \o FlattenSeq(P(t))
    BY <1>2, FlattenSeqOfConcat DEF T
  <1> QED
    BY <1>7, <1>8, ReplacedIsFlat DEF P

\* A letter is replaced if it is the one to replace.
LEMMA ReplacedOfLetter ==
    ASSUME NEW S, NEW letter \in S, NEW hole, NEW value \in Seq(S)
    PROVE  Replaced(<<letter>>, hole, value)
             = IF letter = hole THEN value ELSE <<letter>>
  <1> DEFINE piece == IF letter = hole THEN value ELSE <<letter>>
             T == Seq(S)
  <1>1. piece \in T /\ <<>> \in Seq(T)
    BY EmptySeq
  <1>2. Pieces(<<letter>>, hole, value) = <<piece>>
    BY DEF Pieces
  <1> HIDE DEF piece, T
  <1>3. Append(<<>>, piece) = <<piece>>
    BY <1>1
  <1>4. FlattenSeq(Append(<<>>, piece)) = piece
    BY <1>1, FlattenSeqOfLast
  <1> QED
    BY <1>2, <1>3, <1>4, ReplacedIsFlat DEF piece

\* A text without the letter stays what it is.
LEMMA ReplacedElsewhere ==
    ASSUME NEW S, NEW text \in Seq(S), NEW hole, NEW value \in Seq(S),
           hole \notin Range(text)
    PROVE  Replaced(text, hole, value) = text
  <1> DEFINE Same(t) == Replaced(t, hole, value) = t
             Wrong == {n \in Nat : \E t \in Seq(S) :
                         Len(t) = n /\ hole \notin Range(t) /\ ~Same(t)}
  <1> SUFFICES ASSUME ~Same(text) PROVE FALSE
    OBVIOUS
  <1>1. Len(text) \in Wrong
    BY LenProperties
  <1>2. PICK n \in Wrong : \A k \in Wrong : n <= k
    BY <1>1, LeastLength
  <1>3. PICK t \in Seq(S) : Len(t) = n /\ hole \notin Range(t) /\ ~Same(t)
    BY <1>2
  <1>4. t # <<>>
    <2>1. Pieces(<<>>, hole, value) = <<>>
      BY DEF Pieces
    <2>2. Same(<<>>)
      BY <2>1, FlattenSeqOfNone, ReplacedIsFlat
    <2> QED
      BY <1>3, <2>2
  <1>5. PICK front \in Seq(S), last \in S : t = Append(front, last)
    BY <1>4, SequenceEmptyOrAppend
  <1>6. /\ Len(front) \in Nat /\ n = Len(front) + 1
        /\ \A i \in 1 .. Len(front) : t[i] = front[i]
        /\ t[n] = last
    BY <1>3, <1>5, AppendProperties, LenProperties
  <1>7. hole \notin Range(front) /\ hole # last
    <2>1. DOMAIN t = 1 .. n /\ DOMAIN front = 1 .. Len(front)
      BY <1>3, LenProperties
    <2> QED
      BY <1>3, <1>6, <2>1 DEF Range
  <1>8. Same(front)
    <2>1. Len(front) \notin Wrong
      <3> HIDE DEF Wrong
      <3>1. ~(n <= Len(front))
        BY <1>6
      <3> QED
        BY <1>2, <3>1
    <2> QED
      BY <1>6, <1>7, <2>1, Zenon
  <1> HIDE DEF Wrong
  <1>9. t = front \o <<last>> /\ <<last>> \in Seq(S)
    BY <1>5, AppendIsConcat
  <1>10. Replaced(<<last>>, hole, value) = <<last>>
    BY <1>7, ReplacedOfLetter
  <1>11. Replaced(front \o <<last>>, hole, value)
           = Replaced(front, hole, value) \o Replaced(<<last>>, hole, value)
    <2>1. PICK u \in Seq(S) : u = <<last>>
      BY <1>9
    <2>2. Replaced(front \o u, hole, value)
            = Replaced(front, hole, value) \o Replaced(u, hole, value)
      BY ReplacedOfConcat, SMTT(30)
    <2> QED
      BY <2>1, <2>2
  <1>12. Same(t)
    BY <1>8, <1>9, <1>10, <1>11, Zenon
  <1> QED
    BY <1>3, <1>12

\* What is put together of pieces is replaced piece by piece.
LEMMA ReplacedOfFlat ==
    ASSUME NEW S, NEW seqs \in Seq(Seq(S)), NEW hole, NEW value \in Seq(S)
    PROVE  Replaced(FlattenSeq(seqs), hole, value)
             = FlattenSeq([i \in DOMAIN seqs |-> Replaced(seqs[i], hole, value)])
  <1> DEFINE R(text) == Replaced(text, hole, value)
             T == Seq(S)
             Each(s) == [i \in DOMAIN s |-> R(s[i])]
             Law(s) == R(FlattenSeq(s)) = FlattenSeq(Each(s))
             Wrong == {n \in Nat : \E s \in Seq(T) : Len(s) = n /\ ~Law(s)}
  <1> SUFFICES ASSUME ~Law(seqs) PROVE FALSE
    OBVIOUS
  <1>1. Len(seqs) \in Wrong
    BY LenProperties
  <1>2. PICK n \in Wrong : \A k \in Wrong : n <= k
    BY <1>1, LeastLength
  <1>3. PICK s \in Seq(T) : Len(s) = n /\ ~Law(s)
    BY <1>2
  <1>4. s # <<>>
    <2>1. Each(<<>>) = <<>> /\ Pieces(<<>>, hole, value) = <<>>
      BY DEF Pieces
    <2>2. R(<<>>) = <<>>
      BY <2>1, FlattenSeqOfNone, ReplacedIsFlat
    <2>3. Law(<<>>)
      BY <2>1, <2>2, FlattenSeqOfNone
    <2> QED
      BY <1>3, <2>3
  <1>5. PICK front \in Seq(T), last \in T : s = Append(front, last)
    BY <1>4, SequenceEmptyOrAppend
  <1>6. /\ Len(front) \in Nat /\ n = Len(front) + 1
        /\ \A i \in 1 .. Len(front) : s[i] = front[i]
        /\ s[n] = last
    BY <1>3, <1>5, AppendProperties, LenProperties
  <1>7. Law(front)
    <2>1. Len(front) \notin Wrong
      <3> HIDE DEF Wrong
      <3>1. ~(n <= Len(front))
        BY <1>6
      <3> QED
        BY <1>2, <3>1
    <2> HIDE DEF Law
    <2> QED
      BY <1>6, <2>1, Zenon
  <1>8. \A text \in Seq(S) : R(text) \in Seq(S)
    BY ReplacedIsText
  <1> HIDE DEF R, Wrong
  <1>9. Each(front) \in Seq(T) /\ R(last) \in T /\ Each(s) = Append(Each(front), R(last))
    <2> DEFINE m == Len(front)
    <2>1. DOMAIN front = 1 .. m /\ DOMAIN s = 1 .. m + 1 /\ m \in Nat
      BY <1>3, <1>6, LenProperties
    <2>2. \A i \in 1 .. m : front[i] \in T
      BY ElementOfSeq
    <2> HIDE DEF m
    <2>3. Each(front) \in [1 .. m -> T] /\ \A i \in 1 .. m : Each(front)[i] = R(front[i])
      BY <1>8, <2>1, <2>2
    <2>4. /\ DOMAIN Each(s) = 1 .. m + 1
          /\ \A i \in 1 .. m + 1 : Each(s)[i] = R(s[i])
      BY <2>1
    <2>5. Each(s) \in [1 .. m + 1 -> T]
      <3>1. \A i \in 1 .. m + 1 : s[i] \in T
        BY <1>3, <2>1, <1>6, ElementOfSeq DEF m
      <3> QED
        BY <1>8, <2>1, <3>1
    <2> HIDE DEF Each, T
    <2>6. Each(front) \in Seq(T) /\ Each(s) \in Seq(T)
      BY <2>1, <2>3, <2>5, SeqDef
    <2>7. Len(Each(front)) = m /\ Len(Each(s)) = m + 1
      BY <2>1, <2>3, <2>4, <2>6, LenProperties
    <2>8. R(last) \in T
      BY <1>8 DEF T
    <2>9. PICK a \in Seq(T) : a = Each(front)
      BY <2>6
    <2>10. /\ Append(a, R(last)) \in Seq(T) /\ Len(Append(a, R(last))) = m + 1
           /\ \A i \in 1 .. m : Append(a, R(last))[i] = a[i]
           /\ Append(a, R(last))[m + 1] = R(last)
      BY <2>7, <2>8, <2>9, AppendProperties
    <2>11. ASSUME NEW i \in 1 .. m + 1
           PROVE  Each(s)[i] = Append(a, R(last))[i]
      <3>1. CASE i \in 1 .. m
        BY <1>6, <2>3, <2>4, <2>9, <2>10, <3>1 DEF m
      <3>2. CASE i = m + 1
        BY <1>6, <2>4, <2>10, <3>2 DEF m
      <3>3. i \in 1 .. m \/ i = m + 1
        BY <2>1
      <3> QED
        BY <3>1, <3>2, <3>3, Zenon
    <2>12. Each(s) = Append(a, R(last))
      BY <2>6, <2>7, <2>10, <2>11, SeqEqual
    <2> QED
      BY <2>6, <2>8, <2>9, <2>12
  <1>10. FlattenSeq(Each(front)) \in Seq(S) /\ FlattenSeq(front) \in Seq(S)
    <2> HIDE DEF Each
    <2> QED
      BY <1>9, FlattenSeqIsText
  <1>11. FlattenSeq(Each(s)) = FlattenSeq(Each(front)) \o R(last)
    <2>1. PICK a \in Seq(T) : a = Each(front) /\ FlattenSeq(a) \in Seq(S)
      BY <1>9, <1>10
    <2>2. FlattenSeq(Append(a, R(last))) = FlattenSeq(a) \o R(last)
      BY <1>9, <2>1, FlattenSeqOfAppend
    <2> HIDE DEF Each
    <2> QED
      BY <1>9, <2>1, <2>2
  <1>12. R(FlattenSeq(s)) = R(FlattenSeq(front)) \o R(last)
    <2>1. FlattenSeq(s) = FlattenSeq(front) \o last
      BY <1>5, <1>10, FlattenSeqOfAppend
    <2>2. PICK a \in Seq(S) : a = FlattenSeq(front)
      BY <1>10
    <2>3. R(a \o last) = R(a) \o R(last)
      BY ReplacedOfConcat DEF R
    <2> QED
      BY <2>1, <2>2, <2>3
  <1> QED
    BY <1>3, <1>7, <1>11, <1>12

-----------------------------------------------------------------------------
(* The summary is the value of the first of its keys that says something.  *)

Says(p, i) == SummaryKeys[i] \in DOMAIN p /\ p[SummaryKeys[i]] # <<>>

\* The loop of Summary, from its last turn to its first.
Scans(p, f) ==
    f = [i \in 1 .. Len(SummaryKeys) + 1 |->
           IF i > Len(SummaryKeys) THEN JSON
           ELSE IF SummaryKeys[i] \in DOMAIN p /\ p[SummaryKeys[i]] # <<>>
           THEN p[SummaryKeys[i]]
           ELSE f[i + 1]]

LEMMA ScanExists ==
    ASSUME NEW p
    PROVE  \E f : Scans(p, f)
  <1>1. Len(SummaryKeys) = 6
    BY DEF SummaryKeys
  <1> DEFINE Turn(i, rest) == IF Says(p, i) THEN p[SummaryKeys[i]] ELSE rest
  <1>2. PICK a6 : a6 = Turn(6, JSON)
    OBVIOUS
  <1>3. PICK a5 : a5 = Turn(5, a6)
    OBVIOUS
  <1>4. PICK a4 : a4 = Turn(4, a5)
    OBVIOUS
  <1>5. PICK a3 : a3 = Turn(3, a4)
    OBVIOUS
  <1>6. PICK a2 : a2 = Turn(2, a3)
    OBVIOUS
  <1>7. PICK a1 : a1 = Turn(1, a2)
    OBVIOUS
  <1> DEFINE f == [i \in 1 .. 7 |->
                     CASE i = 1 -> a1 [] i = 2 -> a2 [] i = 3 -> a3
                       [] i = 4 -> a4 [] i = 5 -> a5 [] i = 6 -> a6
                       [] OTHER -> JSON]
  <1>8. /\ f[1] = a1 /\ f[2] = a2 /\ f[3] = a3 /\ f[4] = a4
        /\ f[5] = a5 /\ f[6] = a6 /\ f[7] = JSON
    OBVIOUS
  <1>9. f = [i \in 1 .. 7 |-> f[i]]
    OBVIOUS
  <1> HIDE DEF f
  <1>10. /\ f[6] = Turn(6, f[7]) /\ f[5] = Turn(5, f[6]) /\ f[4] = Turn(4, f[5])
         /\ f[3] = Turn(3, f[4]) /\ f[2] = Turn(2, f[3]) /\ f[1] = Turn(1, f[2])
    BY <1>2, <1>3, <1>4, <1>5, <1>6, <1>7, <1>8
  <1> HIDE DEF Turn
  <1>11. ASSUME NEW i \in 1 .. 7
         PROVE  f[i] = IF i > 6 THEN JSON ELSE Turn(i, f[i + 1])
    <2>1. i = 7 \/ i = 6 \/ i = 5 \/ i = 4 \/ i = 3 \/ i = 2 \/ i = 1
      OBVIOUS
    <2>2. CASE i = 7
      BY <1>8, <2>2
    <2>3. CASE i # 7
      <3>1. f[i] = Turn(i, f[i + 1])
        BY <1>10, <2>1, <2>3
      <3>2. ~(i > 6)
        BY <2>3
      <3> QED
        BY <3>1, <3>2
    <2> QED
      BY <2>2, <2>3
  <1>12. f = [i \in 1 .. 7 |-> IF i > 6 THEN JSON ELSE Turn(i, f[i + 1])]
    BY <1>9, <1>11
  <1>13. Scans(p, f)
    BY <1>1, <1>12 DEF Scans, Turn, Says
  <1> QED
    BY <1>13

LEMMA SummaryIsFirst ==
    ASSUME NEW p
    PROVE  /\ (\A i \in 1 .. 6 : ~Says(p, i)) => Summary(p) = JSON
           /\ \A i \in 1 .. 6 :
                 Says(p, i) /\ (\A j \in 1 .. 6 : Says(p, j) => i <= j)
                   => Summary(p) = p[SummaryKeys[i]]
  <1>1. PICK g : Scans(p, g)
    BY ScanExists
  <1>2. \E f : Scans(p, f) /\ Summary(p) = f[1]
    BY <1>1, Zenon DEF Summary, Scans
  <1>3. PICK f : Scans(p, f) /\ Summary(p) = f[1]
    BY <1>2
  <1>4. Len(SummaryKeys) = 6
    BY DEF SummaryKeys
  <1>5. /\ f[7] = JSON
        /\ \A i \in 1 .. 6 : f[i] = IF Says(p, i) THEN p[SummaryKeys[i]] ELSE f[i + 1]
    <2>1. f = [i \in 1 .. 7 |->
                 IF i > 6 THEN JSON
                 ELSE IF Says(p, i) THEN p[SummaryKeys[i]] ELSE f[i + 1]]
      BY <1>3, <1>4 DEF Scans, Says
    <2>2. \A i \in 1 .. 7 :
            f[i] = IF i > 6 THEN JSON
                   ELSE IF Says(p, i) THEN p[SummaryKeys[i]] ELSE f[i + 1]
      BY <2>1
    <2> QED
      BY <2>2
  <1>6. ASSUME \A i \in 1 .. 6 : ~Says(p, i) PROVE Summary(p) = JSON
    <2>1. f[1] = f[2] /\ f[2] = f[3] /\ f[3] = f[4] /\ f[4] = f[5]
            /\ f[5] = f[6] /\ f[6] = f[7]
      BY <1>5, <1>6
    <2> QED
      BY <1>3, <1>5, <2>1
  <1>7. ASSUME NEW i \in 1 .. 6, Says(p, i), \A j \in 1 .. 6 : Says(p, j) => i <= j
        PROVE  Summary(p) = p[SummaryKeys[i]]
    <2>1. \A j \in 1 .. 6 : j < i => f[j] = f[j + 1]
      BY <1>5, <1>7
    <2>2. f[i] = p[SummaryKeys[i]]
      BY <1>5, <1>7
    <2>3. f[1] = f[i]
      <3>1. /\ 1 < i => f[1] = f[2]
            /\ 2 < i => f[2] = f[3]
            /\ 3 < i => f[3] = f[4]
            /\ 4 < i => f[4] = f[5]
            /\ 5 < i => f[5] = f[6]
        BY <2>1
      <3>2. i = 1 \/ i = 2 \/ i = 3 \/ i = 4 \/ i = 5 \/ i = 6
        OBVIOUS
      <3> QED
        BY <3>1, <3>2
    <2> QED
      BY <1>3, <2>2, <2>3
  <1> QED
    BY <1>6, <1>7

\* So it is what the placeholder for it means.
LEMMA SummaryIsMeant == Summary(payload) = Meaning(Hole("summary"))
  <1> DEFINE said == {i \in DOMAIN SummaryKeys :
                        SummaryKeys[i] \in DOMAIN payload
                          /\ payload[SummaryKeys[i]] # <<>>}
  <1>1. DOMAIN SummaryKeys = 1 .. 6
    BY DEF SummaryKeys
  <1>2. said = {i \in 1 .. 6 : Says(payload, i)}
    BY <1>1 DEF Says
  <1>3. Meaning(Hole("summary"))
          = IF said = {} THEN JSON
            ELSE payload[SummaryKeys[CHOOSE i \in said : \A j \in said : i <= j]]
    <2>1. Hole("summary") # Hole("event")
      BY DEF Hole
    <2> QED
      BY <2>1 DEF Meaning
  <1> HIDE DEF said
  <1>4. CASE said = {}
    BY <1>2, <1>3, <1>4, SummaryIsFirst
  <1>5. CASE said # {}
    <2>1. \E i \in said : \A j \in said : i <= j
      <3>1. said \in SUBSET Nat
        BY <1>2
      <3> QED
        BY <1>5, <3>1, LeastLength
    <2>2. PICK i : i = CHOOSE k \in said : \A j \in said : k <= j
      OBVIOUS
    <2>3. i \in said /\ \A j \in said : i <= j
      BY <2>1, <2>2
    <2>4. Summary(payload) = payload[SummaryKeys[i]]
      BY <1>2, <2>3, SummaryIsFirst
    <2> QED
      BY <1>3, <1>5, <2>2, <2>4
  <1> QED
    BY <1>4, <1>5

-----------------------------------------------------------------------------
(* Rendering.                                                              *)

AnyLetter ==
    (UNION {Range(text) : text \in Values \cup Templates})
      \cup Letters \cup {<<"json">>}

Text == Seq(AnyLetter)

\* Nothing that is put in prints a placeholder.
Unprinted ==
    /\ ~HasHoles(event)
    /\ \A k \in DOMAIN payload : ~HasHoles(payload[k])

First == {Hole("event"), Hole("summary")}

\* What has become of a letter of the template when the loop has these keys left.
Meant(letter, left) ==
    IF letter \notin First /\ \E k \in left : letter = Hole(k)
    THEN <<letter>> ELSE Meaning(letter)

LEMMA HolesDiffer ==
    /\ \A k, l : Hole(k) = Hole(l) => k = l
    /\ \A k : Hole(k) # <<"json">>
  BY DEF Hole

LEMMA InputsAreTexts ==
    ASSUME Inputs
    PROVE  /\ event \in Text /\ template \in Text /\ Summary(payload) \in Text
           /\ DOMAIN payload \subseteq Keys
           /\ \A k \in DOMAIN payload : payload[k] \in Text
           /\ JSON \in Text
  <1>1. ASSUME NEW text \in Values \cup Templates PROVE text \in Text
    <2>1. text \in Seq(Range(text)) /\ Range(text) \subseteq AnyLetter
      BY TextAssumption DEF AnyLetter
    <2> QED
      BY <2>1, SeqMonotonic DEF Text
  <1>2. event \in Text
    <2>1. event \in Seq(Letters) /\ Letters \subseteq AnyLetter
      BY NameIsSequence DEF Inputs, AnyLetter
    <2> QED
      BY <2>1, SeqMonotonic DEF Text
  <1>3. template \in Text
    BY <1>1 DEF Inputs
  <1>4. PICK K \in SUBSET Keys : payload \in [K -> Values]
    BY DEF Inputs, Payloads
  <1>5. DOMAIN payload \subseteq Keys /\ \A k \in DOMAIN payload : payload[k] \in Text
    BY <1>1, <1>4
  <1>6. JSON \in Text
    <2>1. <<"json">> \in AnyLetter
      BY DEF AnyLetter
    <2> QED
      BY <2>1 DEF JSON, Text
  <1>7. Summary(payload) \in Text
    <2>1. CASE \A i \in 1 .. 6 : ~Says(payload, i)
      BY <1>6, <2>1, SummaryIsFirst
    <2>2. CASE ~ \A i \in 1 .. 6 : ~Says(payload, i)
      <3> DEFINE said == {i \in 1 .. 6 : Says(payload, i)}
      <3>1. PICK i \in said : \A j \in said : i <= j
        <4>1. said \in SUBSET Nat /\ said # {}
          BY <2>2
        <4> QED
          BY <4>1, LeastLength
      <3>2. Summary(payload) = payload[SummaryKeys[i]]
        BY <3>1, SummaryIsFirst
      <3> QED
        BY <1>5, <3>1, <3>2 DEF Says
    <2> QED
      BY <2>1, <2>2
  <1> QED
    BY <1>2, <1>3, <1>5, <1>6, <1>7

\* What the placeholders put in has no placeholder.
LEMMA SummaryIsPlain ==
    ASSUME Inputs, Unprinted, NEW k \in Keys
    PROVE  Hole(k) \notin Range(Summary(payload))
  <1>1. ASSUME NEW l \in DOMAIN payload PROVE Hole(k) \notin Range(payload[l])
    BY <1>1 DEF Unprinted, HasHoles, Holes
  <1>2. Hole(k) \notin Range(JSON)
    <2>1. Range(JSON) = {<<"json">>}
      BY DEF JSON, Range
    <2> QED
      BY <2>1, HolesDiffer
  <1>3. CASE \A i \in 1 .. 6 : ~Says(payload, i)
    BY <1>2, <1>3, SummaryIsFirst
  <1>4. CASE ~ \A i \in 1 .. 6 : ~Says(payload, i)
    <2> DEFINE said == {i \in 1 .. 6 : Says(payload, i)}
    <2>1. PICK i \in said : \A j \in said : i <= j
      <3>1. said \in SUBSET Nat /\ said # {}
        BY <1>4
      <3> QED
        BY <3>1, LeastLength
    <2>2. Summary(payload) = payload[SummaryKeys[i]]
      BY <2>1, SummaryIsFirst
    <2> QED
      BY <1>1, <2>1, <2>2 DEF Says
  <1> QED
    BY <1>3, <1>4

\* A placeholder for a key means its value, a letter that is none means itself.
LEMMA MeaningOfLetter ==
    ASSUME NEW letter
    PROVE  /\ letter = Hole("event") => Meaning(letter) = event
           /\ letter = Hole("summary") => Meaning(letter) = Summary(payload)
           /\ \A k \in DOMAIN payload :
                 letter = Hole(k) /\ letter \notin First
                    => Meaning(letter) = payload[k]
           /\ letter \notin First /\ (\A k \in DOMAIN payload : letter # Hole(k))
                 => Meaning(letter) = <<letter>>
  <1> DEFINE named == {k \in DOMAIN payload : letter = Hole(k)}
  <1>1. letter = Hole("event") => Meaning(letter) = event
    <2>1. Hole("event") # Hole("summary")
      BY HolesDiffer
    <2> QED
      BY <2>1 DEF Meaning
  <1>2. letter = Hole("summary") => Meaning(letter) = Summary(payload)
    BY SummaryIsMeant
  <1>3. letter \notin First =>
          Meaning(letter) = IF named = {} THEN <<letter>>
                            ELSE payload[CHOOSE k \in named : TRUE]
    BY DEF Meaning, First
  <1>4. ASSUME NEW k \in DOMAIN payload, letter = Hole(k), letter \notin First
        PROVE  Meaning(letter) = payload[k]
    <2>1. named = {k}
      BY <1>4, HolesDiffer
    <2>2. (CHOOSE l \in named : TRUE) = k
      BY <2>1
    <2> QED
      BY <1>3, <1>4, <2>1, <2>2
  <1> QED
    BY <1>1, <1>2, <1>3, <1>4

LEMMA MeantIsText ==
    ASSUME Inputs, NEW letter \in AnyLetter, NEW left
    PROVE  Meant(letter, left) \in Text
  <1>1. <<letter>> \in Text
    BY DEF Text
  <1>2. Meaning(letter) \in Text
    BY <1>1, MeaningOfLetter, InputsAreTexts DEF First
  <1> QED
    BY <1>1, <1>2 DEF Meant

\* One turn of the loop over the payload takes one key off those that are left.
LEMMA TurnOfLetter ==
    ASSUME Inputs, Unprinted, NEW left \in SUBSET DOMAIN payload, NEW k \in left,
           NEW letter \in AnyLetter
    PROVE  Replaced(Meant(letter, left), Hole(k), payload[k])
             = Meant(letter, left \ {k})
  <1>1. /\ k \in DOMAIN payload /\ k \in Keys /\ payload[k] \in Text
        /\ event \in Text /\ Summary(payload) \in Text
        /\ \A l \in DOMAIN payload : payload[l] \in Text
    BY InputsAreTexts
  <1>2. /\ Hole(k) \notin Range(event) /\ Hole(k) \notin Range(Summary(payload))
        /\ \A l \in DOMAIN payload : Hole(k) \notin Range(payload[l])
    BY <1>1, SummaryIsPlain DEF Unprinted, HasHoles, Holes
  <1>3. ASSUME NEW text \in Text, Hole(k) \notin Range(text)
        PROVE  Replaced(text, Hole(k), payload[k]) = text
    BY <1>1, <1>3, ReplacedElsewhere DEF Text
  <1>4. CASE letter \in First
    <2>1. Meant(letter, left) = Meaning(letter)
            /\ Meant(letter, left \ {k}) = Meaning(letter)
      BY <1>4 DEF Meant
    <2>2. Meaning(letter) \in {event, Summary(payload)}
      BY <1>4, MeaningOfLetter DEF First
    <2> QED
      BY <1>1, <1>2, <1>3, <2>1, <2>2
  <1>5. CASE letter \notin First /\ \E l \in left : letter = Hole(l)
    <2>1. Meant(letter, left) = <<letter>>
      BY <1>5 DEF Meant
    <2>2. Replaced(<<letter>>, Hole(k), payload[k])
            = IF letter = Hole(k) THEN payload[k] ELSE <<letter>>
      BY <1>1, ReplacedOfLetter DEF Text
    <2>3. CASE letter = Hole(k)
      <3>1. ~ \E l \in left \ {k} : letter = Hole(l)
        BY <2>3, HolesDiffer
      <3>2. Meant(letter, left \ {k}) = Meaning(letter)
        BY <3>1 DEF Meant
      <3>3. Meaning(letter) = payload[k]
        BY <1>1, <1>5, <2>3, MeaningOfLetter
      <3> QED
        BY <2>1, <2>2, <2>3, <3>2, <3>3
    <2>4. CASE letter # Hole(k)
      <3>1. \E l \in left \ {k} : letter = Hole(l)
        BY <1>5, <2>4
      <3>2. Meant(letter, left \ {k}) = <<letter>>
        BY <1>5, <3>1 DEF Meant
      <3> QED
        BY <2>1, <2>2, <2>4, <3>2
    <2> QED
      BY <2>3, <2>4
  <1>6. CASE letter \notin First /\ ~ \E l \in left : letter = Hole(l)
    <2>1. Meant(letter, left) = Meaning(letter)
            /\ Meant(letter, left \ {k}) = Meaning(letter)
      BY <1>6 DEF Meant
    <2>2. CASE \E l \in DOMAIN payload : letter = Hole(l)
      <3>1. PICK l \in DOMAIN payload : letter = Hole(l)
        BY <2>2
      <3>2. Meaning(letter) = payload[l]
        BY <1>6, <3>1, MeaningOfLetter
      <3> QED
        BY <1>1, <1>2, <1>3, <2>1, <3>2
    <2>3. CASE ~ \E l \in DOMAIN payload : letter = Hole(l)
      <3>1. Meaning(letter) = <<letter>> /\ letter # Hole(k)
        BY <1>1, <1>6, <2>3, MeaningOfLetter
      <3>2. Replaced(<<letter>>, Hole(k), payload[k])
              = IF letter = Hole(k) THEN payload[k] ELSE <<letter>>
        BY <1>1, ReplacedOfLetter DEF Text
      <3> QED
        BY <2>1, <3>1, <3>2
    <2> QED
      BY <2>2, <2>3
  <1> QED
    BY <1>4, <1>5, <1>6

\* The event and the summary are put in before the loop.
LEMMA StartOfLetter ==
    ASSUME Inputs, Unprinted, NEW letter \in AnyLetter
    PROVE  Replaced(IF letter = Hole("event") THEN event ELSE <<letter>>,
                    Hole("summary"), Summary(payload))
             = Meant(letter, DOMAIN payload)
  <1>1. event \in Text /\ Summary(payload) \in Text
    BY InputsAreTexts
  <1>2. Hole("event") # Hole("summary")
    BY HolesDiffer
  <1>3. CASE letter = Hole("event")
    <2>1. Hole("summary") \notin Range(event)
      BY DEF Unprinted, HasHoles, Holes
    <2>2. Replaced(event, Hole("summary"), Summary(payload)) = event
      BY <1>1, <2>1, ReplacedElsewhere DEF Text
    <2>3. Meant(letter, DOMAIN payload) = event
      BY <1>3, MeaningOfLetter DEF Meant, First
    <2> QED
      BY <1>3, <2>2, <2>3
  <1>4. CASE letter # Hole("event")
    <2>1. Replaced(<<letter>>, Hole("summary"), Summary(payload))
            = IF letter = Hole("summary") THEN Summary(payload) ELSE <<letter>>
      BY <1>1, ReplacedOfLetter DEF Text
    <2>2. Meant(letter, DOMAIN payload)
            = IF letter = Hole("summary") THEN Summary(payload) ELSE <<letter>>
      BY <1>4, MeaningOfLetter DEF Meant, First
    <2> QED
      BY <1>4, <2>1, <2>2
  <1> QED
    BY <1>3, <1>4

\* What the text is when the loop has these keys left.
Rendered(left) == FlattenSeq([i \in DOMAIN template |-> Meant(template[i], left)])

LEMMA MeantAreTexts ==
    ASSUME Inputs, NEW left
    PROVE  /\ [i \in DOMAIN template |-> Meant(template[i], left)] \in Seq(Text)
           /\ \A i \in DOMAIN template : template[i] \in AnyLetter
  <1>1. /\ Len(template) \in Nat /\ DOMAIN template = 1 .. Len(template)
        /\ \A i \in 1 .. Len(template) : template[i] \in AnyLetter
    BY InputsAreTexts, LenProperties, ElementOfSeq DEF Text
  <1>2. \A i \in 1 .. Len(template) : Meant(template[i], left) \in Text
    BY <1>1, MeantIsText
  <1>3. [i \in DOMAIN template |-> Meant(template[i], left)]
          \in [1 .. Len(template) -> Text]
    BY <1>1, <1>2
  <1> QED
    BY <1>1, <1>3, SeqDef

LEMMA LoopStarts ==
    ASSUME Inputs, Unprinted
    PROVE  Replaced(Replaced(template, Hole("event"), event),
                    Hole("summary"), Summary(payload))
             = Rendered(DOMAIN payload)
  <1> DEFINE pieces == Pieces(template, Hole("event"), event)
             R(text) == Replaced(text, Hole("summary"), Summary(payload))
             M(i) == Meant(template[i], DOMAIN payload)
  <1>1. /\ template \in Seq(AnyLetter) /\ event \in Seq(AnyLetter)
        /\ Summary(payload) \in Seq(AnyLetter)
        /\ DOMAIN template = 1 .. Len(template)
    BY InputsAreTexts, LenProperties DEF Text
  <1>2. pieces \in Seq(Seq(AnyLetter)) /\ DOMAIN pieces = DOMAIN template
    BY <1>1, PiecesAreTexts DEF Pieces
  <1>3. R(FlattenSeq(pieces)) = FlattenSeq([i \in DOMAIN pieces |-> R(pieces[i])])
    <2>1. PICK hole, value : hole = Hole("summary") /\ value = Summary(payload)
      OBVIOUS
    <2> HIDE DEF pieces
    <2>2. value \in Seq(AnyLetter)
      BY <1>1, <2>1
    <2>3. Replaced(FlattenSeq(pieces), hole, value)
            = FlattenSeq([i \in DOMAIN pieces |-> Replaced(pieces[i], hole, value)])
      BY <1>2, <2>2, ReplacedOfFlat
    <2> QED
      BY <2>1, <2>3
  <1>4. ASSUME NEW i \in DOMAIN template PROVE R(pieces[i]) = M(i)
    <2>1. pieces[i] = IF template[i] = Hole("event") THEN event ELSE <<template[i]>>
      BY <1>4 DEF Pieces
    <2>2. template[i] \in AnyLetter
      BY <1>4, MeantAreTexts
    <2> HIDE DEF pieces
    <2>3. R(IF template[i] = Hole("event") THEN event ELSE <<template[i]>>) = M(i)
      BY <2>2, StartOfLetter
    <2> QED
      BY <2>1, <2>3
  <1>5. Replaced(template, Hole("event"), event) = FlattenSeq(pieces)
    BY ReplacedIsFlat
  <1> HIDE DEF pieces, R, M
  <1>6. [i \in DOMAIN pieces |-> R(pieces[i])] = [i \in DOMAIN template |-> M(i)]
    BY <1>2, <1>4
  <1>7. R(FlattenSeq(pieces)) = FlattenSeq([i \in DOMAIN template |-> M(i)])
    BY <1>3, <1>6
  <1> QED
    BY <1>5, <1>7 DEF R, M, Rendered

LEMMA LoopTurns ==
    ASSUME Inputs, Unprinted, NEW left \in SUBSET DOMAIN payload, NEW k \in left
    PROVE  Replaced(Rendered(left), Hole(k), payload[k]) = Rendered(left \ {k})
  <1> DEFINE seqs == [i \in DOMAIN template |-> Meant(template[i], left)]
             R(text) == Replaced(text, Hole(k), payload[k])
             M(i) == Meant(template[i], left \ {k})
  <1>1. seqs \in Seq(Seq(AnyLetter)) /\ payload[k] \in Seq(AnyLetter)
    BY MeantAreTexts, InputsAreTexts DEF Text
  <1>2. DOMAIN seqs = DOMAIN template
    OBVIOUS
  <1>3. R(FlattenSeq(seqs)) = FlattenSeq([i \in DOMAIN seqs |-> R(seqs[i])])
    <2> HIDE DEF seqs
    <2> QED
      BY <1>1, ReplacedOfFlat
  <1>4. ASSUME NEW i \in DOMAIN template PROVE R(seqs[i]) = M(i)
    <2>1. seqs[i] = Meant(template[i], left)
      OBVIOUS
    <2>2. template[i] \in AnyLetter
      BY <1>4, MeantAreTexts
    <2> HIDE DEF seqs
    <2>3. R(Meant(template[i], left)) = M(i)
      BY <2>2, TurnOfLetter
    <2> QED
      BY <2>1, <2>3
  <1>5. Rendered(left) = FlattenSeq(seqs)
    BY DEF Rendered
  <1> HIDE DEF seqs, R, M
  <1>6. [i \in DOMAIN seqs |-> R(seqs[i])] = [i \in DOMAIN template |-> M(i)]
    BY <1>2, <1>4
  <1>7. R(FlattenSeq(seqs)) = FlattenSeq([i \in DOMAIN template |-> M(i)])
    BY <1>3, <1>6
  <1> QED
    BY <1>5, <1>7 DEF R, M, Rendered

-----------------------------------------------------------------------------
(* The text of a run.                                                      *)

RenderInv ==
    /\ pc = "loop" => todo \subseteq DOMAIN payload
    /\ pc = "loop" /\ Unprinted => out = Rendered(todo)
    /\ pc = "done" /\ template # <<>> /\ Unprinted => out = Rendered({})

LEMMA RenderStep ==
    ASSUME Inputs, RenderInv, [Next]_vars
    PROVE  RenderInv'
  <1>1. UNCHANGED input
    BY DEF Next, MatchRule, RenderEmpty, Render, ReplaceKey, Done, vars
  <1>2. Unprinted' <=> Unprinted
    BY <1>1 DEF input, Unprinted, HasHoles, Holes
  <1>3. ASSUME NEW left, todo' = left PROVE Rendered(todo)' = Rendered(left)
    BY <1>1, <1>3 DEF input, Rendered, Meant, Meaning
  <1>4. Rendered({})' = Rendered({})
    BY <1>1 DEF input, Rendered, Meant, Meaning
  <1>5. CASE MatchRule
    BY <1>5 DEF MatchRule, RenderInv
  <1>6. CASE RenderEmpty
    BY <1>6 DEF RenderEmpty, RenderInv, input
  <1>7. CASE Render
    <2>1. /\ pc' = "loop" /\ todo' = DOMAIN payload /\ payload' = payload
          /\ out' = Replaced(Replaced(template, Hole("event"), event),
                             Hole("summary"), Summary(payload))
      BY <1>1, <1>7 DEF Render, input
    <2>2. Rendered(todo)' = Rendered(DOMAIN payload)
      BY <1>3, <2>1
    <2>3. Unprinted => out' = Rendered(DOMAIN payload)
      BY <2>1, LoopStarts
    <2> QED
      BY <1>2, <2>1, <2>2, <2>3 DEF RenderInv
  <1>8. ASSUME NEW k \in Keys, ReplaceKey(k) PROVE RenderInv'
    <2>1. /\ pc = "loop" /\ pc' = "loop" /\ k \in todo
          /\ todo' = todo \ {k} /\ payload' = payload
          /\ out' = Replaced(out, Hole(k), payload[k])
      BY <1>1, <1>8 DEF ReplaceKey, input
    <2>2. todo \in SUBSET DOMAIN payload /\ (Unprinted => out = Rendered(todo))
      BY <2>1 DEF RenderInv
    <2>3. Rendered(todo)' = Rendered(todo \ {k})
      BY <1>3, <2>1
    <2>4. Unprinted => out' = Rendered(todo \ {k})
      BY <2>1, <2>2, LoopTurns
    <2> QED
      BY <1>2, <2>1, <2>2, <2>3, <2>4 DEF RenderInv
  <1>9. CASE Done
    <2>1. pc = "loop" /\ pc' = "done" /\ todo = {} /\ out' = out
      BY <1>9 DEF Done
    <2>2. Unprinted => out = Rendered({})
      BY <2>1 DEF RenderInv
    <2> QED
      BY <1>2, <1>4, <2>1, <2>2 DEF RenderInv
  <1>10. CASE UNCHANGED vars
    <2>1. UNCHANGED <<pc, out, todo, template, payload>>
      BY <1>10 DEF vars, input
    <2>2. Rendered(todo)' = Rendered(todo)
      BY <1>3, <2>1
    <2> QED
      BY <1>2, <1>4, <2>1, <2>2 DEF RenderInv
  <1> QED
    BY <1>5, <1>6, <1>7, <1>8, <1>9, <1>10 DEF Next

\* Without a placeholder in what is put in, the text is the template with all its
\* placeholders replaced at once, for any template, payload and event, whatever
\* the order in which the loop over the map takes the keys (template.go:13-17).
THEOREM RenderingIsSubstitution == Spec => []RenderIsSubstitution
  <1>1. Init => RenderInv
    BY DEF Init, RenderInv
  <1>2. MatchInv /\ RenderInv /\ [Next]_vars => RenderInv'
    BY RenderStep DEF MatchInv
  <1>3. MatchInv /\ RenderInv => RenderIsSubstitution
    <2>1. Rendered({}) = FlattenSeq([i \in DOMAIN template |-> Meaning(template[i])])
      BY DEF Rendered, Meant
    <2> QED
      BY <2>1 DEF RenderInv, RenderIsSubstitution, Unprinted
  <1> QED
    BY <1>1, <1>2, <1>3, MatchInvariant, PTL DEF Spec
=============================================================================
