------------------------- MODULE ConversionsProofs -------------------------
(***************************************************************************)
(* Proofs about Conversions: a response of any length loses no word to the *)
(* splitting; what Claude is told is what the user has typed, whatever the *)
(* questions and the replies; and the settings that validate lets through  *)
(* resolve later, a call going to the chat it names or nowhere.            *)
(*                                                                         *)
(* Most of the lemmas are about functions that are defined along a         *)
(* sequence (Only, FlattenSeq, Scan, Shown).  Each is first shown to       *)
(* exist, from PathExists, then to be determined step by step, from        *)
(* SameAlong; what it makes of an appended element then carries every      *)
(* induction, which is one with a set of sequences (SeqInduction).         *)
(***************************************************************************)
EXTENDS Conversions, FiniteSetTheorems, SequenceTheorems, WellFoundedInduction, TLAPS

(* Induction with a set, and functions defined along a sequence *)

\* What numbers a set has, it has a least of.  The induction is that of the library, on
\* finite subsets; it takes no operator, which the provers could not put in its place.
LEMMA LeastExists ==
  ASSUME NEW S \in SUBSET Nat, S # {}, IsFiniteSet(S)
  PROVE  \E x \in S : \A i \in S : x <= i
<1>1. PICK T : T = {{y \in S : y <= x} : x \in S}
  OBVIOUS
<1>2. T \subseteq FiniteSubsetsOf(S) /\ T # {}
  <2>1. \A x \in S : IsFiniteSet({y \in S : y <= x})
    BY FS_Subset
  <2>. QED  BY <1>1, <2>1 DEF FiniteSubsetsOf
<1>3. PICK A \in T : \A B \in T : ~ (<<B, A>> \in StrictSubsetOrdering(S))
  BY <1>2, FS_StrictSubsetOrderingWellFounded, WFMin
<1>4. PICK x \in S : A = {y \in S : y <= x}
  BY <1>1, <1>3
<1>5. \A z \in S : x <= z
  <2>. SUFFICES ASSUME NEW z \in S, ~ (x <= z)
                PROVE  FALSE
    OBVIOUS
  <2>1. PICK B : B = {y \in S : y <= z}
    OBVIOUS
  <2>2. B \in T
    BY <1>1, <2>1
  <2>3. x \in A /\ x \notin B
    BY <1>4, <2>1
  <2>4. ASSUME NEW y \in B PROVE y \in A
    <3>1. y \in S /\ y <= z
      BY <2>1
    <3>2. y \in Nat /\ x \in Nat /\ z \in Nat
      BY <3>1
    <3>3. y <= x
      BY <3>1, <3>2
    <3>. QED  BY <3>1, <3>3, <1>4
  <2>5. A \in SUBSET S /\ B \in SUBSET S
    BY <1>4, <2>1
  <2>6. <<B, A>> \in StrictSubsetOrdering(S)
    BY <2>3, <2>4, <2>5 DEF StrictSubsetOrdering
  <2>. QED  BY <2>2, <2>6, <1>3
<1>. QED  BY <1>5

\* Induction, with a set for the property.
LEMMA CountedInduction ==
  ASSUME NEW m \in Nat, NEW S, 0 \in S,
         \A n \in 1..m : n - 1 \in S => n \in S
  PROVE  \A n \in 0..m : n \in S
<1>1. PICK Bad : Bad = {n \in 0..m : n \notin S}
  OBVIOUS
<1>. SUFFICES ASSUME Bad # {} PROVE FALSE
  BY <1>1
<1>2. PICK n \in Bad : \A k \in Bad : n <= k
  <2>1. Bad \in SUBSET (0..m) /\ IsFiniteSet(0..m)
    BY <1>1, FS_Interval
  <2>2. IsFiniteSet(Bad)
    BY <2>1, FS_Subset
  <2>3. Bad \in SUBSET Nat
    BY <2>1
  <2>. QED  BY <2>2, <2>3, LeastExists
<1>3. n \in 0..m /\ n \notin S /\ n # 0
  BY <1>1, <1>2
<1>4. n - 1 \in 0..m /\ n - 1 \notin Bad
  BY <1>2, <1>3, <1>1
<1>. QED  BY <1>1, <1>3, <1>4

LEMMA GreatestExists ==
  ASSUME NEW m \in Nat, NEW S \in SUBSET (0..m), S # {}
  PROVE  \E x \in S : \A i \in S : i <= x
<1>1. PICK R : R = {m - i : i \in S}
  OBVIOUS
<1>2. R \in SUBSET (0..m) /\ R # {}
  <2>1. ASSUME NEW i \in S PROVE m - i \in 0..m
    <3>1. i \in 0..m
      OBVIOUS
    <3>. QED  BY <3>1
  <2>. QED  BY <1>1, <2>1
<1>3. R \in SUBSET Nat /\ IsFiniteSet(R)
  <2>1. IsFiniteSet(0..m)
    BY FS_Interval
  <2>2. R \in SUBSET Nat
    BY <1>2
  <2>. QED  BY <1>2, <2>1, <2>2, FS_Subset
<1>4. PICK r \in R : \A i \in R : r <= i
  BY <1>2, <1>3, LeastExists
<1>5. PICK x \in S : r = m - x
  BY <1>1
<1>6. ASSUME NEW i \in S PROVE i <= x
  <2>1. m - i \in R
    BY <1>1
  <2>2. r <= m - i /\ i \in 0..m /\ x \in 0..m
    BY <1>4, <2>1
  <2>. QED  BY <1>5, <2>2
<1>. QED  BY <1>6

LEMMA Appended ==
  ASSUME NEW S, NEW s \in Seq(S), NEW n \in 1..Len(s)
  PROVE  /\ SubSeq(s, 1, n) = Append(SubSeq(s, 1, n - 1), s[n])
         /\ SubSeq(s, 1, n - 1) \in Seq(S) /\ s[n] \in S
         /\ SubSeq(s, 1, n) \in Seq(S)
<1>1. SubSeq(s, 1, n) = SubSeq(s, 1, n - 1) \o <<s[n]>>
  BY SubSeqRecursiveSecond
<1>2. SubSeq(s, 1, n - 1) \in Seq(S) /\ s[n] \in S
  BY ElementOfSeq, SubSeqProperties
<1>3. SubSeq(s, 1, n) = Append(SubSeq(s, 1, n - 1), s[n])
  BY <1>1, <1>2, AppendIsConcat
<1>. QED  BY <1>2, <1>3, AppendProperties

\* A name for the empty sequence, for the provers.
Nil == <<>>

LEMMA NilIsASeq ==
  ASSUME NEW S
  PROVE  Nil \in Seq(S) /\ Len(Nil) = 0 /\ \A s : SubSeq(s, 1, 0) = Nil
BY EmptySeq, SubSeqEmpty DEF Nil

\* Induction along sequences, with a set for the property.
LEMMA SeqInduction ==
  ASSUME NEW S, NEW P, Nil \in P,
         \A s \in Seq(S), e \in S : s \in P => Append(s, e) \in P
  PROVE  \A s \in Seq(S) : s \in P
<1>. SUFFICES ASSUME NEW s \in Seq(S) PROVE s \in P
  OBVIOUS
<1>1. PICK K : K = {n \in 0..Len(s) : SubSeq(s, 1, n) \in P}
  OBVIOUS
<1>2. Len(s) \in Nat
  OBVIOUS
<1>3. 0 \in K
  <2>1. SubSeq(s, 1, 0) \in P
    BY NilIsASeq, Zenon
  <2>2. 0 \in 0..Len(s)
    OBVIOUS
  <2>. QED  BY <1>1, <2>1, <2>2
<1>4. ASSUME NEW n \in 1..Len(s), n - 1 \in K PROVE n \in K
  <2>1. SubSeq(s, 1, n - 1) \in P
    BY <1>1, <1>4
  <2>2. /\ SubSeq(s, 1, n) = Append(SubSeq(s, 1, n - 1), s[n])
        /\ SubSeq(s, 1, n - 1) \in Seq(S) /\ s[n] \in S
    BY Appended, Zenon
  <2>3. Append(SubSeq(s, 1, n - 1), s[n]) \in P
    BY <2>1, <2>2, Zenon
  <2>4. SubSeq(s, 1, n) \in P
    BY <2>2, <2>3, Zenon
  <2>. QED  BY <1>1, <1>2, <2>4
<1>5. \A n \in 0..Len(s) : n \in K
  BY <1>2, <1>3, <1>4, CountedInduction, Zenon
<1>6. Len(s) \in K
  BY <1>2, <1>5
<1>. QED  BY <1>1, <1>6, SubSeqFull

\* From a base, step by step: a function along 0..m whose steps are in R.
Steps(m, A, base, R) ==
  /\ m \in Nat /\ base \in A
  /\ \A n \in 1..m, a \in A : \E b \in A : <<n, a, b>> \in R

IsPath(m, A, base, R, f) ==
  /\ f \in [0..m -> A] /\ f[0] = base
  /\ \A n \in 1..m : <<n, f[n - 1], f[n]>> \in R

\* If each step is possible, so is the whole way.
LEMMA PathExists ==
  ASSUME NEW m, NEW A, NEW base, NEW R, Steps(m, A, base, R)
  PROVE  \E f : IsPath(m, A, base, R, f)
<1>. USE DEF Steps, IsPath
<1>1. PICK K : K = {k \in 0..m : \E f \in [0..k -> A] :
                      f[0] = base /\ \A n \in 1..k : <<n, f[n - 1], f[n]>> \in R}
  OBVIOUS
<1>2. 0 \in K
  <2>1. PICK f : f = [n \in 0..0 |-> base]
    OBVIOUS
  <2>2. f \in [0..0 -> A] /\ f[0] = base /\ 1..0 = {}
    BY <2>1
  <2>. QED  BY <1>1, <2>2
<1>3. ASSUME NEW k \in 1..m, k - 1 \in K PROVE k \in K
  <2>1. PICK f \in [0..(k - 1) -> A] :
          f[0] = base /\ \A n \in 1..(k - 1) : <<n, f[n - 1], f[n]>> \in R
    BY <1>1, <1>3
  <2>2. PICK last \in A : <<k, f[k - 1], last>> \in R
    <3>1. k - 1 \in 0..(k - 1)
      OBVIOUS
    <3>2. f[k - 1] \in A
      BY <2>1, <3>1, Zenon
    <3>. QED  BY <3>2, Zenon
  <2>3. PICK g : g = [n \in 0..k |-> IF n = k THEN last ELSE f[n]]
    OBVIOUS
  <2>4. g \in [0..k -> A] /\ g[0] = base /\ g[k] = last
        /\ \A n \in 0..(k - 1) : g[n] = f[n]
    BY <2>1, <2>3
  <2>5. ASSUME NEW n \in 1..k PROVE <<n, g[n - 1], g[n]>> \in R
    <3>1. n - 1 \in 0..(k - 1) /\ g[n - 1] = f[n - 1]
      BY <2>4
    <3>2. CASE n = k
      BY <2>2, <2>4, <3>1, <3>2
    <3>3. CASE n # k
      <4>1. n \in 1..(k - 1) /\ n \in 0..(k - 1)
        BY <3>3
      <4>. QED  BY <2>1, <2>4, <3>1, <4>1
    <3>. QED  BY <3>2, <3>3
  <2>6. \A n \in 1..k : <<n, g[n - 1], g[n]>> \in R
    BY <2>5
  <2>. QED  BY <1>1, <2>4, <2>6
<1>4. \A n \in 0..m : n \in K
  BY <1>2, <1>3, CountedInduction
<1>5. m \in K
  BY <1>4
<1>. QED  BY <1>1, <1>5

\* Two functions that start alike and go on alike are alike: what CHOOSE takes for a
\* recursive function is the one that was shown to exist.
LEMMA SameAlong ==
  ASSUME NEW m \in Nat, NEW f, NEW g, f[0] = g[0],
         \A n \in 1..m : f[n - 1] = g[n - 1] => f[n] = g[n]
  PROVE  \A n \in 0..m : f[n] = g[n]
<1>1. PICK K : K = {n \in 0..m : f[n] = g[n]}
  OBVIOUS
<1>2. \A n \in 0..m : n \in K
  <2>1. 0 \in K
    BY <1>1
  <2>2. \A n \in 1..m : n - 1 \in K => n \in K
    BY <1>1
  <2>. QED  BY <2>1, <2>2, CountedInduction
<1>. QED  BY <1>1, <1>2

-----------------------------------------------------------------------------
(* Only *)

IsOnly(s, T, f) ==
  f = [n \in 0..Len(s) |->
         IF n = 0 THEN <<>>
         ELSE IF s[n] \in T THEN Append(f[n - 1], s[n]) ELSE f[n - 1]]

OnlySteps(S, s, T) ==
  {x \in (1..Len(s)) \X Seq(S) \X Seq(S) :
     x[3] = IF s[x[1]] \in T THEN Append(x[2], s[x[1]]) ELSE x[2]}

\* Only is what its recursive definition says.
LEMMA OnlyExists ==
  ASSUME NEW S, NEW s \in Seq(S), NEW T
  PROVE  \E f : IsOnly(s, T, f) /\ Only(s, T) = f[Len(s)] /\ f \in [0..Len(s) -> Seq(S)]
<1>1. ASSUME NEW n \in 1..Len(s), NEW q \in Seq(S)
      PROVE  \E r \in Seq(S) : <<n, q, r>> \in OnlySteps(S, s, T)
  <2>1. s[n] \in S /\ Append(q, s[n]) \in Seq(S)
    BY ElementOfSeq, AppendProperties
  <2>. QED  BY <2>1 DEF OnlySteps
<1>2. Steps(Len(s), Seq(S), Nil, OnlySteps(S, s, T))
  <2>1. Len(s) \in Nat /\ Nil \in Seq(S)
    BY NilIsASeq
  <2>. QED  BY <1>1, <2>1, Zenon DEF Steps
<1>3. PICK f \in [0..Len(s) -> Seq(S)] :
        f[0] = Nil /\ \A n \in 1..Len(s) : <<n, f[n - 1], f[n]>> \in OnlySteps(S, s, T)
  <2>1. PICK f : IsPath(Len(s), Seq(S), Nil, OnlySteps(S, s, T), f)
    BY <1>2, PathExists
  <2>. QED  BY <2>1 DEF IsPath
<1>4. ASSUME NEW n \in 0..Len(s)
      PROVE  f[n] = IF n = 0 THEN Nil
                    ELSE IF s[n] \in T THEN Append(f[n - 1], s[n]) ELSE f[n - 1]
  <2>1. CASE n = 0
    BY <1>3, <2>1
  <2>2. CASE n # 0
    <3>1. n \in 1..Len(s) /\ f[n - 1] \in Seq(S)
      BY <1>3, <2>2
    <3>2. <<n, f[n - 1], f[n]>> \in OnlySteps(S, s, T)
      BY <1>3, <3>1
    <3>. QED  BY <2>2, <3>2 DEF OnlySteps
  <2>. QED  BY <2>1, <2>2
<1>5. IsOnly(s, T, f)
  BY <1>3, <1>4 DEF IsOnly, Nil
<1>6. \E g : IsOnly(s, T, g) /\ Only(s, T) = g[Len(s)]
  BY <1>5 DEF IsOnly, Only
<1>7. PICK g : IsOnly(s, T, g) /\ Only(s, T) = g[Len(s)]
  BY <1>6
<1>8. \A n \in 0..Len(s) : f[n] = g[n]
  <2>1. f[0] = g[0] /\ Len(s) \in Nat
    BY <1>5, <1>7 DEF IsOnly
  <2>2. ASSUME NEW n \in 1..Len(s), f[n - 1] = g[n - 1] PROVE f[n] = g[n]
    <3>1. n \in 0..Len(s) /\ n # 0
      OBVIOUS
    <3>. QED  BY <1>5, <1>7, <2>2, <3>1 DEF IsOnly
  <2>. QED  BY <2>1, <2>2, SameAlong, ZenonT(40)
<1>. QED  BY <1>3, <1>5, <1>7, <1>8

LEMMA OnlyEmpty ==
  ASSUME NEW T
  PROVE  Only(Nil, T) = Nil
<1>1. PICK f : IsOnly(Nil, T, f) /\ Only(Nil, T) = f[Len(Nil)]
  BY NilIsASeq, OnlyExists
<1>2. f[0] = <<>>
  BY <1>1, NilIsASeq DEF IsOnly
<1>. QED  BY <1>1, <1>2, NilIsASeq DEF Nil

\* What Only makes of an appended element, and with it of two sequences.
LEMMA OnlyAppend ==
  ASSUME NEW S, NEW s \in Seq(S), NEW e \in S, NEW T
  PROVE  Only(Append(s, e), T) = IF e \in T THEN Append(Only(s, T), e) ELSE Only(s, T)
<1>1. PICK t : t = Append(s, e)
  OBVIOUS
<1>2. /\ t \in Seq(S) /\ Len(t) = Len(s) + 1 /\ t[Len(s) + 1] = e
      /\ \A i \in 1..Len(s) : t[i] = s[i]
  BY <1>1, AppendProperties
<1>3. PICK f : IsOnly(s, T, f) /\ Only(s, T) = f[Len(s)]
  BY OnlyExists
<1>4. PICK g : IsOnly(t, T, g) /\ Only(t, T) = g[Len(t)]
  BY <1>2, OnlyExists
<1>5. \A n \in 0..Len(s) : f[n] = g[n]
  <2>1. f[0] = g[0] /\ Len(s) \in Nat
    BY <1>2, <1>3, <1>4 DEF IsOnly
  <2>2. ASSUME NEW n \in 1..Len(s), f[n - 1] = g[n - 1] PROVE f[n] = g[n]
    <3>1. n \in 0..Len(s) /\ n \in 0..Len(t) /\ n # 0 /\ t[n] = s[n]
      BY <1>2
    <3>. QED  BY <1>3, <1>4, <2>2, <3>1, ZenonT(40) DEF IsOnly
  <2>. QED  BY <2>1, <2>2, SameAlong, ZenonT(40)
<1>6. g[Len(t)] = IF e \in T THEN Append(g[Len(s)], e) ELSE g[Len(s)]
  <2>1. Len(t) \in 0..Len(t) /\ Len(t) # 0 /\ Len(t) - 1 = Len(s) /\ t[Len(t)] = e
    BY <1>2
  <2>. QED  BY <1>4, <2>1 DEF IsOnly
<1>7. f[Len(s)] = g[Len(s)]
  BY <1>5
<1>. QED  BY <1>1, <1>3, <1>4, <1>6, <1>7

LEMMA OnlyType ==
  ASSUME NEW S, NEW s \in Seq(S), NEW T
  PROVE  Only(s, T) \in Seq(S)
BY OnlyExists

LEMMA ConcatAppend ==
  ASSUME NEW S, NEW s \in Seq(S), NEW t \in Seq(S), NEW e \in S
  PROVE  /\ s \o t \in Seq(S) /\ Append(t, e) \in Seq(S)
         /\ s \o Append(t, e) = Append(s \o t, e)
OBVIOUS

LEMMA ConcatNil ==
  ASSUME NEW S, NEW s \in Seq(S)
  PROVE  s \o Nil = s /\ Nil \o s = s
BY ConcatEmptySeq DEF Nil

LEMMA OnlyConcat ==
  ASSUME NEW S, NEW s \in Seq(S), NEW t \in Seq(S), NEW T
  PROVE  Only(s \o t, T) = Only(s, T) \o Only(t, T)
<1>1. PICK P : P = {u \in Seq(S) : Only(s \o u, T) = Only(s, T) \o Only(u, T)}
  OBVIOUS
<1>2. Nil \in P
  <2>1. s \o Nil = s /\ Only(s, T) \o Nil = Only(s, T)
    BY OnlyType, ConcatNil
  <2>. QED  BY <1>1, <2>1, NilIsASeq, OnlyEmpty
<1>3. ASSUME NEW u \in Seq(S), NEW e \in S, u \in P PROVE Append(u, e) \in P
  <2>1. s \o Append(u, e) = Append(s \o u, e) /\ s \o u \in Seq(S) /\ Append(u, e) \in Seq(S)
    BY ConcatAppend
  <2>2. Only(s \o u, T) = Only(s, T) \o Only(u, T)
    BY <1>1, <1>3
  <2>3. CASE e \in T
    <3>1. Only(Append(u, e), T) = Append(Only(u, T), e)
      BY <2>3, OnlyAppend
    <3>2. Only(s \o Append(u, e), T) = Append(Only(s, T) \o Only(u, T), e)
      <4>1. Only(Append(s \o u, e), T) = Append(Only(s \o u, T), e)
        BY <2>1, <2>3, OnlyAppend
      <4>. QED  BY <2>1, <2>2, <4>1, Zenon
    <3>3. Append(Only(s, T) \o Only(u, T), e) = Only(s, T) \o Append(Only(u, T), e)
      <4>1. PICK a \in Seq(S), b \in Seq(S) : a = Only(s, T) /\ b = Only(u, T)
        BY OnlyType
      <4>2. a \o Append(b, e) = Append(a \o b, e)
        BY ConcatAppend
      <4>. QED  BY <4>1, <4>2, Zenon
    <3>. QED  BY <1>1, <2>1, <3>1, <3>2, <3>3
  <2>4. CASE e \notin T
    <3>1. Only(Append(u, e), T) = Only(u, T)
      BY <2>4, OnlyAppend
    <3>2. Only(s \o Append(u, e), T) = Only(s \o u, T)
      BY <2>1, <2>4, OnlyAppend
    <3>. QED  BY <1>1, <2>1, <2>2, <3>1, <3>2
  <2>. QED  BY <2>3, <2>4
<1>4. t \in P
  BY <1>2, <1>3, SeqInduction
<1>. QED  BY <1>1, <1>4

-----------------------------------------------------------------------------
(* FlattenSeq *)

FlattenSteps(S, ss) ==
  {x \in (1..Len(ss)) \X Seq(S) \X Seq(S) : x[3] = x[2] \o ss[x[1]]}

IsFlatten(ss, g) ==
  g = [i \in 1..Len(ss) |-> IF i = 1 THEN ss[i] ELSE g[i - 1] \o ss[i]]

FlattensTo(S, ss, f) ==
  /\ f \in [0..Len(ss) -> Seq(S)] /\ f[0] = Nil
  /\ \A n \in 1..Len(ss) : f[n] = f[n - 1] \o ss[n]
  /\ FlattenSeq(ss) = f[Len(ss)]

\* FlattenSeq is what its recursive definition says.
LEMMA FlattenPath ==
  ASSUME NEW S, NEW ss \in Seq(Seq(S))
  PROVE  \E f : FlattensTo(S, ss, f)
<1>1. ASSUME NEW n \in 1..Len(ss), NEW q \in Seq(S)
      PROVE  \E r \in Seq(S) : <<n, q, r>> \in FlattenSteps(S, ss)
  <2>1. ss[n] \in Seq(S)
    BY ElementOfSeq
  <2>2. q \o ss[n] \in Seq(S)
    BY <2>1, ConcatProperties
  <2>. QED  BY <2>2 DEF FlattenSteps
<1>2. Steps(Len(ss), Seq(S), Nil, FlattenSteps(S, ss))
  <2>1. Len(ss) \in Nat /\ Nil \in Seq(S)
    BY NilIsASeq
  <2>. QED  BY <1>1, <2>1, Zenon DEF Steps
<1>3. PICK f : IsPath(Len(ss), Seq(S), Nil, FlattenSteps(S, ss), f)
  BY <1>2, PathExists
<1>4. f \in [0..Len(ss) -> Seq(S)] /\ f[0] = Nil
  BY <1>3 DEF IsPath
<1>5. ASSUME NEW n \in 1..Len(ss) PROVE f[n] = f[n - 1] \o ss[n]
  <2>1. <<n, f[n - 1], f[n]>> \in FlattenSteps(S, ss)
    BY <1>3 DEF IsPath
  <2>. QED  BY <2>1 DEF FlattenSteps
<1>6. CASE Len(ss) = 0
  <2>1. ss = Nil
    BY <1>6, EmptySeq DEF Nil
  <2>2. FlattenSeq(ss) = ss
    BY <1>6 DEF FlattenSeq
  <2>. QED  BY <1>4, <1>5, <1>6, <2>1, <2>2 DEF FlattensTo
<1>7. CASE Len(ss) # 0
  <2>1. PICK g : g = [i \in 1..Len(ss) |-> f[i]]
    OBVIOUS
  <2>2. ASSUME NEW i \in 1..Len(ss)
        PROVE  g[i] = IF i = 1 THEN ss[i] ELSE g[i - 1] \o ss[i]
    <3>1. CASE i = 1
      <4>0. f[i] = f[i - 1] \o ss[i]
        BY <1>5
      <4>1. f[i] = f[0] \o ss[i]
        BY <3>1, <4>0
      <4>2. ss[i] \in Seq(S)
        BY ElementOfSeq
      <4>. QED  BY <1>4, <2>1, <3>1, <4>1, <4>2, ConcatNil
    <3>2. CASE i # 1
      <4>1. i - 1 \in 1..Len(ss)
        BY <3>2
      <4>. QED  BY <1>5, <2>1, <3>2, <4>1
    <3>. QED  BY <3>1, <3>2
  <2>3. IsFlatten(ss, g)
    BY <2>1, <2>2 DEF IsFlatten
  <2>4. \E h : IsFlatten(ss, h) /\ FlattenSeq(ss) = h[Len(ss)]
    BY <1>7, <2>3 DEF IsFlatten, FlattenSeq
  <2>5. PICK h : IsFlatten(ss, h) /\ FlattenSeq(ss) = h[Len(ss)]
    BY <2>4
  <2>6. PICK K : K = {n \in 0..Len(ss) : n # 0 => h[n] = f[n]}
    OBVIOUS
  <2>7. ASSUME NEW n \in 1..Len(ss), n - 1 \in K PROVE n \in K
    <3>1. h[n] = IF n = 1 THEN ss[n] ELSE h[n - 1] \o ss[n]
      BY <2>5 DEF IsFlatten
    <3>2. g[n] = f[n]
      BY <2>1
    <3>3. CASE n = 1
      BY <2>2, <2>6, <3>1, <3>2, <3>3
    <3>4. CASE n # 1
      <4>1. n - 1 # 0 /\ n - 1 \in 1..Len(ss)
        BY <3>4
      <4>2. h[n - 1] = f[n - 1]
        BY <2>6, <2>7, <4>1
      <4>3. f[n] = f[n - 1] \o ss[n]
        BY <1>5
      <4>4. h[n] = f[n]
        BY <3>1, <3>4, <4>2, <4>3, Zenon
      <4>. QED  BY <2>6, <4>4
    <3>. QED  BY <3>3, <3>4
  <2>8. 0 \in K /\ Len(ss) \in Nat
    BY <2>6
  <2>9. \A n \in 0..Len(ss) : n \in K
    BY <2>7, <2>8, CountedInduction, Zenon
  <2>10. h[Len(ss)] = f[Len(ss)]
    BY <1>7, <2>6, <2>8, <2>9
  <2>. QED  BY <1>4, <1>5, <2>5, <2>10 DEF FlattensTo
<1>. QED  BY <1>6, <1>7

LEMMA FlattenType ==
  ASSUME NEW S, NEW ss \in Seq(Seq(S))
  PROVE  FlattenSeq(ss) \in Seq(S)
<1>1. Len(ss) \in Nat
  OBVIOUS
<1>2. PICK f : FlattensTo(S, ss, f)
  BY FlattenPath
<1>. QED  BY <1>1, <1>2 DEF FlattensTo

LEMMA FlattenNil == FlattenSeq(Nil) = Nil
<1>1. Len(Nil) = 0
  BY NilIsASeq
<1>. QED  BY <1>1 DEF FlattenSeq

LEMMA FlattenAppend ==
  ASSUME NEW S, NEW ss \in Seq(Seq(S)), NEW s \in Seq(S)
  PROVE  FlattenSeq(Append(ss, s)) = FlattenSeq(ss) \o s
<1>1. PICK t : t = Append(ss, s)
  OBVIOUS
<1>2. /\ t \in Seq(Seq(S)) /\ Len(t) = Len(ss) + 1 /\ t[Len(ss) + 1] = s
      /\ \A i \in 1..Len(ss) : t[i] = ss[i]
  BY <1>1, AppendProperties
<1>3. PICK f : FlattensTo(S, ss, f)
  BY FlattenPath
<1>4. PICK g : FlattensTo(S, t, g)
  BY <1>2, FlattenPath
<1>5. ASSUME NEW n \in 1..Len(ss), f[n - 1] = g[n - 1] PROVE f[n] = g[n]
  <2>1. n \in 1..Len(t) /\ t[n] = ss[n]
    BY <1>2
  <2>. QED  BY <1>3, <1>4, <1>5, <2>1 DEF FlattensTo
<1>6. f[0] = g[0] /\ Len(ss) \in Nat
  BY <1>3, <1>4 DEF FlattensTo
<1>7. \A n \in 0..Len(ss) : f[n] = g[n]
  BY <1>5, <1>6, SameAlong, ZenonT(40)
<1>8. f[Len(ss)] = g[Len(ss)]
  BY <1>6, <1>7
<1>9. g[Len(t)] = g[Len(ss)] \o s
  <2>1. Len(t) \in 1..Len(t) /\ Len(t) - 1 = Len(ss) /\ t[Len(t)] = s
    BY <1>2
  <2>. QED  BY <1>4, <2>1 DEF FlattensTo
<1>. QED  BY <1>1, <1>3, <1>4, <1>8, <1>9 DEF FlattensTo

-----------------------------------------------------------------------------
(* Only, on texts: what it keeps, and what it leaves out *)

\* Nothing is kept where nothing is in T, and something where something is.
LEMMA OnlyNone ==
  ASSUME NEW S, NEW s \in Seq(S), NEW T, \A i \in 1..Len(s) : s[i] \notin T
  PROVE  Only(s, T) = Nil
<1>1. PICK P : P = {u \in Seq(S) : (\A i \in 1..Len(u) : u[i] \notin T) => Only(u, T) = Nil}
  OBVIOUS
<1>2. Nil \in P
  BY <1>1, NilIsASeq, OnlyEmpty
<1>3. ASSUME NEW u \in Seq(S), NEW e \in S, u \in P PROVE Append(u, e) \in P
  <2>1. PICK v \in Seq(S) : v = Append(u, e)
    BY AppendProperties
  <2>2. Len(v) = Len(u) + 1 /\ v[Len(u) + 1] = e /\ \A i \in 1..Len(u) : v[i] = u[i]
    BY <2>1, AppendProperties
  <2>. SUFFICES ASSUME \A i \in 1..Len(v) : v[i] \notin T PROVE Only(v, T) = Nil
    BY <1>1, <2>1
  <2>3. e \notin T /\ \A i \in 1..Len(u) : u[i] \notin T
    BY <2>2
  <2>4. Only(u, T) = Nil
    BY <1>1, <1>3, <2>3
  <2>5. Only(Append(u, e), T) = Only(u, T)
    BY <2>3, OnlyAppend
  <2>. QED  BY <2>1, <2>4, <2>5
<1>4. s \in P
  BY <1>2, <1>3, SeqInduction
<1>. QED  BY <1>1, <1>4

LEMMA OnlySome ==
  ASSUME NEW S, NEW s \in Seq(S), NEW T, NEW i \in 1..Len(s), s[i] \in T
  PROVE  Only(s, T) # Nil
<1>1. PICK P : P = {u \in Seq(S) : (\E j \in 1..Len(u) : u[j] \in T) => Len(Only(u, T)) > 0}
  OBVIOUS
<1>2. Nil \in P
  BY <1>1, NilIsASeq
<1>3. ASSUME NEW u \in Seq(S), NEW e \in S, u \in P PROVE Append(u, e) \in P
  <2>1. PICK v \in Seq(S) : v = Append(u, e)
    BY AppendProperties
  <2>2. Len(v) = Len(u) + 1 /\ v[Len(u) + 1] = e /\ \A j \in 1..Len(u) : v[j] = u[j]
    BY <2>1, AppendProperties
  <2>. SUFFICES ASSUME NEW j \in 1..Len(v), v[j] \in T PROVE Len(Only(v, T)) > 0
    BY <1>1, <2>1
  <2>3. CASE e \in T
    <3>1. Only(Append(u, e), T) = Append(Only(u, T), e) /\ Only(u, T) \in Seq(S)
      BY <2>3, OnlyAppend, OnlyType
    <3>2. Len(Append(Only(u, T), e)) = Len(Only(u, T)) + 1 /\ Len(Only(u, T)) \in Nat
      BY <3>1, AppendProperties
    <3>. QED  BY <2>1, <3>1, <3>2
  <2>4. CASE e \notin T
    <3>1. j \in 1..Len(u) /\ u[j] \in T
      BY <2>2, <2>4
    <3>2. Len(Only(u, T)) > 0
      BY <1>1, <1>3, <3>1
    <3>3. Only(Append(u, e), T) = Only(u, T)
      BY <2>4, OnlyAppend
    <3>. QED  BY <2>1, <3>2, <3>3
  <2>. QED  BY <2>3, <2>4
<1>4. s \in P
  BY <1>2, <1>3, SeqInduction
<1>. QED  BY <1>1, <1>4, NilIsASeq

LEMMA OnlyLen ==
  ASSUME NEW S, NEW s \in Seq(S), NEW T
  PROVE  Len(Only(s, T)) \in Nat /\ Len(Only(s, T)) <= Len(s)
<1>1. PICK P : P = {u \in Seq(S) : Len(Only(u, T)) <= Len(u)}
  OBVIOUS
<1>2. Nil \in P
  BY <1>1, NilIsASeq, OnlyEmpty
<1>3. ASSUME NEW u \in Seq(S), NEW e \in S, u \in P PROVE Append(u, e) \in P
  <2>1. Len(Append(u, e)) = Len(u) + 1 /\ Len(u) \in Nat /\ Append(u, e) \in Seq(S)
    BY AppendProperties
  <2>2. PICK w \in Seq(S) : w = Only(u, T)
    BY OnlyType
  <2>3. Len(Append(w, e)) = Len(w) + 1 /\ Len(w) \in Nat /\ Len(w) <= Len(u)
    BY <1>1, <1>3, <2>2, AppendProperties
  <2>4. Only(Append(u, e), T) = Append(w, e) \/ Only(Append(u, e), T) = w
    BY <2>2, OnlyAppend
  <2>5. Len(Only(Append(u, e), T)) <= Len(Append(u, e))
    BY <2>1, <2>3, <2>4
  <2>. QED  BY <1>1, <2>1, <2>5
<1>4. s \in P
  BY <1>2, <1>3, SeqInduction
<1>5. Only(s, T) \in Seq(S)
  BY OnlyType
<1>. QED  BY <1>1, <1>4, <1>5

\* A sequence is its two halves.
LEMMA Halves ==
  ASSUME NEW S, NEW s \in Seq(S), NEW k \in 0..Len(s)
  PROVE  /\ SubSeq(s, 1, k) \in Seq(S) /\ Len(SubSeq(s, 1, k)) = k
         /\ \A i \in 1..k : SubSeq(s, 1, k)[i] = s[i]
         /\ SubSeq(s, k + 1, Len(s)) \in Seq(S) /\ Len(SubSeq(s, k + 1, Len(s))) = Len(s) - k
         /\ \A i \in 1..Len(s) - k : SubSeq(s, k + 1, Len(s))[i] = s[k + i]
         /\ s = SubSeq(s, 1, k) \o SubSeq(s, k + 1, Len(s))
<1>1. Len(s) \in Nat /\ \A i \in 1..Len(s) : s[i] \in S
  BY ElementOfSeq
<1>2. SubSeq(s, 1, k) \in Seq(S) /\ Len(SubSeq(s, 1, k)) = k
  BY <1>1, SubSeqProperties
<1>3. SubSeq(s, k + 1, Len(s)) \in Seq(S) /\ Len(SubSeq(s, k + 1, Len(s))) = Len(s) - k
  BY <1>1, SubSeqProperties
<1>4. s = SubSeq(s, 1, k) \o SubSeq(s, k + 1, Len(s))
  <2>0. 1 \in 1..(Len(s) + 1) /\ k \in (1 - 1)..Len(s) /\ Len(s) \in k..Len(s)
    BY <1>1
  <2>1. SubSeq(s, 1, k) \o SubSeq(s, k + 1, Len(s)) = SubSeq(s, 1, Len(s))
    BY <2>0, ConcatAdjacentSubSeq
  <2>. QED  BY <2>1, SubSeqFull
<1>5. \A i \in 1..k : SubSeq(s, 1, k)[i] = s[i]
  BY <1>1, SubSeqProperties
<1>6. \A i \in 1..Len(s) - k : SubSeq(s, k + 1, Len(s))[i] = s[k + i]
  BY <1>1, SubSeqProperties
<1>. QED  BY <1>2, <1>3, <1>4, <1>5, <1>6

\* What trimming leaves begins, or ends, at the first, or last, character that is no
\* space; only spaces are cut off, so that every word stays.
LEMMA TrimmedStart ==
  ASSUME NEW s \in Seq(Char), NEW i \in 1..Len(s), s[i] \notin Space
  PROVE  \E k \in 0..(i - 1) :
           /\ TrimStart(s) = SubSeq(s, k + 1, Len(s)) /\ s[k + 1] \notin Space
           /\ \A j \in 1..k : s[j] \in Space
<1>1. Solid(s) \in SUBSET (1..Len(s)) /\ i \in Solid(s)
  BY DEF Solid
<1>2. IsFiniteSet(Solid(s)) /\ Solid(s) \in SUBSET Nat
  <2>1. Len(s) \in Nat /\ IsFiniteSet(1..Len(s))
    BY FS_Interval
  <2>2. IsFiniteSet(Solid(s))
    BY <1>1, <2>1, FS_Subset
  <2>. QED  BY <1>1, <2>1, <2>2
<1>3. \E x \in Solid(s) : \A j \in Solid(s) : x <= j
  BY <1>1, <1>2, LeastExists
<1>4. PICK x : x = CHOOSE i_1 \in Solid(s) : \A j \in Solid(s) : i_1 <= j
  OBVIOUS
<1>5. x \in Solid(s) /\ \A j \in Solid(s) : x <= j
  BY <1>3, <1>4
<1>6. TrimStart(s) = SubSeq(s, x, Len(s))
  BY <1>1, <1>4 DEF TrimStart
<1>7. x \in 1..i /\ s[x] \notin Space /\ x - 1 \in 0..(i - 1) /\ (x - 1) + 1 = x
  BY <1>1, <1>5 DEF Solid
<1>8. \A j \in 1..(x - 1) : s[j] \in Space
  BY <1>1, <1>5, <1>7 DEF Solid
<1>. QED  BY <1>6, <1>7, <1>8

LEMMA TrimmedEnd ==
  ASSUME NEW s \in Seq(Char), NEW i \in 1..Len(s), s[i] \notin Space
  PROVE  \E k \in i..Len(s) :
           /\ TrimEnd(s) = SubSeq(s, 1, k) /\ s[k] \notin Space
           /\ \A j \in (k + 1)..Len(s) : s[j] \in Space
<1>1. Solid(s) \in SUBSET (1..Len(s)) /\ i \in Solid(s)
  BY DEF Solid
<1>2. \E x \in Solid(s) : \A j \in Solid(s) : j <= x
  <2>1. Len(s) \in Nat /\ Solid(s) \in SUBSET (0..Len(s)) /\ Solid(s) # {}
    BY <1>1
  <2>. QED  BY <2>1, GreatestExists
<1>4. PICK x : x = CHOOSE i_1 \in Solid(s) : \A j \in Solid(s) : j <= i_1
  OBVIOUS
<1>5. x \in Solid(s) /\ \A j \in Solid(s) : j <= x
  BY <1>2, <1>4
<1>6. TrimEnd(s) = SubSeq(s, 1, x)
  BY <1>1, <1>4 DEF TrimEnd
<1>7. x \in i..Len(s) /\ s[x] \notin Space
  BY <1>1, <1>5 DEF Solid
<1>8. \A j \in (x + 1)..Len(s) : s[j] \in Space
  BY <1>1, <1>5, <1>7 DEF Solid
<1>. QED  BY <1>6, <1>7, <1>8

LEMMA TrimmedBlank ==
  ASSUME NEW s \in Seq(Char), \A i \in 1..Len(s) : s[i] \in Space
  PROVE  TrimStart(s) = Nil /\ TrimEnd(s) = Nil /\ Words(s) = Nil
<1>1. Solid(s) = {}
  BY DEF Solid
<1>2. Words(s) = Nil
  BY OnlyNone DEF Words
<1>. QED  BY <1>1, <1>2 DEF TrimStart, TrimEnd, Nil

LEMMA WordsConcat ==
  ASSUME NEW s \in Seq(Char), NEW t \in Seq(Char)
  PROVE  Words(s \o t) = Words(s) \o Words(t) /\ Words(s) \in Seq(Char) /\ Words(t) \in Seq(Char)
<1>1. PICK T : T = Char \ Space
  OBVIOUS
<1>2. Only(s \o t, T) = Only(s, T) \o Only(t, T)
  BY OnlyConcat
<1>3. Only(s, T) \in Seq(Char) /\ Only(t, T) \in Seq(Char)
  BY OnlyType
<1>. QED  BY <1>1, <1>2, <1>3, Zenon DEF Words

LEMMA WordsOfTrimmed ==
  ASSUME NEW s \in Seq(Char)
  PROVE  /\ TrimStart(s) \in Seq(Char) /\ Words(TrimStart(s)) = Words(s)
         /\ TrimEnd(s) \in Seq(Char) /\ Words(TrimEnd(s)) = Words(s)
<1>0. Len(s) \in Nat /\ Words(Nil) = Nil /\ Words(s) \in Seq(Char)
  BY OnlyEmpty, OnlyType DEF Words
<1>1. CASE \A i \in 1..Len(s) : s[i] \in Space
  BY <1>0, <1>1, TrimmedBlank, NilIsASeq
<1>2. ASSUME NEW i \in 1..Len(s), s[i] \notin Space
      PROVE  TrimStart(s) \in Seq(Char) /\ Words(TrimStart(s)) = Words(s)
  <2>1. PICK k \in 0..(i - 1) : /\ TrimStart(s) = SubSeq(s, k + 1, Len(s))
                                /\ \A j \in 1..k : s[j] \in Space
    BY <1>2, TrimmedStart
  <2>2. PICK a, b : a = SubSeq(s, 1, k) /\ b = SubSeq(s, k + 1, Len(s))
    OBVIOUS
  <2>3. k \in 0..Len(s)
    OBVIOUS
  <2>4. /\ a \in Seq(Char) /\ b \in Seq(Char) /\ s = a \o b
        /\ Len(a) = k /\ \A j \in 1..k : a[j] = s[j]
    BY <2>2, <2>3, Halves
  <2>5. Words(a) = Nil
    <3>1. \A j \in 1..Len(a) : a[j] \notin Char \ Space
      BY <2>1, <2>4
    <3>. QED  BY <2>4, <3>1, OnlyNone DEF Words
  <2>6. Words(s) = Words(a) \o Words(b) /\ Words(b) \in Seq(Char)
    <3>1. Words(a \o b) = Words(a) \o Words(b) /\ Words(b) \in Seq(Char)
      <4>1. a \in Seq(Char) /\ b \in Seq(Char)
        BY <2>4
      <4>. QED  BY <4>1, WordsConcat
    <3>. QED  BY <2>4, <3>1
  <2>. QED  BY <2>1, <2>2, <2>4, <2>5, <2>6, ConcatNil
<1>3. ASSUME NEW i \in 1..Len(s), s[i] \notin Space
      PROVE  TrimEnd(s) \in Seq(Char) /\ Words(TrimEnd(s)) = Words(s)
  <2>1. PICK k \in i..Len(s) : /\ TrimEnd(s) = SubSeq(s, 1, k)
                               /\ \A j \in (k + 1)..Len(s) : s[j] \in Space
    BY <1>3, TrimmedEnd
  <2>2. PICK a, b : a = SubSeq(s, 1, k) /\ b = SubSeq(s, k + 1, Len(s))
    OBVIOUS
  <2>3. k \in 0..Len(s)
    OBVIOUS
  <2>4. /\ a \in Seq(Char) /\ b \in Seq(Char) /\ s = a \o b
        /\ Len(b) = Len(s) - k /\ \A j \in 1..Len(s) - k : b[j] = s[k + j]
    BY <2>2, <2>3, Halves
  <2>5. Words(b) = Nil
    <3>1. \A j \in 1..Len(b) : b[j] \notin Char \ Space
      BY <1>0, <2>1, <2>4, SMTT(20)
    <3>. QED  BY <2>4, <3>1, OnlyNone DEF Words
  <2>6. Words(s) = Words(a) \o Words(b) /\ Words(a) \in Seq(Char)
    <3>1. Words(a \o b) = Words(a) \o Words(b) /\ Words(a) \in Seq(Char)
      <4>1. a \in Seq(Char) /\ b \in Seq(Char)
        BY <2>4
      <4>. QED  BY <4>1, WordsConcat
    <3>. QED  BY <2>4, <3>1
  <2>. QED  BY <2>1, <2>2, <2>4, <2>5, <2>6, ConcatNil
<1>. QED  BY <1>1, <1>2, <1>3

-----------------------------------------------------------------------------
(* The cut *)

\* The bytes of two texts add up, and those of a start are no more than of the whole.
LEMMA BytesConcat ==
  ASSUME NEW s \in Seq(Char), NEW t \in Seq(Char)
  PROVE  Bytes(s) \in Nat /\ Bytes(t) \in Nat /\ Bytes(s \o t) = Bytes(s) + Bytes(t)
<1>0. PICK T : T = {Accented}
  OBVIOUS
<1>1. PICK a \in Seq(Char), b \in Seq(Char) : a = Only(s, T) /\ b = Only(t, T)
  BY OnlyType
<1>2. Len(a \o b) = Len(a) + Len(b) /\ Len(a) \in Nat /\ Len(b) \in Nat
  BY ConcatProperties
<1>3. Len(s \o t) = Len(s) + Len(t) /\ Len(s) \in Nat /\ Len(t) \in Nat
  BY ConcatProperties
<1>4. Only(s \o t, T) = a \o b
  <2>1. Only(s \o t, T) = Only(s, T) \o Only(t, T)
    BY OnlyConcat, SMTT(20)
  <2>. QED  BY <1>1, <2>1, Zenon
<1>5. Bytes(s) = Len(s) + Len(a) /\ Bytes(t) = Len(t) + Len(b)
  BY <1>0, <1>1 DEF Bytes
<1>6. Bytes(s \o t) = Len(s \o t) + Len(a \o b)
  BY <1>0, <1>4 DEF Bytes
<1>. QED  BY <1>2, <1>3, <1>5, <1>6

LEMMA BytesOfPrefix ==
  ASSUME NEW s \in Seq(Char), NEW n \in 0..Len(s), NEW k \in 0..n
  PROVE  Bytes(SubSeq(s, 1, k)) <= Bytes(SubSeq(s, 1, n))
<1>1. PICK p : p = SubSeq(s, 1, n)
  OBVIOUS
<1>2. p \in Seq(Char) /\ Len(p) = n /\ \A i \in 1..n : p[i] = s[i]
  BY <1>1, Halves
<1>3. PICK a, b : a = SubSeq(p, 1, k) /\ b = SubSeq(p, k + 1, Len(p))
  OBVIOUS
<1>4. /\ a \in Seq(Char) /\ b \in Seq(Char) /\ p = a \o b
      /\ Len(a) = k /\ \A i \in 1..k : a[i] = p[i]
  <2>1. k \in 0..Len(p) /\ p \in Seq(Char)
    BY <1>2
  <2>2. /\ SubSeq(p, 1, k) \in Seq(Char) /\ Len(SubSeq(p, 1, k)) = k
        /\ \A i \in 1..k : SubSeq(p, 1, k)[i] = p[i]
        /\ SubSeq(p, k + 1, Len(p)) \in Seq(Char)
        /\ p = SubSeq(p, 1, k) \o SubSeq(p, k + 1, Len(p))
    <3>1. /\ SubSeq(p, 1, k) \in Seq(Char) /\ Len(SubSeq(p, 1, k)) = k
          /\ \A i \in 1..k : SubSeq(p, 1, k)[i] = p[i]
      BY <2>1, Halves, ZenonT(60)
    <3>2. /\ SubSeq(p, k + 1, Len(p)) \in Seq(Char)
          /\ p = SubSeq(p, 1, k) \o SubSeq(p, k + 1, Len(p))
      BY <2>1, Halves, ZenonT(60)
    <3>. QED  BY <3>1, <3>2, Zenon
  <2>. QED  BY <1>3, <2>2, Zenon
<1>5. a = SubSeq(s, 1, k)
  <2>1. PICK c : c = SubSeq(s, 1, k)
    OBVIOUS
  <2>2. k \in 0..Len(s)
    OBVIOUS
  <2>3. c \in Seq(Char) /\ Len(c) = k /\ \A i \in 1..k : c[i] = s[i]
    BY <2>1, <2>2, Halves, Zenon
  <2>4. ASSUME NEW i \in 1..k PROVE a[i] = c[i]
    <3>1. a[i] = p[i] /\ c[i] = s[i]
      BY <1>4, <2>3, Zenon
    <3>2. i \in 1..n
      OBVIOUS
    <3>3. p[i] = s[i]
      BY <1>2, <3>2, Zenon
    <3>. QED  BY <3>1, <3>3, Zenon
  <2>5. a = c
    BY <1>4, <2>3, <2>4, SeqEqual
  <2>. QED  BY <2>1, <2>5
<1>6. Bytes(a \o b) = Bytes(a) + Bytes(b) /\ Bytes(a) \in Nat /\ Bytes(b) \in Nat
  <2>1. a \in Seq(Char) /\ b \in Seq(Char)
    BY <1>4
  <2>. QED  BY <2>1, BytesConcat
<1>7. Bytes(p) >= Bytes(a)
  BY <1>4, <1>6
<1>. QED  BY <1>1, <1>5, <1>7

\* The limit leaves room for a character: there is a boundary to cut at, before the end.
LEMMA BoundaryExists ==
  ASSUME NEW s \in Seq(Char), Bytes(s) > MaxBytes
  PROVE  /\ Boundary(s) \in 1..(Len(s) - 1)
         /\ Bytes(SubSeq(s, 1, Boundary(s))) <= MaxBytes
<1>1. PICK K : K = {n \in 0..Len(s) : Bytes(SubSeq(s, 1, n)) <= MaxBytes}
  OBVIOUS
<1>2. Len(s) \in Nat /\ MaxBytes \in Nat /\ MaxBytes >= 2
  BY BytesAssumption
<1>3. Len(s) \notin K
  <2>1. SubSeq(s, 1, Len(s)) = s
    BY SubSeqFull
  <2>2. Bytes(s) \in Nat
    BY BytesConcat
  <2>3. ~ (Bytes(s) <= MaxBytes)
    BY <1>2, <2>2
  <2>4. ~ (Bytes(SubSeq(s, 1, Len(s))) <= MaxBytes)
    BY <2>1, <2>3, Zenon
  <2>. QED  BY <1>1, <2>4
<1>4. ASSUME NEW n \in 0..Len(s), n <= 1 PROVE n \in K
  <2>1. PICK p : p = SubSeq(s, 1, n)
    OBVIOUS
  <2>2. p \in Seq(Char) /\ Len(p) = n
    BY <2>1, Halves
  <2>3. Len(Only(p, {Accented})) <= n
    BY <2>2, OnlyLen
  <2>4. Len(Only(p, {Accented})) \in Nat
    BY <2>2, OnlyLen
  <2>5. Bytes(p) <= 2
    BY <1>4, <2>2, <2>3, <2>4 DEF Bytes
  <2>6. Bytes(p) \in Nat
    BY <2>2, BytesConcat
  <2>. QED  BY <1>1, <1>2, <2>1, <2>5, <2>6
<1>5. \E n \in 1..Len(s) : n - 1 \in K /\ n \notin K
  <2>. SUFFICES ASSUME \A n \in 1..Len(s) : n - 1 \in K => n \in K PROVE FALSE
    OBVIOUS
  <2>1. 0 \in K
    BY <1>2, <1>4
  <2>2. \A n \in 0..Len(s) : n \in K
    BY <1>2, <2>1, CountedInduction, Zenon
  <2>. QED  BY <1>2, <1>3, <2>2
<1>6. PICK n \in 1..Len(s) : n - 1 \in K /\ n \notin K
  BY <1>5
<1>7. n - 1 \in 1..(Len(s) - 1) /\ (n - 1) + 1 = n
  BY <1>2, <1>4, <1>6
<1>8. Bytes(SubSeq(s, 1, n - 1)) <= MaxBytes /\ Bytes(SubSeq(s, 1, n)) > MaxBytes
  <2>1. n \in 0..Len(s)
    OBVIOUS
  <2>2. SubSeq(s, 1, n) \in Seq(Char)
    BY <2>1, Halves
  <2>3. Bytes(SubSeq(s, 1, n)) \in Nat
    BY <2>2, BytesConcat
  <2>4. ~ (Bytes(SubSeq(s, 1, n)) <= MaxBytes)
    BY <1>1, <1>6, <2>1
  <2>5. Bytes(SubSeq(s, 1, n - 1)) <= MaxBytes
    BY <1>1, <1>6
  <2>. QED  BY <1>2, <2>3, <2>4, <2>5
<1>9. \E b \in 1..Len(s) :
        /\ Bytes(SubSeq(s, 1, b)) <= MaxBytes
        /\ b = Len(s) \/ Bytes(SubSeq(s, 1, b + 1)) > MaxBytes
  <2>1. n - 1 \in 1..Len(s)
    BY <1>7
  <2>. QED  BY <1>7, <1>8, <2>1
<1>10. Boundary(s) \in 1..Len(s) /\ Bytes(SubSeq(s, 1, Boundary(s))) <= MaxBytes
  BY <1>9 DEF Boundary
<1>11. Boundary(s) # Len(s)
  BY <1>1, <1>2, <1>3, <1>10
<1>. QED  BY <1>2, <1>10, <1>11

LEMMA CutAtBounds ==
  ASSUME NEW s \in Seq(Char), Bytes(s) > MaxBytes
  PROVE  CutAt(s) \in 1..Boundary(s)
<1>1. Boundary(s) \in 1..(Len(s) - 1) /\ Len(s) \in Nat
  BY BoundaryExists
<1>2. PICK breaks : breaks = {i \in 2..Boundary(s) : s[i] = Break}
  OBVIOUS
<1>3. CASE breaks = {}
  BY <1>1, <1>2, <1>3 DEF CutAt
<1>4. CASE breaks # {}
  <2>1. /\ Boundary(s) \in Nat
        /\ breaks \in SUBSET (0..Boundary(s)) /\ breaks \in SUBSET (2..Boundary(s))
    BY <1>1, <1>2
  <2>2. \E i \in breaks : \A j \in breaks : j <= i
    BY <1>4, <2>1, GreatestExists
  <2>3. PICK i : i = CHOOSE i_1 \in breaks : \A j \in breaks : j <= i_1
    OBVIOUS
  <2>4. i \in breaks
    BY <2>2, <2>3
  <2>5. CutAt(s) = i - 1
    BY <1>2, <1>4, <2>3 DEF CutAt
  <2>6. i \in 2..Boundary(s)
    BY <2>1, <2>4
  <2>. QED  BY <1>1, <2>5, <2>6
<1>. QED  BY <1>3, <1>4

-----------------------------------------------------------------------------
(* What is left after a turn of the splitting *)

\* A part of a part, with its place in the whole.
LEMMA PartOfPart ==
  ASSUME NEW S, NEW s \in Seq(S), NEW a \in 0..(Len(s) - 1), NEW b \in (a + 1)..Len(s),
         NEW c \in 0..(b - a - 1), NEW d \in (c + 1)..(b - a)
  PROVE  SubSeq(SubSeq(s, a + 1, b), c + 1, d) = SubSeq(s, a + c + 1, a + d)
<1>1. Len(s) \in Nat
  OBVIOUS
<1>2. a + 1 \in 1..Len(s) /\ b \in 1..Len(s)
      /\ c + 1 \in 1..(b - (a + 1) + 1) /\ d \in 1..(b - (a + 1) + 1)
  BY <1>1
<1>3. SubSeq(SubSeq(s, a + 1, b), c + 1, d) = SubSeq(s, (a + 1) + (c + 1) - 1, (a + 1) + d - 1)
  BY <1>2, SubSeqOfSubSeq
<1>4. (a + 1) + (c + 1) - 1 = a + c + 1 /\ (a + 1) + d - 1 = a + d
  BY <1>1
<1>. QED  BY <1>3, <1>4

Trimmed(s) == Len(s) > 0 /\ s[1] \notin Space /\ s[Len(s)] \notin Space

LEMMA ResponsesAreTrimmed ==
  ASSUME NEW r \in Responses
  PROVE  r \in Seq(Char) /\ r # Nil /\ Trimmed(r)
<1>1. r \in Seq(Char) /\ r # Nil /\ TrimStart(TrimEnd(r)) = r
  BY ResponsesAssumption DEF Trim, Nil
<1>2. Len(r) \in Nat /\ Len(r) > 0
  BY <1>1, EmptySeq DEF Nil
<1>3. PICK i \in 1..Len(r) : r[i] \notin Space
  <2>. SUFFICES ASSUME \A i \in 1..Len(r) : r[i] \in Space PROVE FALSE
    OBVIOUS
  <2>1. TrimEnd(r) = Nil
    BY <1>1, TrimmedBlank
  <2>2. TrimStart(Nil) = Nil
    BY NilIsASeq, TrimmedBlank
  <2>. QED  BY <1>1, <2>1, <2>2
<1>4. PICK k \in i..Len(r) : TrimEnd(r) = SubSeq(r, 1, k) /\ r[k] \notin Space
  BY <1>1, <1>3, TrimmedEnd
<1>5. PICK u : u = SubSeq(r, 1, k)
  OBVIOUS
<1>6. u \in Seq(Char) /\ Len(u) = k /\ \A j \in 1..k : u[j] = r[j]
  <2>1. k \in 0..Len(r)
    BY <1>2
  <2>. QED  BY <1>1, <1>5, <2>1, Halves
<1>7. k \in 1..Len(u) /\ u[k] \notin Space
  BY <1>2, <1>4, <1>6
<1>8. PICK m \in 0..(k - 1) : TrimStart(u) = SubSeq(u, m + 1, Len(u)) /\ u[m + 1] \notin Space
  BY <1>6, <1>7, TrimmedStart
<1>9. Len(TrimStart(u)) = k - m
  <2>1. m \in 0..Len(u)
    BY <1>2, <1>6
  <2>2. Len(SubSeq(u, m + 1, Len(u))) = Len(u) - m
    BY <1>6, <2>1, Halves
  <2>. QED  BY <1>6, <1>8, <2>2
<1>10. Len(r) = k - m
  BY <1>1, <1>4, <1>5, <1>9
<1>11. k = Len(r) /\ m = 0
  BY <1>2, <1>10
<1>. QED  BY <1>1, <1>2, <1>4, <1>6, <1>8, <1>11 DEF Trimmed

Parts(s, chunk, left) ==
  /\ chunk \in Seq(Char) /\ left \in Seq(Char)
  /\ \E j \in 1..Len(s) : chunk = SubSeq(s, 1, j)
  /\ Bytes(chunk) <= MaxBytes /\ Words(chunk) # Nil
  /\ Trimmed(left)
  /\ \E k \in 1..Len(s) : left = SubSeq(s, k + 1, Len(s)) /\ Len(left) = Len(s) - k
  /\ Words(s) = Words(chunk) \o Words(left)

\* What a turn of the loop makes of what is left of the response.
LEMMA CutSound ==
  ASSUME NEW s \in Seq(Char), Trimmed(s), Bytes(s) > MaxBytes
  PROVE  Parts(s, TrimEnd(SubSeq(s, 1, CutAt(s))), TrimStart(SubSeq(s, CutAt(s) + 1, Len(s))))
<1>0. PICK chunk, left : /\ chunk = TrimEnd(SubSeq(s, 1, CutAt(s)))
                         /\ left = TrimStart(SubSeq(s, CutAt(s) + 1, Len(s)))
  OBVIOUS
<1>1. PICK b : b = Boundary(s) /\ b \in 1..(Len(s) - 1) /\ Bytes(SubSeq(s, 1, b)) <= MaxBytes
  BY BoundaryExists
<1>2. PICK k : k = CutAt(s) /\ k \in 1..b
  BY <1>1, CutAtBounds
<1>3. Len(s) \in Nat /\ k \in 0..Len(s) /\ k \in 1..(Len(s) - 1)
  BY <1>1, <1>2
<1>4. PICK u, v : u = SubSeq(s, 1, k) /\ v = SubSeq(s, k + 1, Len(s))
  OBVIOUS
<1>5. /\ u \in Seq(Char) /\ Len(u) = k /\ \A i \in 1..k : u[i] = s[i]
      /\ v \in Seq(Char) /\ Len(v) = Len(s) - k /\ \A i \in 1..Len(s) - k : v[i] = s[k + i]
      /\ s = u \o v
  BY <1>3, <1>4, Halves
<1>6. chunk = TrimEnd(u) /\ left = TrimStart(v)
  BY <1>0, <1>2, <1>4
<1>7. /\ chunk \in Seq(Char) /\ Words(chunk) = Words(u)
      /\ left \in Seq(Char) /\ Words(left) = Words(v)
  <2>1. u \in Seq(Char) /\ v \in Seq(Char)
    BY <1>5
  <2>2. TrimEnd(u) \in Seq(Char) /\ Words(TrimEnd(u)) = Words(u)
    BY <2>1, WordsOfTrimmed
  <2>3. TrimStart(v) \in Seq(Char) /\ Words(TrimStart(v)) = Words(v)
    BY <2>1, WordsOfTrimmed
  <2>. QED  BY <1>6, <2>2, <2>3
<1>8. Words(s) = Words(chunk) \o Words(left)
  <2>1. u \in Seq(Char) /\ v \in Seq(Char)
    BY <1>5
  <2>2. Words(u \o v) = Words(u) \o Words(v)
    BY <2>1, WordsConcat
  <2>. QED  BY <1>5, <1>7, <2>2
<1>9. PICK j \in 1..k : chunk = SubSeq(u, 1, j)
  <2>1. 1 \in 1..Len(u) /\ u[1] \notin Space
    BY <1>3, <1>5 DEF Trimmed
  <2>0. u \in Seq(Char)
    BY <1>5
  <2>2. PICK j \in 1..Len(u) : /\ TrimEnd(u) = SubSeq(u, 1, j) /\ u[j] \notin Space
                               /\ \A i \in (j + 1)..Len(u) : u[i] \in Space
    BY <2>0, <2>1, TrimmedEnd
  <2>. QED  BY <1>5, <1>6, <2>2
<1>10. chunk = SubSeq(s, 1, j) /\ j \in 1..Len(s) /\ j \in 0..b /\ b \in 0..Len(s)
  <2>1. SubSeq(u, 1, j) = SubSeq(s, 1, j)
    <3>1. /\ 0 \in 0..(Len(s) - 1) /\ k \in (0 + 1)..Len(s)
          /\ 0 \in 0..(k - 0 - 1) /\ j \in (0 + 1)..(k - 0)
      BY <1>3
    <3>2. SubSeq(SubSeq(s, 0 + 1, k), 0 + 1, j) = SubSeq(s, 0 + 0 + 1, 0 + j)
      BY <3>1, PartOfPart
    <3>3. 0 + 1 = 1 /\ 0 + 0 + 1 = 1 /\ 0 + j = j
      BY <1>3
    <3>. QED  BY <1>4, <3>2, <3>3, Zenon
  <2>2. SubSeq(u, 1, j) = SubSeq(s, 1, j)
    BY <2>1
  <2>. QED  BY <1>1, <1>2, <1>3, <1>9, <2>2
<1>11. Bytes(chunk) <= MaxBytes
  <2>1. Bytes(SubSeq(s, 1, j)) <= Bytes(SubSeq(s, 1, b))
    BY <1>10, BytesOfPrefix
  <2>2. Bytes(chunk) \in Nat
    BY <1>7, BytesConcat
  <2>3. SubSeq(s, 1, b) \in Seq(Char)
    BY <1>10, Halves
  <2>4. Bytes(SubSeq(s, 1, b)) \in Nat
    BY <2>3, BytesConcat
  <2>5. Bytes(chunk) <= Bytes(SubSeq(s, 1, b))
    BY <1>10, <2>1, Zenon
  <2>. QED  BY <1>1, <2>2, <2>4, <2>5, BytesAssumption
<1>12. Words(chunk) # Nil
  <2>1. 1 \in 1..Len(u) /\ u[1] \in Char \ Space
    <3>1. u[1] \in Char
      BY <1>3, <1>5, ElementOfSeq
    <3>. QED  BY <1>3, <1>5, <3>1 DEF Trimmed
  <2>2. Words(u) # Nil
    BY <1>5, <2>1, OnlySome DEF Words
  <2>. QED  BY <1>7, <2>2
<1>13. PICK m \in 0..(Len(v) - 1) : left = SubSeq(v, m + 1, Len(v)) /\ v[m + 1] \notin Space
  <2>1. Len(v) \in 1..Len(v) /\ v[Len(v)] \notin Space
    <3>1. Len(v) \in 1..Len(v) /\ v[Len(v)] = s[k + Len(v)] /\ k + Len(v) = Len(s)
      BY <1>3, <1>5
    <3>. QED  BY <3>1 DEF Trimmed
  <2>. QED  BY <1>5, <1>6, <2>1, TrimmedStart
<1>14. left = SubSeq(s, k + m + 1, Len(s)) /\ k + m \in 1..Len(s)
  <2>1. SubSeq(v, m + 1, Len(s) - k) = SubSeq(s, k + m + 1, k + (Len(s) - k))
    <3>1. /\ k \in 0..(Len(s) - 1) /\ Len(s) \in (k + 1)..Len(s)
          /\ m \in 0..(Len(s) - k - 1) /\ Len(s) - k \in (m + 1)..(Len(s) - k)
      BY <1>3, <1>5
    <3>2. SubSeq(SubSeq(s, k + 1, Len(s)), m + 1, Len(s) - k)
            = SubSeq(s, k + m + 1, k + (Len(s) - k))
      BY <3>1, PartOfPart
    <3>. QED  BY <1>4, <3>2
  <2>2. k + (Len(s) - k) = Len(s) /\ k + m \in 1..Len(s)
    BY <1>3, <1>5
  <2>. QED  BY <1>5, <1>13, <2>1, <2>2
<1>15. /\ Len(left) = Len(v) - m /\ \A i \in 1..Len(v) - m : left[i] = v[m + i]
  <2>1. m \in 0..Len(v)
    BY <1>3, <1>5
  <2>. QED  BY <1>5, <1>13, <2>1, Halves
<1>16. Trimmed(left)
  <2>1. /\ Len(left) > 0 /\ 1 \in 1..Len(v) - m
        /\ Len(left) \in 1..Len(v) - m /\ m + Len(left) = Len(v)
    BY <1>3, <1>5, <1>15
  <2>2. left[1] = v[m + 1] /\ left[Len(left)] = v[Len(v)]
    BY <1>15, <2>1
  <2>3. v[Len(v)] = s[k + Len(v)] /\ k + Len(v) = Len(s)
    BY <1>3, <1>5
  <2>. QED  BY <1>13, <2>1, <2>2, <2>3 DEF Trimmed
<1>17. \E n \in 1..Len(s) : left = SubSeq(s, n + 1, Len(s)) /\ Len(left) = Len(s) - n
  <2>1. Len(left) = Len(s) - (k + m)
    BY <1>3, <1>5, <1>15
  <2>. QED  BY <1>14, <2>1
<1>18. \E n \in 1..Len(s) : chunk = SubSeq(s, 1, n)
  BY <1>10
<1>19. Parts(s, chunk, left)
  BY <1>7, <1>8, <1>11, <1>12, <1>16, <1>17, <1>18 DEF Parts
<1>. QED  BY <1>0, <1>19

-----------------------------------------------------------------------------
(* The splitting of a response *)

\* A chunk stands in the response as it is.
PartOfResponse(c) ==
  \E k \in 0..Len(response) - Len(c) : SubSeq(response, k + 1, k + Len(c)) = c

IsEnd(t, s) == \E k \in 0..Len(s) : t = SubSeq(s, k + 1, Len(s))

\* What is left is an end of the response that begins and ends with no space.
SplitInv ==
  /\ response \in Seq(Char) /\ rest \in Seq(Char) /\ chunks \in Seq(Seq(Char))
  /\ rest # Nil =>
       /\ Trimmed(rest)
       /\ IsEnd(rest, response)
  /\ NothingLost

LEMMA SplitStart == Init => SplitInv
<1>1. chunks = Nil => chunks \in Seq(Seq(Char)) /\ FlattenSeq(chunks) = Nil
  BY NilIsASeq, FlattenNil
<1>2. Words(Nil) = Nil
  BY OnlyEmpty DEF Words
<1>3. ASSUME ChunksInit PROVE SplitInv
  <2>1. /\ response \in Responses /\ rest = response /\ chunks = Nil
    BY <1>3 DEF ChunksInit, Nil
  <2>2. response \in Seq(Char) /\ Trimmed(response)
    BY <2>1, ResponsesAreTrimmed
  <2>3. Len(response) \in Nat /\ response = SubSeq(response, 0 + 1, Len(response))
    BY <2>2, SubSeqFull
  <2>4. IsEnd(rest, response)
    BY <2>1, <2>3 DEF IsEnd
  <2>5. NothingLost
    <3>1. Words(response) \in Seq(Char)
      BY <2>2, WordsOfTrimmed, OnlyType DEF Words
    <3>2. Words(FlattenSeq(chunks)) \o Words(rest) = Words(response)
      BY <1>1, <1>2, <2>1, <3>1, ConcatNil
    <3>3. DOMAIN chunks = {}
      BY <2>1 DEF Nil
    <3>. QED  BY <3>2, <3>3 DEF NothingLost
  <2>. QED  BY <1>1, <2>1, <2>2, <2>4, <2>5 DEF SplitInv
<1>4. ASSUME ChunksIdle PROVE SplitInv
  <2>1. response = Nil /\ rest = Nil /\ chunks = Nil
    BY <1>4 DEF ChunksIdle, Nil
  <2>2. Nil \in Seq(Char) /\ Nil \o Nil = Nil
    BY NilIsASeq, ConcatNil
  <2>3. DOMAIN chunks = {}
    BY <2>1 DEF Nil
  <2>4. NothingLost
    BY <1>1, <1>2, <2>1, <2>2, <2>3 DEF NothingLost
  <2>. QED  BY <1>1, <2>1, <2>2, <2>4 DEF SplitInv
<1>. QED  BY <1>3, <1>4 DEF Init

\* Nothing is lost by a step that makes one more chunk of a part of the response, if the
\* chunk and what is left have the words of what was left before.
LEMMA ChunkAdded ==
  ASSUME SplitInv, NEW c \in Seq(Char), NEW left \in Seq(Char),
         Words(rest) = Words(c) \o Words(left), Sendable(c), PartOfResponse(c),
         chunks' = Append(chunks, c), rest' = left, response' = response
  PROVE  NothingLost' /\ chunks' \in Seq(Seq(Char))
<1>1. response \in Seq(Char) /\ rest \in Seq(Char) /\ chunks \in Seq(Seq(Char)) /\ NothingLost
  BY DEF SplitInv
<1>2. PICK f \in Seq(Char) : f = FlattenSeq(chunks)
  BY <1>1, FlattenType
<1>3. FlattenSeq(chunks') = f \o c
  <2>1. FlattenSeq(Append(chunks, c)) = FlattenSeq(chunks) \o c
    BY <1>1, FlattenAppend
  <2>. QED  BY <1>2, <2>1
<1>4. Words(f \o c) = Words(f) \o Words(c) /\ Words(f) \in Seq(Char) /\ Words(c) \in Seq(Char)
  BY WordsConcat
<1>5. Words(left) \in Seq(Char)
  BY WordsConcat
<1>6. (Words(f) \o Words(c)) \o Words(left) = Words(f) \o (Words(c) \o Words(left))
  <2>1. PICK a \in Seq(Char), b \in Seq(Char), d \in Seq(Char) :
          a = Words(f) /\ b = Words(c) /\ d = Words(left)
    BY <1>4, <1>5
  <2>2. (a \o b) \o d = a \o (b \o d)
    BY SMTT(20)
  <2>. QED  BY <2>1, <2>2, Zenon
<1>7. Words(f) \o Words(rest) = Words(response)
  BY <1>1, <1>2 DEF NothingLost
<1>8. Words(FlattenSeq(chunks')) \o Words(rest') = Words(response')
  BY <1>3, <1>4, <1>6, <1>7, Zenon
<1>9. chunks' \in Seq(Seq(Char)) /\ Len(chunks') = Len(chunks) + 1
      /\ chunks'[Len(chunks) + 1] = c /\ \A i \in 1..Len(chunks) : chunks'[i] = chunks[i]
  BY <1>1, AppendProperties
<1>10. \A i \in DOMAIN chunks : Sendable(chunks[i]) /\ PartOfResponse(chunks[i])
  BY <1>1 DEF NothingLost, PartOfResponse
<1>11. \A i \in DOMAIN chunks' : Sendable(chunks'[i]) /\ PartOfResponse(chunks'[i])
  <2>. SUFFICES ASSUME NEW i \in DOMAIN chunks'
                PROVE  Sendable(chunks'[i]) /\ PartOfResponse(chunks'[i])
    OBVIOUS
  <2>1. i \in 1..Len(chunks) \/ i = Len(chunks) + 1
    BY <1>1, <1>9, LenProperties
  <2>2. CASE i \in 1..Len(chunks)
    <3>1. i \in DOMAIN chunks /\ chunks'[i] = chunks[i]
      BY <1>1, <1>9, <2>2, LenProperties
    <3>. QED  BY <1>10, <3>1
  <2>3. CASE i = Len(chunks) + 1
    BY <1>9, <2>3
  <2>. QED  BY <2>1, <2>2, <2>3
<1>12. NothingLost'
  <2>1. \A i \in DOMAIN chunks' :
          /\ Sendable(chunks'[i])
          /\ \E k \in 0..Len(response') - Len(chunks'[i]) :
               SubSeq(response', k + 1, k + Len(chunks'[i])) = chunks'[i]
    BY <1>11 DEF PartOfResponse
  <2>. QED  BY <1>8, <2>1 DEF NothingLost, Sendable
<1>. QED  BY <1>9, <1>12

LEMMA StartOfRest ==
  ASSUME NEW s \in Seq(Char), NEW k \in 0..Len(s), NEW t, t = SubSeq(s, k + 1, Len(s)),
         NEW j \in 1..Len(t), NEW c, c = SubSeq(t, 1, j)
  PROVE  /\ Len(c) = j /\ k \in 0..Len(s) - j
         /\ SubSeq(s, k + 1, k + j) = c
<1>1. t \in Seq(Char) /\ Len(t) = Len(s) - k /\ Len(s) \in Nat
  BY Halves
<1>2. Len(c) = j
  <2>1. j \in 0..Len(t)
    BY <1>1
  <2>. QED  BY <1>1, <2>1, Halves
<1>3. /\ k \in 0..(Len(s) - 1) /\ Len(s) \in (k + 1)..Len(s)
      /\ 0 \in 0..(Len(s) - k - 1) /\ j \in (0 + 1)..(Len(s) - k)
  BY <1>1
<1>4. SubSeq(SubSeq(s, k + 1, Len(s)), 0 + 1, j) = SubSeq(s, k + 0 + 1, k + j)
  BY <1>3, PartOfPart
<1>5. 0 + 1 = 1 /\ k + 0 + 1 = k + 1
  OBVIOUS
<1>6. SubSeq(t, 1, j) = SubSeq(s, k + 1, k + j)
  BY <1>4, <1>5, Zenon
<1>. QED  BY <1>1, <1>2, <1>3, <1>6

LEMMA EndOfRest ==
  ASSUME NEW s \in Seq(Char), NEW t, NEW c, IsEnd(t, s), IsEnd(c, t), Len(c) > 0
  PROVE  IsEnd(c, s)
<1>0. PICK k \in 0..Len(s) : t = SubSeq(s, k + 1, Len(s))
  BY DEF IsEnd
<1>1. t \in Seq(Char) /\ Len(t) = Len(s) - k /\ Len(s) \in Nat
  BY <1>0, Halves
<1>2. PICK j \in 0..Len(t) : c = SubSeq(t, j + 1, Len(t))
  BY DEF IsEnd
<1>3. Len(c) = Len(t) - j
  <2>1. Len(SubSeq(t, j + 1, Len(t))) = Len(t) - j
    BY <1>1, Halves
  <2>. QED  BY <1>2, <2>1
<1>4. /\ k \in 0..(Len(s) - 1) /\ Len(s) \in (k + 1)..Len(s)
      /\ j \in 0..(Len(s) - k - 1) /\ Len(s) - k \in (j + 1)..(Len(s) - k)
  BY <1>1, <1>3
<1>5. SubSeq(SubSeq(s, k + 1, Len(s)), j + 1, Len(s) - k) = SubSeq(s, k + j + 1, k + (Len(s) - k))
  BY <1>4, PartOfPart
<1>6. k + (Len(s) - k) = Len(s) /\ k + j \in 0..Len(s)
  BY <1>1, <1>4
<1>7. c = SubSeq(s, k + j + 1, Len(s))
  BY <1>0, <1>1, <1>2, <1>5, <1>6
<1>. QED  BY <1>6, <1>7 DEF IsEnd

\* One step per action of the loop.
LEMMA SplitStep ==
  ASSUME SplitInv, Split
  PROVE  SplitInv' /\ Len(rest') < Len(rest)
<1>1. response \in Seq(Char) /\ rest \in Seq(Char) /\ chunks \in Seq(Seq(Char)) /\ NothingLost
  BY DEF SplitInv
<1>2. CASE Cut
  <2>1. PICK c : c = TrimEnd(SubSeq(rest, 1, CutAt(rest)))
    OBVIOUS
  <2>2. PICK left : left = TrimStart(SubSeq(rest, CutAt(rest) + 1, Len(rest)))
    OBVIOUS
  <2>3. /\ Bytes(rest) > MaxBytes /\ chunks' = Append(chunks, c) /\ rest' = left
        /\ response' = response
    BY <1>2, <2>1, <2>2 DEF Cut
  <2>4. rest # Nil
    <3>1. Bytes(Nil) = 0
      BY NilIsASeq, OnlyEmpty DEF Bytes
    <3>. QED  BY <2>3, <3>1, BytesAssumption
  <2>5. Trimmed(rest)
    BY <2>4 DEF SplitInv
  <2>6. PICK k \in 0..Len(response) : rest = SubSeq(response, k + 1, Len(response))
    BY <2>4 DEF SplitInv, IsEnd
  <2>7. Parts(rest, c, left)
    <3>1. rest \in Seq(Char) /\ Bytes(rest) > MaxBytes
      BY <1>1, <2>3
    <3>. QED  BY <2>1, <2>2, <2>5, <3>1, CutSound
  <2>8. PICK j \in 1..Len(rest) : c = SubSeq(rest, 1, j)
    BY <2>7 DEF Parts
  <2>9. PICK m \in 1..Len(rest) : left = SubSeq(rest, m + 1, Len(rest)) /\ Len(left) = Len(rest) - m
    BY <2>7 DEF Parts
  <2>10. PartOfResponse(c)
    <3>1. /\ Len(c) = j /\ k \in 0..Len(response) - j
          /\ SubSeq(response, k + 1, k + j) = c
      BY <1>1, <2>6, <2>8, StartOfRest
    <3>. QED  BY <3>1 DEF PartOfResponse
  <2>11. IsEnd(left, response)
    <3>1. Len(left) > 0
      BY <2>7 DEF Trimmed, Parts
    <3>2. IsEnd(left, rest)
      BY <2>9 DEF IsEnd
    <3>3. IsEnd(rest, response)
      BY <2>4 DEF SplitInv
    <3>. QED  BY <1>1, <3>1, <3>2, <3>3, EndOfRest
  <2>12. Sendable(c)
    BY <2>7 DEF Sendable, Nil, Parts
  <2>13. NothingLost' /\ chunks' \in Seq(Seq(Char))
    BY <2>3, <2>7, <2>10, <2>12, ChunkAdded DEF Parts
  <2>14. SplitInv'
    BY <1>1, <2>3, <2>7, <2>11, <2>13 DEF SplitInv, Trimmed, Parts, IsEnd
  <2>15. Len(rest') < Len(rest)
    <3>1. Len(rest) \in Nat
      BY <1>1
    <3>. QED  BY <2>3, <2>9, <3>1
  <2>. QED  BY <2>14, <2>15
<1>3. CASE LastChunk
  <2>1. /\ rest # Nil /\ Bytes(rest) <= MaxBytes /\ chunks' = Append(chunks, rest) /\ rest' = Nil
        /\ response' = response
    BY <1>3 DEF LastChunk, Nil
  <2>2. Trimmed(rest)
    BY <2>1 DEF SplitInv
  <2>3. PICK k \in 0..Len(response) : rest = SubSeq(response, k + 1, Len(response))
    BY <2>1 DEF SplitInv, IsEnd
  <2>4. Len(rest) \in 1..Len(rest) /\ rest[1] \in Char \ Space
    <3>1. Len(rest) \in Nat /\ Len(rest) > 0
      BY <1>1, <2>2 DEF Trimmed
    <3>2. rest[1] \in Char
      BY <1>1, <3>1, ElementOfSeq
    <3>. QED  BY <2>2, <3>1, <3>2 DEF Trimmed
  <2>5. Sendable(rest)
    <3>1. 1 \in 1..Len(rest)
      BY <2>4
    <3>2. Words(rest) # Nil
      BY <1>1, <2>4, <3>1, OnlySome DEF Words
    <3>. QED  BY <2>1, <3>2 DEF Sendable, Nil
  <2>6. PartOfResponse(rest)
    <3>0. rest = SubSeq(rest, 1, Len(rest))
      BY <1>1, SubSeqFull
    <3>1. /\ k \in 0..Len(response) - Len(rest)
          /\ SubSeq(response, k + 1, k + Len(rest)) = rest
      BY <1>1, <2>3, <2>4, <3>0, StartOfRest
    <3>. QED  BY <3>1 DEF PartOfResponse
  <2>7. Words(rest) = Words(rest) \o Words(Nil) /\ Nil \in Seq(Char)
    <3>1. Words(Nil) = Nil /\ Words(rest) \in Seq(Char)
      BY <1>1, OnlyEmpty, OnlyType DEF Words
    <3>. QED  BY <3>1, ConcatNil, NilIsASeq
  <2>8. NothingLost' /\ chunks' \in Seq(Seq(Char))
    BY <1>1, <2>1, <2>5, <2>6, <2>7, ChunkAdded
  <2>9. SplitInv'
    BY <1>1, <2>1, <2>7, <2>8 DEF SplitInv, Trimmed, IsEnd
  <2>. QED  BY <2>1, <2>4, <2>9, NilIsASeq
<1>. QED  BY <1>2, <1>3 DEF Split

LEMMA SplitNext ==
  ASSUME SplitInv, [Next]_vars
  PROVE  SplitInv' /\ (Split => Len(rest') < Len(rest))
<1>1. CASE UNCHANGED chunkVars
  <2>1. response' = response /\ rest' = rest /\ chunks' = chunks
    BY <1>1 DEF chunkVars
  <2>2. SplitInv'
    BY <2>1 DEF SplitInv, IsEnd, Trimmed, NothingLost, Sendable
  <2>3. Split => Len(rest') < Len(rest)
    BY SplitStep
  <2>. QED  BY <2>2, <2>3
<1>2. CASE Split
  BY <1>2, SplitStep
<1>. QED  BY <1>1, <1>2 DEF Next, vars

\* A response of any length loses no word to the splitting, and each of its chunks is
\* one that Telegram takes, at any time.
THEOREM SplittingLosesNothing == Spec => []NothingLost
<1>1. SplitInv => NothingLost
  BY DEF SplitInv
<1>2. SplitInv /\ [Next]_vars => SplitInv'
  BY SplitNext
<1>. QED  BY <1>1, <1>2, SplitStart, PTL DEF Spec

\* Every turn of the loop leaves less of the response than it found.
THEOREM SplittingGetsOn == Spec => [][Split => Len(rest') < Len(rest)]_vars
<1>1. SplitInv /\ [Next]_vars => SplitInv'
  BY SplitNext
<1>2. SplitInv /\ [Next]_vars => [Split => Len(rest') < Len(rest)]_vars
  BY SplitNext
<1>. QED  BY <1>1, <1>2, SplitStart, PTL DEF Spec

-----------------------------------------------------------------------------
(* How often an element is in a sequence *)

\* How often e is in s.
Places(s, e) == {k \in DOMAIN s : s[k] = e}
Count(s, e) == Cardinality(Places(s, e))

LEMMA PlacesFinite ==
  ASSUME NEW S, NEW s \in Seq(S), NEW e
  PROVE  IsFiniteSet(Places(s, e)) /\ Count(s, e) \in Nat
<1>1. DOMAIN s = 1..Len(s) /\ Len(s) \in Nat
  BY LenProperties
<1>2. IsFiniteSet(1..Len(s))
  BY <1>1, FS_Interval
<1>3. Places(s, e) \in SUBSET (1..Len(s))
  BY <1>1 DEF Places
<1>4. IsFiniteSet(Places(s, e))
  BY <1>2, <1>3, FS_Subset
<1>. QED  BY <1>4, FS_CardinalityType DEF Count

LEMMA CountNil ==
  ASSUME NEW e
  PROVE  Count(Nil, e) = 0
<1>1. Places(Nil, e) = {}
  BY DEF Places, Nil
<1>. QED  BY <1>1, FS_EmptySet DEF Count

\* Counts, of an appended element, of two sequences, of what Only keeps.
LEMMA CountAppend ==
  ASSUME NEW S, NEW s \in Seq(S), NEW x \in S, NEW e
  PROVE  Count(Append(s, x), e) = IF x = e THEN Count(s, e) + 1 ELSE Count(s, e)
<1>1. PICK t : t = Append(s, x)
  OBVIOUS
<1>2. /\ t \in Seq(S) /\ Len(t) = Len(s) + 1 /\ t[Len(s) + 1] = x /\ Len(s) \in Nat
      /\ \A i \in 1..Len(s) : t[i] = s[i]
  BY <1>1, AppendProperties
<1>3. DOMAIN s = 1..Len(s) /\ DOMAIN t = 1..(Len(s) + 1)
  BY <1>2, LenProperties
<1>4. CASE x = e
  <2>1. Places(t, e) = Places(s, e) \cup {Len(s) + 1}
    BY <1>2, <1>3, <1>4 DEF Places
  <2>2. Len(s) + 1 \notin Places(s, e)
    BY <1>2, <1>3 DEF Places
  <2>3. Cardinality(Places(s, e) \cup {Len(s) + 1}) = Cardinality(Places(s, e)) + 1
    BY <2>2, PlacesFinite, FS_AddElement
  <2>. QED  BY <1>1, <1>4, <2>1, <2>3 DEF Count
<1>5. CASE x # e
  <2>1. Places(t, e) = Places(s, e)
    BY <1>2, <1>3, <1>5 DEF Places
  <2>. QED  BY <1>1, <1>5, <2>1 DEF Count
<1>. QED  BY <1>4, <1>5

LEMMA CountConcat ==
  ASSUME NEW S, NEW s \in Seq(S), NEW t \in Seq(S), NEW e
  PROVE  Count(s \o t, e) = Count(s, e) + Count(t, e)
<1>1. PICK P : P = {u \in Seq(S) : Count(s \o u, e) = Count(s, e) + Count(u, e)}
  OBVIOUS
<1>2. Nil \in P
  <2>1. s \o Nil = s /\ Nil \in Seq(S)
    BY ConcatNil, NilIsASeq
  <2>2. Count(Nil, e) = 0 /\ Count(s, e) \in Nat
    BY CountNil, PlacesFinite
  <2>3. Count(s \o Nil, e) = Count(s, e) + Count(Nil, e)
    BY <2>1, <2>2
  <2>. QED  BY <1>1, <2>1, <2>3
<1>3. ASSUME NEW u \in Seq(S), NEW x \in S, u \in P PROVE Append(u, x) \in P
  <2>1. s \o u \in Seq(S) /\ Append(u, x) \in Seq(S) /\ s \o Append(u, x) = Append(s \o u, x)
    BY ConcatAppend
  <2>2. PICK c \in Nat, d \in Nat, b \in Nat :
          c = Count(s \o u, e) /\ d = Count(s, e) /\ b = Count(u, e)
    BY <2>1, PlacesFinite
  <2>3. c = d + b
    BY <1>1, <1>3, <2>2
  <2>4. Count(Append(s \o u, x), e) = IF x = e THEN c + 1 ELSE c
    <3>1. PICK z \in Seq(S) : z = s \o u
      BY <2>1
    <3>2. Count(Append(z, x), e) = IF x = e THEN Count(z, e) + 1 ELSE Count(z, e)
      BY CountAppend
    <3>. QED  BY <2>2, <3>1, <3>2
  <2>5. Count(Append(u, x), e) = IF x = e THEN b + 1 ELSE b
    BY <2>2, CountAppend
  <2>6. Count(Append(s \o u, x), e) = d + Count(Append(u, x), e)
    BY <2>3, <2>4, <2>5
  <2>. QED  BY <1>1, <2>1, <2>2, <2>6
<1>4. t \in P
  BY <1>2, <1>3, SeqInduction
<1>. QED  BY <1>1, <1>4

LEMMA CountOnly ==
  ASSUME NEW S, NEW s \in Seq(S), NEW T, NEW e \in T
  PROVE  Count(Only(s, T), e) = Count(s, e)
<1>1. PICK P : P = {u \in Seq(S) : Count(Only(u, T), e) = Count(u, e)}
  OBVIOUS
<1>2. Nil \in P
  BY <1>1, NilIsASeq, OnlyEmpty
<1>3. ASSUME NEW u \in Seq(S), NEW x \in S, u \in P PROVE Append(u, x) \in P
  <2>1. PICK w \in Seq(S) : w = Only(u, T)
    BY OnlyType
  <2>2. Count(w, e) = Count(u, e)
    BY <1>1, <1>3, <2>1
  <2>3. Only(Append(u, x), T) = IF x \in T THEN Append(w, x) ELSE w
    BY <2>1, OnlyAppend
  <2>4. Count(Append(w, x), e) = IF x = e THEN Count(w, e) + 1 ELSE Count(w, e)
    BY CountAppend
  <2>5. Count(Append(u, x), e) = IF x = e THEN Count(u, e) + 1 ELSE Count(u, e)
    BY CountAppend
  <2>6. Append(u, x) \in Seq(S)
    BY AppendProperties
  <2>7. CASE x \in T
    <3>1. Count(Only(Append(u, x), T), e) = Count(Append(w, x), e)
      BY <2>3, <2>7
    <3>2. Count(Append(w, x), e) = Count(Append(u, x), e)
      BY <2>2, <2>4, <2>5
    <3>. QED  BY <1>1, <2>6, <3>1, <3>2
  <2>8. CASE x \notin T
    <3>1. Count(Only(Append(u, x), T), e) = Count(w, e)
      BY <2>3, <2>8
    <3>2. x # e
      BY <2>8
    <3>3. Count(w, e) = Count(Append(u, x), e)
      BY <2>2, <2>5, <3>2
    <3>. QED  BY <1>1, <2>6, <3>1, <3>3
  <2>. QED  BY <2>7, <2>8
<1>4. s \in P
  BY <1>2, <1>3, SeqInduction
<1>. QED  BY <1>1, <1>4

LEMMA OnlyIn ==
  ASSUME NEW S, NEW s \in Seq(S), NEW T
  PROVE  Only(s, T) \in Seq(S \cap T)
<1>1. PICK P : P = {u \in Seq(S) : Only(u, T) \in Seq(S \cap T)}
  OBVIOUS
<1>2. Nil \in P
  BY <1>1, NilIsASeq, OnlyEmpty
<1>3. ASSUME NEW u \in Seq(S), NEW x \in S, u \in P PROVE Append(u, x) \in P
  <2>1. PICK w \in Seq(S \cap T) : w = Only(u, T)
    BY <1>1, <1>3
  <2>2. Only(Append(u, x), T) = IF x \in T THEN Append(w, x) ELSE w
    BY <2>1, OnlyAppend
  <2>3. x \in T => Append(w, x) \in Seq(S \cap T)
    BY AppendProperties
  <2>4. Append(u, x) \in Seq(S)
    BY AppendProperties
  <2>. QED  BY <1>1, <2>2, <2>3, <2>4
<1>4. s \in P
  BY <1>2, <1>3, SeqInduction
<1>. QED  BY <1>1, <1>4

Mapped(f, s) == [i \in DOMAIN s |-> f[s[i]]]
OnlyAt(f, S, v, w) == \A x \in S : f[x] = w <=> x = v

LEMMA CountMapped ==
  ASSUME NEW S, NEW s \in Seq(S), NEW f, NEW v, NEW w, OnlyAt(f, S, v, w)
  PROVE  Count(Mapped(f, s), w) = Count(s, v)
<1>1. \A k \in DOMAIN s : s[k] \in S
  BY ElementOfSeq, LenProperties
<1>2. Places(Mapped(f, s), w) = Places(s, v)
  BY <1>1 DEF Places, Mapped, OnlyAt
<1>. QED  BY <1>2 DEF Count

-----------------------------------------------------------------------------
(* The scan of a text for numbers *)

Values == {Value(r) : r \in Seq(Digit)}
States == [numbers : Seq(Values), run : Seq(Digit)]
Start == [numbers |-> Nil, run |-> Nil]

LEMMA ReadType ==
  ASSUME NEW st \in States, NEW c
  PROVE  Read(st, c) \in States
<1>1. st.numbers \in Seq(Values) /\ st.run \in Seq(Digit)
  BY DEF States
<1>2. CASE c \in Digit
  <2>1. Append(st.run, c) \in Seq(Digit)
    BY <1>1, <1>2, AppendProperties
  <2>. QED  BY <1>2, <2>1 DEF Read, States
<1>3. CASE c \notin Digit /\ st.run = Nil
  BY <1>3 DEF Read, Nil
<1>4. CASE c \notin Digit /\ st.run # Nil
  <2>1. Value(st.run) \in Values
    BY <1>1 DEF Values
  <2>2. Append(st.numbers, Value(st.run)) \in Seq(Values) /\ Nil \in Seq(Digit)
    BY <1>1, <2>1, AppendProperties, NilIsASeq
  <2>3. Read(st, c) = [numbers |-> Append(st.numbers, Value(st.run)), run |-> Nil]
    BY <1>4 DEF Read, Nil
  <2>. QED  BY <2>2, <2>3 DEF States
<1>. QED  BY <1>2, <1>3, <1>4

IsScan(t, f) ==
  f = [n \in 0..Len(t) |->
         IF n = 0 THEN [numbers |-> <<>>, run |-> <<>>] ELSE Read(f[n - 1], t[n])]

ScanSteps(t) ==
  {x \in (1..Len(t)) \X States \X States : x[3] = Read(x[2], t[x[1]])}

\* Scan is what its recursive definition says.
LEMMA ScanExists ==
  ASSUME NEW t \in Seq(Char)
  PROVE  \E f : IsScan(t, f) /\ Scan(t) = f[Len(t)] /\ f \in [0..Len(t) -> States]
<1>1. ASSUME NEW n \in 1..Len(t), NEW q \in States
      PROVE  \E r \in States : <<n, q, r>> \in ScanSteps(t)
  <2>1. Read(q, t[n]) \in States
    BY ReadType
  <2>. QED  BY <2>1 DEF ScanSteps
<1>2. Steps(Len(t), States, Start, ScanSteps(t))
  <2>1. Len(t) \in Nat /\ Start \in States
    BY NilIsASeq DEF Start, States
  <2>. QED  BY <1>1, <2>1, Zenon DEF Steps
<1>3. PICK f : IsPath(Len(t), States, Start, ScanSteps(t), f)
  BY <1>2, PathExists
<1>4. ASSUME NEW n \in 0..Len(t)
      PROVE  f[n] = IF n = 0 THEN Start ELSE Read(f[n - 1], t[n])
  <2>1. CASE n = 0
    BY <1>3, <2>1 DEF IsPath
  <2>2. CASE n # 0
    <3>1. n \in 1..Len(t)
      BY <2>2
    <3>2. <<n, f[n - 1], f[n]>> \in ScanSteps(t)
      BY <1>3, <3>1 DEF IsPath
    <3>. QED  BY <2>2, <3>2 DEF ScanSteps
  <2>. QED  BY <2>1, <2>2
<1>5. f \in [0..Len(t) -> States]
  BY <1>3 DEF IsPath
<1>6. IsScan(t, f)
  BY <1>4, <1>5 DEF IsScan, Start, Nil
<1>7. \E g : IsScan(t, g) /\ Scan(t) = g[Len(t)]
  BY <1>6 DEF IsScan, Scan
<1>8. PICK g : IsScan(t, g) /\ Scan(t) = g[Len(t)]
  BY <1>7
<1>9. \A n \in 0..Len(t) : f[n] = g[n]
  <2>1. f[0] = g[0] /\ Len(t) \in Nat
    BY <1>6, <1>8 DEF IsScan
  <2>2. ASSUME NEW n \in 1..Len(t), f[n - 1] = g[n - 1] PROVE f[n] = g[n]
    <3>1. n \in 0..Len(t) /\ n # 0
      OBVIOUS
    <3>. QED  BY <1>6, <1>8, <2>2, <3>1 DEF IsScan
  <2>. QED  BY <2>1, <2>2, SameAlong, ZenonT(40)
<1>10. f[Len(t)] = g[Len(t)]
  <2>1. Len(t) \in 0..Len(t)
    OBVIOUS
  <2>. QED  BY <1>9, <2>1
<1>. QED  BY <1>5, <1>6, <1>8, <1>10

LEMMA ScanNil == Scan(Nil) = Start
<1>1. PICK f : IsScan(Nil, f) /\ Scan(Nil) = f[Len(Nil)]
  BY NilIsASeq, ScanExists
<1>2. f[0] = Start
  BY <1>1, NilIsASeq DEF IsScan, Start, Nil
<1>. QED  BY <1>1, <1>2, NilIsASeq

LEMMA ScanType ==
  ASSUME NEW t \in Seq(Char)
  PROVE  Scan(t) \in States
<1>1. PICK f : Scan(t) = f[Len(t)] /\ f \in [0..Len(t) -> States]
  BY ScanExists
<1>2. Len(t) \in 0..Len(t)
  OBVIOUS
<1>. QED  BY <1>1, <1>2

LEMMA ScanAppend ==
  ASSUME NEW s \in Seq(Char), NEW c \in Char
  PROVE  Scan(Append(s, c)) = Read(Scan(s), c)
<1>1. PICK t : t = Append(s, c)
  OBVIOUS
<1>2. /\ t \in Seq(Char) /\ Len(t) = Len(s) + 1 /\ t[Len(s) + 1] = c
      /\ \A i \in 1..Len(s) : t[i] = s[i]
  BY <1>1, AppendProperties
<1>3. PICK f : IsScan(s, f) /\ Scan(s) = f[Len(s)]
  BY ScanExists
<1>4. PICK g : IsScan(t, g) /\ Scan(t) = g[Len(t)]
  BY <1>2, ScanExists
<1>5. \A n \in 0..Len(s) : f[n] = g[n]
  <2>1. f[0] = g[0] /\ Len(s) \in Nat
    BY <1>2, <1>3, <1>4 DEF IsScan
  <2>2. ASSUME NEW n \in 1..Len(s), f[n - 1] = g[n - 1] PROVE f[n] = g[n]
    <3>1. n \in 0..Len(s) /\ n \in 0..Len(t) /\ n # 0 /\ t[n] = s[n]
      BY <1>2
    <3>. QED  BY <1>3, <1>4, <2>2, <3>1 DEF IsScan
  <2>. QED  BY <2>1, <2>2, SameAlong, ZenonT(40)
<1>6. g[Len(t)] = Read(g[Len(s)], c)
  <2>1. Len(t) \in 0..Len(t) /\ Len(t) # 0 /\ Len(t) - 1 = Len(s) /\ t[Len(t)] = c
    BY <1>2
  <2>. QED  BY <1>4, <2>1 DEF IsScan
<1>7. f[Len(s)] = g[Len(s)]
  <2>1. Len(s) \in 0..Len(s)
    OBVIOUS
  <2>. QED  BY <1>5, <2>1
<1>. QED  BY <1>1, <1>3, <1>4, <1>6, <1>7

\* What ends a number is of no account.
LEMMA AnyEnd ==
  ASSUME NEW t \in Seq(Char), NEW c \in Char \ Digit
  PROVE  Scan(Append(t, c)) = [numbers |-> Numbers(t), run |-> Nil]
<1>1. Blank \in Char /\ Blank \notin Digit /\ c \in Char /\ c \notin Digit
  BY DEF Blank, Char, Digit, Break
<1>2. PICK st \in States : st = Scan(t)
  BY ScanType
<1>3. Read(st, c) = Read(st, Blank)
  BY <1>1 DEF Read
<1>4. Read(st, c).run = Nil
  BY <1>1 DEF Read, Nil
<1>5. Scan(Append(t, c)) = Read(st, c) /\ Scan(Append(t, Blank)) = Read(st, Blank)
  BY <1>1, <1>2, ScanAppend
<1>6. Numbers(t) = Read(st, c).numbers
  BY <1>3, <1>5 DEF Numbers
<1>7. Read(st, c) \in States
  BY ReadType
<1>8. Read(st, c) = [numbers |-> Read(st, c).numbers, run |-> Read(st, c).run]
  BY <1>7 DEF States
<1>. QED  BY <1>4, <1>5, <1>6, <1>8

LEMMA NumbersType ==
  ASSUME NEW t \in Seq(Char)
  PROVE  Numbers(t) \in Seq(Values)
<1>1. Append(t, Blank) \in Seq(Char)
  BY AppendProperties DEF Blank, Char, Break
<1>2. Scan(Append(t, Blank)) \in States
  BY <1>1, ScanType
<1>. QED  BY <1>2 DEF Numbers, States

LEMMA NumbersNil == Numbers(Nil) = Nil
<1>1. Blank \in Char /\ Blank \notin Digit
  BY DEF Blank, Char, Digit, Break
<1>2. Scan(Append(Nil, Blank)) = Read(Start, Blank)
  BY <1>1, NilIsASeq, ScanAppend, ScanNil
<1>3. Read(Start, Blank) = Start
  BY <1>1 DEF Read, Start, Nil
<1>. QED  BY <1>2, <1>3 DEF Numbers, Start

After(s, t) == [numbers |-> Scan(s).numbers \o Scan(t).numbers, run |-> Scan(t).run]

\* A scan that is between two numbers goes on as if it began.
LEMMA ScanOn ==
  ASSUME NEW s \in Seq(Char), Scan(s).run = Nil, NEW t \in Seq(Char)
  PROVE  Scan(s \o t) = After(s, t)
<1>0. PICK ns \in Seq(Values) : ns = Scan(s).numbers /\ Scan(s) = [numbers |-> ns, run |-> Nil]
  BY ScanType DEF States
<1>1. PICK P : P = {u \in Seq(Char) : Scan(s \o u) = After(s, u)}
  OBVIOUS
<1>2. Nil \in P
  <2>1. s \o Nil = s /\ Nil \in Seq(Char)
    BY ConcatNil, NilIsASeq
  <2>2. Scan(Nil).numbers = Nil /\ Scan(Nil).run = Nil
    BY ScanNil DEF Start
  <2>3. ns \o Nil = ns
    BY ConcatNil
  <2>4. After(s, Nil) = Scan(s)
    BY <1>0, <2>2, <2>3 DEF After
  <2>. QED  BY <1>1, <2>1, <2>4
<1>3. ASSUME NEW u \in Seq(Char), NEW c \in Char, u \in P PROVE Append(u, c) \in P
  <2>1. s \o u \in Seq(Char) /\ Append(u, c) \in Seq(Char) /\ s \o Append(u, c) = Append(s \o u, c)
    BY ConcatAppend
  <2>2. PICK ms \in Seq(Values), r \in Seq(Digit) : Scan(u) = [numbers |-> ms, run |-> r]
    BY ScanType DEF States
  <2>3. Scan(s \o u) = [numbers |-> ns \o ms, run |-> r]
    BY <1>0, <1>1, <1>3, <2>2 DEF After
  <2>4. Scan(Append(s \o u, c)) = Read([numbers |-> ns \o ms, run |-> r], c)
    <3>1. PICK z \in Seq(Char) : z = s \o u
      BY <2>1
    <3>2. Scan(Append(z, c)) = Read(Scan(z), c)
      BY ScanAppend
    <3>. QED  BY <2>3, <3>1, <3>2
  <2>5. Scan(Append(u, c)) = Read([numbers |-> ms, run |-> r], c)
    BY <2>2, ScanAppend
  <2>6. CASE c \in Digit \/ r = Nil
    <3>1. PICK q : q = IF c \in Digit THEN Append(r, c) ELSE r
      OBVIOUS
    <3>2. /\ Scan(Append(u, c)) = [numbers |-> ms, run |-> q]
          /\ Scan(Append(s \o u, c)) = [numbers |-> ns \o ms, run |-> q]
      BY <2>4, <2>5, <2>6, <3>1 DEF Read, Nil
    <3>3. Scan(Append(s \o u, c)) = After(s, Append(u, c))
      BY <1>0, <3>2 DEF After
    <3>. QED  BY <1>1, <2>1, <3>3
  <2>7. CASE c \notin Digit /\ r # Nil
    <3>1. PICK v : v = Value(r)
      OBVIOUS
    <3>2. /\ Scan(Append(u, c)) = [numbers |-> Append(ms, v), run |-> Nil]
          /\ Scan(Append(s \o u, c)) = [numbers |-> Append(ns \o ms, v), run |-> Nil]
      BY <2>4, <2>5, <2>7, <3>1 DEF Read, Nil
    <3>3. v \in Values
      BY <3>1 DEF Values
    <3>4. Append(ns \o ms, v) = ns \o Append(ms, v)
      <4>1. PICK x \in Values : x = v
        BY <3>3
      <4>2. ns \o Append(ms, x) = Append(ns \o ms, x)
        BY ConcatAppend
      <4>. QED  BY <4>1, <4>2
    <3>5. Scan(Append(s \o u, c)) = After(s, Append(u, c))
      BY <1>0, <3>2, <3>4 DEF After
    <3>. QED  BY <1>1, <2>1, <3>5
  <2>. QED  BY <2>6, <2>7
<1>4. t \in P
  BY <1>2, <1>3, SeqInduction
<1>. QED  BY <1>1, <1>4

\* A line break keeps the numbers of two texts apart.
LEMMA NumbersOfLines ==
  ASSUME NEW s \in Seq(Char), NEW t \in Seq(Char)
  PROVE  Numbers(s \o (<<Break>> \o t)) = Numbers(s) \o Numbers(t)
<1>1. Break \in Char \ Digit /\ Blank \in Char
  BY DEF Break, Blank, Char, Digit
<1>2. PICK u \in Seq(Char) : u = Append(s, Break)
  BY <1>1, AppendProperties
<1>3. Scan(u) = [numbers |-> Numbers(s), run |-> Nil]
  BY <1>1, <1>2, AnyEnd
<1>4. PICK w \in Seq(Char) : w = Append(t, Blank)
  BY <1>1, AppendProperties
<1>5. Scan(u \o w) = After(u, w)
  BY <1>3, ScanOn, SMTT(20)
<1>6. s \o (<<Break>> \o t) = u \o t
  <2>1. <<Break>> \in Seq(Char)
    BY <1>1
  <2>2. (s \o <<Break>>) \o t = s \o (<<Break>> \o t)
    BY <2>1
  <2>3. u = s \o <<Break>>
    BY <1>1, <1>2, AppendIsConcat
  <2>. QED  BY <2>2, <2>3
<1>7. u \o w = Append(u \o t, Blank)
  <2>1. u \o Append(t, Blank) = Append(u \o t, Blank)
    BY <1>1, ConcatAppend
  <2>. QED  BY <1>4, <2>1
<1>8. PICK z : z = u \o t
  OBVIOUS
<1>9. Scan(Append(z, Blank)) = After(u, w)
  BY <1>5, <1>7, <1>8, Zenon
<1>10. Numbers(z) = Scan(u).numbers \o Scan(w).numbers
  <2>1. Numbers(z) = After(u, w).numbers
    BY <1>9 DEF Numbers
  <2>2. After(u, w).numbers = Scan(u).numbers \o Scan(w).numbers
    BY DEF After
  <2>. QED  BY <2>1, <2>2
<1>11. Scan(u).numbers = Numbers(s)
  BY <1>3
<1>12. Scan(w).numbers = Numbers(t)
  BY <1>4 DEF Numbers
<1>. QED  BY <1>6, <1>8, <1>10, <1>11, <1>12, Zenon

-----------------------------------------------------------------------------
(* Where numbers stand in a text, and what the scan makes of them *)

\* From i to j in a text, digits, and no digit at either side.
IsNumber(t, i, j) ==
  /\ i \in 1..Len(t) /\ j \in 1..Len(t) /\ i <= j
  /\ \A k \in i..j : t[k] \in Digit
  /\ i = 1 \/ t[i - 1] \notin Digit
  /\ j = Len(t) \/ t[j + 1] \notin Digit

\* Of the places where v stands, those that do not touch the end of the text.
Ended(v, t) == {at \in Stands(v, t) : at[2] # Len(t)}

LEMMA StandsAre ==
  ASSUME NEW t \in Seq(Char), NEW v
  PROVE  /\ Stands(v, t) \in SUBSET ((1..Len(t)) \X (1..Len(t)))
         /\ IsFiniteSet(Stands(v, t)) /\ IsFiniteSet(Ended(v, t))
         /\ \A i, j : <<i, j>> \in Stands(v, t) <=>
                        IsNumber(t, i, j) /\ Value(SubSeq(t, i, j)) = v
<1>1. DOMAIN t = 1..Len(t) /\ Len(t) \in Nat
  BY LenProperties
<1>2. Stands(v, t) \in SUBSET ((1..Len(t)) \X (1..Len(t)))
  BY <1>1 DEF Stands
<1>3. IsFiniteSet((1..Len(t)) \X (1..Len(t)))
  <2>1. PICK I : I = 1..Len(t) /\ IsFiniteSet(I)
    BY <1>1, FS_Interval
  <2>2. IsFiniteSet(I \X I)
    BY <2>1, FS_Product
  <2>. QED  BY <2>1, <2>2
<1>4. IsFiniteSet(Stands(v, t))
  BY <1>2, <1>3, FS_Subset
<1>5. IsFiniteSet(Ended(v, t))
  BY <1>4, FS_Subset DEF Ended
<1>6. \A i, j : <<i, j>> \in Stands(v, t) <=>
                  IsNumber(t, i, j) /\ Value(SubSeq(t, i, j)) = v
  BY <1>1 DEF Stands, IsNumber
<1>. QED  BY <1>2, <1>4, <1>5, <1>6

LEMMA SamePart ==
  ASSUME NEW s \in Seq(Char), NEW c \in Char, NEW i \in 1..Len(s), NEW j \in 1..Len(s)
  PROVE  SubSeq(Append(s, c), i, j) = SubSeq(s, i, j)
<1>1. <<c>> \in Seq(Char)
  OBVIOUS
<1>2. SubSeq(s \o <<c>>, i, j) = SubSeq(s, i, j)
  BY <1>1, SubSeqOfConcat1
<1>3. Append(s, c) = s \o <<c>>
  BY AppendIsConcat
<1>. QED  BY <1>2, <1>3

\* A digit more leaves the numbers that have ended what they were; anything else ends
\* the one that touched the end.
LEMMA EndedAppend ==
  ASSUME NEW s \in Seq(Char), NEW c \in Char, NEW v
  PROVE  Ended(v, Append(s, c)) = IF c \in Digit THEN Ended(v, s) ELSE Stands(v, s)
<1>1. PICK t : t = Append(s, c)
  OBVIOUS
<1>2. /\ t \in Seq(Char) /\ Len(t) = Len(s) + 1 /\ t[Len(s) + 1] = c /\ Len(s) \in Nat
      /\ \A i \in 1..Len(s) : t[i] = s[i]
  BY <1>1, AppendProperties
<1>3. ASSUME NEW i \in 1..Len(s), NEW j \in 1..Len(s)
      PROVE  SubSeq(t, i, j) = SubSeq(s, i, j)
  BY <1>1, SamePart
<1>4. ASSUME NEW i \in 1..Len(s), NEW j \in 1..Len(s)
      PROVE  IsNumber(t, i, j) <=> IsNumber(s, i, j) /\ (c \in Digit => j # Len(s))
  <2>1. (\A k \in i..j : t[k] \in Digit) <=> (\A k \in i..j : s[k] \in Digit)
    BY <1>2
  <2>2. (i = 1 \/ t[i - 1] \notin Digit) <=> (i = 1 \/ s[i - 1] \notin Digit)
    <3>1. i # 1 => i - 1 \in 1..Len(s)
      BY <1>2
    <3>. QED  BY <1>2, <3>1
  <2>3. (j = Len(t) \/ t[j + 1] \notin Digit)
          <=> (j = Len(s) \/ s[j + 1] \notin Digit) /\ (c \in Digit => j # Len(s))
    <3>1. CASE j = Len(s)
      BY <1>2, <3>1
    <3>2. CASE j # Len(s)
      <4>1. j + 1 \in 1..Len(s) /\ j # Len(t)
        BY <1>2, <3>2
      <4>. QED  BY <1>2, <3>2, <4>1
    <3>. QED  BY <3>1, <3>2
  <2>4. i \in 1..Len(t) /\ j \in 1..Len(t)
    BY <1>2
  <2>. QED  BY <2>1, <2>2, <2>3, <2>4 DEF IsNumber
<1>5. ASSUME NEW i, NEW j
      PROVE  <<i, j>> \in Ended(v, t) <=>
               <<i, j>> \in Stands(v, s) /\ (c \in Digit => j # Len(s))
  <2>1. <<i, j>> \in Ended(v, t) <=>
          IsNumber(t, i, j) /\ Value(SubSeq(t, i, j)) = v /\ j # Len(t)
    <3>1. t \in Seq(Char)
      BY <1>2
    <3>2. <<i, j>> \in Stands(v, t) <=> IsNumber(t, i, j) /\ Value(SubSeq(t, i, j)) = v
      BY <3>1, StandsAre
    <3>. QED  BY <3>2 DEF Ended
  <2>2. <<i, j>> \in Stands(v, s) <=> IsNumber(s, i, j) /\ Value(SubSeq(s, i, j)) = v
    BY StandsAre
  <2>3. IsNumber(t, i, j) /\ j # Len(t) => i \in 1..Len(s) /\ j \in 1..Len(s)
    BY <1>2 DEF IsNumber
  <2>4. IsNumber(s, i, j) => i \in 1..Len(s) /\ j \in 1..Len(s) /\ j # Len(t)
    BY <1>2 DEF IsNumber
  <2>5. CASE i \in 1..Len(s) /\ j \in 1..Len(s)
    <3>1. SubSeq(t, i, j) = SubSeq(s, i, j)
      BY <1>3, <2>5
    <3>2. IsNumber(t, i, j) <=> IsNumber(s, i, j) /\ (c \in Digit => j # Len(s))
      BY <1>4, <2>5
    <3>3. j # Len(t)
      BY <1>2, <2>5
    <3>. QED  BY <2>1, <2>2, <3>1, <3>2, <3>3
  <2>6. CASE ~ (i \in 1..Len(s) /\ j \in 1..Len(s))
    BY <2>1, <2>2, <2>3, <2>4, <2>6
  <2>. QED  BY <2>5, <2>6
<1>6. Ended(v, t) \in SUBSET ((1..Len(t)) \X (1..Len(t)))
  BY <1>2, StandsAre DEF Ended
<1>7. Stands(v, s) \in SUBSET ((1..Len(s)) \X (1..Len(s)))
  BY StandsAre
<1>8. CASE c \in Digit
  <2>1. \A at \in Ended(v, t) : at \in Ended(v, s)
    BY <1>5, <1>6, <1>8 DEF Ended
  <2>2. \A at \in Ended(v, s) : at \in Ended(v, t)
    BY <1>5, <1>7, <1>8 DEF Ended
  <2>. QED  BY <1>1, <1>8, <2>1, <2>2
<1>9. CASE c \notin Digit
  <2>1. \A at \in Ended(v, t) : at \in Stands(v, s)
    BY <1>5, <1>6, <1>9
  <2>2. \A at \in Stands(v, s) : at \in Ended(v, t)
    BY <1>5, <1>7, <1>9
  <2>. QED  BY <1>1, <1>9, <2>1, <2>2
<1>. QED  BY <1>8, <1>9

\* r is the digits that a text ends in.
Trailing(t, r) ==
  /\ r \in Seq(Digit) /\ Len(r) <= Len(t)
  /\ \A k \in 1..Len(r) : t[Len(t) - Len(r) + k] = r[k]
  /\ Len(r) = Len(t) \/ t[Len(t) - Len(r)] \notin Digit

\* What a text ends in after one character more.
LEMMA TrailingAppend ==
  ASSUME NEW s \in Seq(Char), NEW c \in Char, NEW r, Trailing(s, r)
  PROVE  /\ c \in Digit => Trailing(Append(s, c), Append(r, c))
         /\ c \notin Digit => Trailing(Append(s, c), Nil)
<1>1. PICK t : t = Append(s, c)
  OBVIOUS
<1>2. /\ t \in Seq(Char) /\ Len(t) = Len(s) + 1 /\ t[Len(s) + 1] = c /\ Len(s) \in Nat
      /\ \A i \in 1..Len(s) : t[i] = s[i]
  BY <1>1, AppendProperties
<1>3. r \in Seq(Digit) /\ Len(r) \in Nat /\ Len(r) <= Len(s)
  BY DEF Trailing
<1>4. CASE c \in Digit
  <2>1. PICK q : q = Append(r, c)
    OBVIOUS
  <2>2. /\ q \in Seq(Digit) /\ Len(q) = Len(r) + 1 /\ q[Len(r) + 1] = c
        /\ \A i \in 1..Len(r) : q[i] = r[i]
    BY <1>3, <1>4, <2>1, AppendProperties
  <2>3. ASSUME NEW k \in 1..Len(q) PROVE t[Len(t) - Len(q) + k] = q[k]
    <3>1. Len(t) - Len(q) = Len(s) - Len(r)
      BY <1>2, <1>3, <2>2
    <3>2. CASE k \in 1..Len(r)
      <4>1. Len(s) - Len(r) + k \in 1..Len(s)
        BY <1>2, <1>3, <3>2
      <4>2. s[Len(s) - Len(r) + k] = r[k]
        BY <3>2 DEF Trailing
      <4>. QED  BY <1>2, <2>2, <3>1, <3>2, <4>1, <4>2
    <3>3. CASE k = Len(r) + 1
      <4>1. Len(s) - Len(r) + k = Len(s) + 1
        BY <1>2, <1>3, <3>3
      <4>. QED  BY <1>2, <2>2, <3>1, <3>3, <4>1
    <3>. QED  BY <1>3, <2>2, <3>2, <3>3
  <2>4. Len(q) = Len(t) \/ t[Len(t) - Len(q)] \notin Digit
    <3>1. CASE Len(r) = Len(s)
      BY <1>2, <2>2, <3>1
    <3>2. CASE Len(r) # Len(s)
      <4>1. Len(s) - Len(r) \in 1..Len(s) /\ Len(t) - Len(q) = Len(s) - Len(r)
        BY <1>2, <1>3, <2>2, <3>2
      <4>2. s[Len(s) - Len(r)] \notin Digit
        BY <3>2 DEF Trailing
      <4>. QED  BY <1>2, <4>1, <4>2
    <3>. QED  BY <3>1, <3>2
  <2>5. Len(q) <= Len(t)
    BY <1>2, <1>3, <2>2
  <2>. QED  BY <1>1, <1>4, <2>1, <2>2, <2>3, <2>4, <2>5 DEF Trailing
<1>5. CASE c \notin Digit
  <2>1. Nil \in Seq(Digit) /\ Len(Nil) = 0
    BY NilIsASeq
  <2>2. Len(t) - 0 = Len(s) + 1 /\ 0 <= Len(t)
    BY <1>2
  <2>3. t[Len(t) - 0] \notin Digit
    BY <1>2, <1>5, <2>2
  <2>. QED  BY <1>1, <1>5, <2>1, <2>2, <2>3 DEF Trailing
<1>. QED  BY <1>4, <1>5

\* The digits that a text ends in stand there as a number, and no other number touches
\* the end.
LEMMA StandsAtTheEnd ==
  ASSUME NEW t \in Seq(Char), NEW r, Trailing(t, r), NEW v
  PROVE  Stands(v, t) = IF r # Nil /\ Value(r) = v
                          THEN Ended(v, t) \cup {<<Len(t) - Len(r) + 1, Len(t)>>}
                        ELSE Ended(v, t)
<1>1. Len(t) \in Nat /\ r \in Seq(Digit) /\ Len(r) \in Nat /\ Len(r) <= Len(t)
  BY DEF Trailing
<1>2. PICK a : a = Len(t) - Len(r) + 1
  OBVIOUS
<1>3. a \in 1..(Len(t) + 1)
  BY <1>1, <1>2
<1>4. \A k \in a..Len(t) : t[k] \in Digit
  <2>. SUFFICES ASSUME NEW k \in a..Len(t) PROVE t[k] \in Digit
    OBVIOUS
  <2>1. PICK n \in 1..Len(r) : k = Len(t) - Len(r) + n
    <3>1. k - (Len(t) - Len(r)) \in 1..Len(r)
      BY <1>1, <1>2
    <3>2. k = Len(t) - Len(r) + (k - (Len(t) - Len(r)))
      BY <1>1, <1>2
    <3>. QED  BY <3>1, <3>2
  <2>2. r[n] \in Digit
    BY <1>1, ElementOfSeq
  <2>. QED  BY <2>1, <2>2 DEF Trailing
<1>5. a = 1 \/ t[a - 1] \notin Digit
  <2>1. Len(r) = Len(t) \/ t[Len(t) - Len(r)] \notin Digit
    BY DEF Trailing
  <2>2. a - 1 = Len(t) - Len(r)
    BY <1>1, <1>2
  <2>3. Len(r) = Len(t) => a = 1
    BY <1>1, <1>2
  <2>. QED  BY <2>1, <2>2, <2>3
<1>6. ASSUME NEW i, IsNumber(t, i, Len(t)) PROVE i = a
  <2>1. i \in 1..Len(t) /\ (\A k \in i..Len(t) : t[k] \in Digit) /\ (i = 1 \/ t[i - 1] \notin Digit)
    BY <1>6 DEF IsNumber
  <2>2. CASE i < a
    <3>1. a - 1 \in i..Len(t) /\ a # 1
      BY <1>1, <1>3, <2>1, <2>2
    <3>. QED  BY <1>5, <2>1, <3>1
  <2>3. CASE a < i
    <3>1. i - 1 \in a..Len(t) /\ i # 1
      BY <1>1, <1>3, <2>1, <2>3
    <3>. QED  BY <1>4, <2>1, <3>1
  <2>. QED  BY <1>3, <2>1, <2>2, <2>3
<1>7. CASE r = Nil
  <2>1. a = Len(t) + 1
    BY <1>1, <1>2, <1>7, NilIsASeq
  <2>2. ASSUME NEW at \in Stands(v, t) PROVE at \in Ended(v, t)
    <3>1. PICK i \in 1..Len(t), j \in 1..Len(t) : at = <<i, j>>
      BY StandsAre
    <3>2. IsNumber(t, i, j)
      BY <3>1, StandsAre
    <3>3. j # Len(t)
      BY <1>1, <1>6, <2>1, <3>2
    <3>. QED  BY <3>1, <3>3 DEF Ended
  <2>3. Stands(v, t) = Ended(v, t)
    BY <2>2 DEF Ended
  <2>. QED  BY <1>7, <2>3
<1>8. CASE r # Nil
  <2>1. Len(r) > 0
    BY <1>1, <1>8, EmptySeq DEF Nil
  <2>2. IsNumber(t, a, Len(t))
    <3>1. a \in 1..Len(t) /\ Len(t) \in 1..Len(t) /\ a <= Len(t)
      BY <1>1, <1>2, <2>1
    <3>. QED  BY <1>4, <1>5, <3>1 DEF IsNumber
  <2>3. SubSeq(t, a, Len(t)) = r
    <3>1. PICK p : p = SubSeq(t, a, Len(t))
      OBVIOUS
    <3>2. Len(t) - Len(r) \in 0..Len(t) /\ a = (Len(t) - Len(r)) + 1
          /\ Len(t) - (Len(t) - Len(r)) = Len(r)
      BY <1>1, <1>2
    <3>3. /\ p \in Seq(Char) /\ Len(p) = Len(r)
          /\ \A k \in 1..Len(r) : p[k] = t[(Len(t) - Len(r)) + k]
      BY <3>1, <3>2, Halves
    <3>4. \A k \in 1..Len(p) : p[k] = r[k]
      BY <3>3 DEF Trailing
    <3>5. r \in Seq(Char)
      BY <1>1, SeqMonotonic DEF Char, Digit, Break
    <3>6. p = r
      BY <3>3, <3>4, <3>5, SeqEqual
    <3>. QED  BY <3>1, <3>6
  <2>4. <<a, Len(t)>> \in Stands(v, t) <=> Value(r) = v
    <3>1. <<a, Len(t)>> \in Stands(v, t) <=>
            IsNumber(t, a, Len(t)) /\ Value(SubSeq(t, a, Len(t))) = v
      BY StandsAre
    <3>. QED  BY <2>2, <2>3, <3>1
  <2>5. ASSUME NEW at \in Stands(v, t), at \notin Ended(v, t) PROVE at = <<a, Len(t)>>
    <3>1. PICK i \in 1..Len(t), j \in 1..Len(t) : at = <<i, j>>
      BY StandsAre
    <3>2. IsNumber(t, i, j)
      BY <3>1, StandsAre
    <3>3. j = Len(t)
      BY <2>5, <3>1 DEF Ended
    <3>4. i = a
      BY <1>6, <3>2, <3>3
    <3>. QED  BY <3>1, <3>3, <3>4
  <2>6. Ended(v, t) \subseteq Stands(v, t)
    BY DEF Ended
  <2>7. CASE Value(r) = v
    <3>1. Stands(v, t) = Ended(v, t) \cup {<<a, Len(t)>>}
      BY <2>4, <2>5, <2>6, <2>7
    <3>. QED  BY <1>2, <1>8, <2>7, <3>1
  <2>8. CASE Value(r) # v
    <3>1. <<a, Len(t)>> \notin Stands(v, t)
      BY <2>4, <2>8
    <3>2. Stands(v, t) = Ended(v, t)
      BY <2>5, <2>6, <3>1
    <3>. QED  BY <2>8, <3>2
  <2>. QED  BY <2>7, <2>8
<1>. QED  BY <1>7, <1>8

\* What the scan of a text has found: its numbers that have ended, and the digits it
\* ends in.
Tallied(t) ==
  /\ Trailing(t, Scan(t).run)
  /\ \A v : Count(Scan(t).numbers, v) = Cardinality(Ended(v, t))

\* The scan has found every number that has ended, as often as it stands in the text.
LEMMA ScanTallies ==
  ASSUME NEW t \in Seq(Char)
  PROVE  Tallied(t)
<1>1. PICK P : P = {u \in Seq(Char) : Tallied(u)}
  OBVIOUS
<1>2. Nil \in P
  <2>1. Scan(Nil).run = Nil /\ Scan(Nil).numbers = Nil
    BY ScanNil DEF Start
  <2>2. Trailing(Nil, Nil)
    BY NilIsASeq DEF Trailing
  <2>3. ASSUME NEW v PROVE Count(Nil, v) = Cardinality(Ended(v, Nil))
    <3>1. Ended(v, Nil) = {}
      <4>0. Nil \in Seq(Char) /\ 1..Len(Nil) = {}
        BY NilIsASeq
      <4>1. Stands(v, Nil) \in SUBSET ((1..Len(Nil)) \X (1..Len(Nil)))
        BY <4>0, StandsAre
      <4>2. Stands(v, Nil) = {}
        BY <4>0, <4>1
      <4>. QED  BY <4>2 DEF Ended
    <3>. QED  BY <3>1, CountNil, FS_EmptySet
  <2>. QED  BY <1>1, <2>1, <2>2, <2>3, NilIsASeq DEF Tallied
<1>3. ASSUME NEW s \in Seq(Char), NEW c \in Char, s \in P PROVE Append(s, c) \in P
  <2>1. PICK ns \in Seq(Values), r \in Seq(Digit) : Scan(s) = [numbers |-> ns, run |-> r]
    BY ScanType DEF States
  <2>2. Scan(Append(s, c)) = Read([numbers |-> ns, run |-> r], c)
    BY <2>1, ScanAppend
  <2>3. Trailing(s, r) /\ \A v : Count(ns, v) = Cardinality(Ended(v, s))
    BY <1>1, <1>3, <2>1 DEF Tallied
  <2>4. /\ c \in Digit => Trailing(Append(s, c), Append(r, c))
        /\ c \notin Digit => Trailing(Append(s, c), Nil)
    BY <2>3, TrailingAppend
  <2>5. Append(s, c) \in Seq(Char)
    BY AppendProperties
  <2>6. CASE c \in Digit
    <3>1. Scan(Append(s, c)) = [numbers |-> ns, run |-> Append(r, c)]
      BY <2>2, <2>6 DEF Read
    <3>2. \A v : Ended(v, Append(s, c)) = Ended(v, s)
      BY <2>6, EndedAppend
    <3>3. Tallied(Append(s, c))
      BY <2>3, <2>4, <2>6, <3>1, <3>2 DEF Tallied
    <3>. QED  BY <1>1, <2>5, <3>3
  <2>7. CASE c \notin Digit /\ r = Nil
    <3>1. Scan(Append(s, c)) = [numbers |-> ns, run |-> Nil]
      BY <2>2, <2>7 DEF Read, Nil
    <3>2. ASSUME NEW v PROVE Ended(v, Append(s, c)) = Ended(v, s)
      <4>1. Ended(v, Append(s, c)) = Stands(v, s)
        BY <2>7, EndedAppend
      <4>2. Stands(v, s) = Ended(v, s)
        BY <2>3, <2>7, StandsAtTheEnd
      <4>. QED  BY <4>1, <4>2
    <3>3. Tallied(Append(s, c))
      BY <2>3, <2>4, <2>7, <3>1, <3>2 DEF Tallied
    <3>. QED  BY <1>1, <2>5, <3>3
  <2>8. CASE c \notin Digit /\ r # Nil
    <3>1. Scan(Append(s, c)) = [numbers |-> Append(ns, Value(r)), run |-> Nil]
      BY <2>2, <2>8 DEF Read, Nil
    <3>2. PICK x \in Values : x = Value(r)
      BY DEF Values
    <3>3. ASSUME NEW v PROVE Count(Append(ns, x), v) = Cardinality(Ended(v, Append(s, c)))
      <4>1. Ended(v, Append(s, c)) = Stands(v, s)
        BY <2>8, EndedAppend
      <4>2. Count(Append(ns, x), v) = IF x = v THEN Count(ns, v) + 1 ELSE Count(ns, v)
        BY CountAppend
      <4>3. CASE x = v
        <5>1. PICK at : at = <<Len(s) - Len(r) + 1, Len(s)>>
          OBVIOUS
        <5>2. Stands(v, s) = Ended(v, s) \cup {at}
          BY <2>3, <2>8, <3>2, <4>3, <5>1, StandsAtTheEnd
        <5>3. at \notin Ended(v, s)
          BY <5>1 DEF Ended
        <5>4. IsFiniteSet(Ended(v, s))
          BY StandsAre
        <5>5. Cardinality(Ended(v, s) \cup {at}) = Cardinality(Ended(v, s)) + 1
          BY <5>3, <5>4, FS_AddElement
        <5>. QED  BY <2>3, <4>1, <4>2, <4>3, <5>2, <5>5
      <4>4. CASE x # v
        <5>1. Stands(v, s) = Ended(v, s)
          BY <2>3, <3>2, <4>4, StandsAtTheEnd
        <5>. QED  BY <2>3, <4>1, <4>2, <4>4, <5>1
      <4>. QED  BY <4>3, <4>4
    <3>4. Tallied(Append(s, c))
      BY <2>4, <2>8, <3>1, <3>2, <3>3 DEF Tallied
    <3>. QED  BY <1>1, <2>5, <3>4
  <2>. QED  BY <2>6, <2>7, <2>8
<1>4. t \in P
  BY <1>2, <1>3, SeqInduction
<1>. QED  BY <1>1, <1>4

\* A number is found as often as it stands in the text.
LEMMA NumbersAreWhatStands ==
  ASSUME NEW t \in Seq(Char), NEW v
  PROVE  Count(Numbers(t), v) = Cardinality(Stands(v, t))
<1>1. Blank \in Char /\ Blank \notin Digit
  BY DEF Blank, Char, Digit, Break
<1>2. PICK u \in Seq(Char) : u = Append(t, Blank)
  BY <1>1, AppendProperties
<1>3. Count(Scan(u).numbers, v) = Cardinality(Ended(v, u))
  BY ScanTallies DEF Tallied
<1>4. Ended(v, u) = Stands(v, t)
  BY <1>1, <1>2, EndedAppend
<1>. QED  BY <1>2, <1>3, <1>4 DEF Numbers

-----------------------------------------------------------------------------
(* The numbers of the options *)

\* The questions asked, and how many options come before each of them.
Asked == questions \in Seq(Nat \ {0})

Before(qs, f) ==
  /\ f \in [0..Len(qs) -> Nat] /\ f[0] = 0
  /\ \A n \in 1..Len(qs) : f[n] = f[n - 1] + qs[n]

BeforeSteps(qs) ==
  {x \in (1..Len(qs)) \X Nat \X Nat : x[3] = x[2] + qs[x[1]]}

IsBefore(b) ==
  b = [q \in 1..Len(questions) |-> IF q = 1 THEN 0 ELSE b[q - 1] + questions[q - 1]]

\* The number shown at an option is what its recursive definition says.
LEMMA BeforeExists ==
  ASSUME Asked
  PROVE  \E f : /\ Before(questions, f)
                /\ \A qi \in 1..Len(questions) : \A oi : Shown(qi, oi) = f[qi - 1] + oi
<1>0. Len(questions) \in Nat /\ \A n \in 1..Len(questions) : questions[n] \in Nat
  BY ElementOfSeq DEF Asked
<1>1. ASSUME NEW n \in 1..Len(questions), NEW q \in Nat
      PROVE  \E r \in Nat : <<n, q, r>> \in BeforeSteps(questions)
  <2>1. q + questions[n] \in Nat
    BY <1>0
  <2>. QED  BY <2>1 DEF BeforeSteps
<1>2. Steps(Len(questions), Nat, 0, BeforeSteps(questions))
  BY <1>0, <1>1, Zenon DEF Steps
<1>3. PICK f : IsPath(Len(questions), Nat, 0, BeforeSteps(questions), f)
  BY <1>2, PathExists
<1>4. Before(questions, f)
  <2>1. ASSUME NEW n \in 1..Len(questions) PROVE f[n] = f[n - 1] + questions[n]
    <3>1. <<n, f[n - 1], f[n]>> \in BeforeSteps(questions)
      BY <1>3 DEF IsPath
    <3>. QED  BY <3>1 DEF BeforeSteps
  <2>. QED  BY <1>3, <2>1 DEF Before, IsPath
<1>5. PICK g : g = [q \in 1..Len(questions) |-> f[q - 1]]
  OBVIOUS
<1>6. ASSUME NEW q \in 1..Len(questions)
      PROVE  g[q] = IF q = 1 THEN 0 ELSE g[q - 1] + questions[q - 1]
  <2>1. CASE q = 1
    BY <1>4, <1>5, <2>1 DEF Before
  <2>2. CASE q # 1
    <3>1. q - 1 \in 1..Len(questions)
      BY <2>2
    <3>2. f[q - 1] = f[(q - 1) - 1] + questions[q - 1]
      BY <1>4, <3>1 DEF Before
    <3>. QED  BY <1>5, <2>2, <3>1, <3>2
  <2>. QED  BY <2>1, <2>2
<1>7. IsBefore(g)
  BY <1>5, <1>6 DEF IsBefore
<1>8. PICK b : b = CHOOSE c : IsBefore(c)
  OBVIOUS
<1>9. IsBefore(b)
  BY <1>7, <1>8
<1>10. \A qi, oi : Shown(qi, oi) = b[qi] + oi
  BY <1>8 DEF Shown, IsBefore
<1>11. ASSUME NEW qi \in 1..Len(questions) PROVE b[qi] = f[qi - 1]
  <2>1. PICK K : K = {n \in 0..Len(questions) : n # 0 => b[n] = f[n - 1]}
    OBVIOUS
  <2>2. ASSUME NEW n \in 1..Len(questions), n - 1 \in K PROVE n \in K
    <3>1. b[n] = IF n = 1 THEN 0 ELSE b[n - 1] + questions[n - 1]
      BY <1>9 DEF IsBefore
    <3>2. g[n] = f[n - 1]
      BY <1>5
    <3>3. CASE n = 1
      BY <1>6, <2>1, <3>1, <3>2, <3>3
    <3>4. CASE n # 1
      <4>1. n - 1 # 0 /\ n - 1 \in 1..Len(questions)
        BY <3>4
      <4>2. b[n - 1] = g[n - 1]
        BY <1>5, <2>1, <2>2, <4>1
      <4>3. b[n] = g[n]
        BY <1>6, <3>1, <3>4, <4>2
      <4>. QED  BY <2>1, <3>2, <4>3
    <3>. QED  BY <3>3, <3>4
  <2>3. 0 \in K
    BY <1>0, <2>1
  <2>4. \A n \in 0..Len(questions) : n \in K
    BY <1>0, <2>2, <2>3, CountedInduction, Zenon
  <2>. QED  BY <2>1, <2>4
<1>12. \A qi \in 1..Len(questions) : \A oi : Shown(qi, oi) = f[qi - 1] + oi
  BY <1>10, <1>11
<1>. QED  BY <1>4, <1>12

Pairs == Nat \X Nat
Options == [qi \in DOMAIN questions |-> [oi \in 1..questions[qi] |-> <<qi, oi>>]]

\* The options of the first n questions, in the order of their numbers.
FlatTo(f, F, n) ==
  /\ Len(F[n]) = f[n]
  /\ \A qi \in 1..n : \A oi \in 1..questions[qi] : f[qi - 1] + oi \in 1..f[n]
  /\ \A k \in 1..f[n] : \A qi \in 1..n : \A oi \in 1..questions[qi] :
       F[n][k] = <<qi, oi>> <=> k = f[qi - 1] + oi
  /\ \A k \in 1..f[n] : F[n][k] \in (1..n) \X Nat

\* The number shown at an option is its place among all options, and no other's.
LEMMA FlatNumbers ==
  ASSUME Asked
  PROVE  /\ FlatOptions \in Seq(Pairs)
         /\ \A qi \in DOMAIN questions : \A oi \in 1..questions[qi] :
              /\ Shown(qi, oi) \in 1..Len(FlatOptions)
              /\ \A k \in 1..Len(FlatOptions) :
                   FlatOptions[k] = <<qi, oi>> <=> k = Shown(qi, oi)
<1>0. /\ Len(questions) \in Nat /\ DOMAIN questions = 1..Len(questions)
      /\ \A n \in 1..Len(questions) : questions[n] \in Nat \ {0}
  BY ElementOfSeq, LenProperties DEF Asked
<1>1. PICK f : /\ Before(questions, f)
               /\ \A qi \in 1..Len(questions) : \A oi : Shown(qi, oi) = f[qi - 1] + oi
  BY BeforeExists
<1>2. PICK ss : ss = Options
  OBVIOUS
<1>3. ASSUME NEW n \in 1..Len(questions)
      PROVE  ss[n] \in Seq(Pairs) /\ Len(ss[n]) = questions[n]
             /\ \A oi \in 1..questions[n] : ss[n][oi] = <<n, oi>>
  <2>1. ss[n] = [oi \in 1..questions[n] |-> <<n, oi>>]
    BY <1>0, <1>2 DEF Options
  <2>2. questions[n] \in Nat /\ n \in Nat
    BY <1>0
  <2>3. \A oi \in 1..questions[n] : <<n, oi>> \in Pairs
    BY <2>2 DEF Pairs
  <2>. QED  BY <2>1, <2>2, <2>3
<1>4. ss \in Seq(Seq(Pairs)) /\ Len(ss) = Len(questions)
  <2>1. ss = [qi \in 1..Len(questions) |-> ss[qi]]
    BY <1>0, <1>2 DEF Options
  <2>. QED  BY <1>0, <1>3, <2>1
<1>5. PICK F : FlattensTo(Pairs, ss, F)
  BY <1>4, FlattenPath
<1>6. /\ F \in [0..Len(questions) -> Seq(Pairs)] /\ F[0] = Nil
      /\ \A n \in 1..Len(questions) : F[n] = F[n - 1] \o ss[n]
      /\ FlatOptions = F[Len(questions)]
  BY <1>2, <1>4, <1>5 DEF FlattensTo, FlatOptions, Options
<1>7. /\ f \in [0..Len(questions) -> Nat] /\ f[0] = 0
      /\ \A n \in 1..Len(questions) : f[n] = f[n - 1] + questions[n]
  BY <1>1 DEF Before
<1>8. PICK K : K = {n \in 0..Len(questions) : FlatTo(f, F, n)}
  OBVIOUS
<1>9. 0 \in K
  <2>1. FlatTo(f, F, 0)
    BY <1>6, <1>7, NilIsASeq DEF FlatTo
  <2>. QED  BY <1>0, <1>8, <2>1
<1>10. ASSUME NEW n \in 1..Len(questions), n - 1 \in K PROVE n \in K
  <2>1. FlatTo(f, F, n - 1)
    BY <1>8, <1>10
  <2>2. n - 1 \in 0..Len(questions) /\ n \in 0..Len(questions) /\ n \in Nat
    BY <1>0
  <2>3. PICK a \in Seq(Pairs), b \in Seq(Pairs), c \in Seq(Pairs) :
          a = F[n - 1] /\ b = ss[n] /\ c = F[n]
    BY <1>3, <1>6, <2>2
  <2>4. PICK m \in Nat, l \in Nat : m = f[n - 1] /\ l = questions[n]
    BY <1>0, <1>7, <2>2
  <2>5. f[n] = m + l /\ Len(a) = m /\ Len(b) = l /\ l > 0
    BY <1>0, <1>3, <1>7, <2>1, <2>3, <2>4 DEF FlatTo
  <2>6. /\ Len(c) = m + l /\ (\A k \in 1..m : c[k] = a[k])
        /\ \A k \in (m + 1)..(m + l) : c[k] = b[k - m]
    <3>1. c = a \o b
      BY <1>6, <2>3
    <3>2. /\ Len(a \o b) = Len(a) + Len(b)
          /\ \A k \in 1..Len(a) + Len(b) : (a \o b)[k] = IF k <= Len(a) THEN a[k] ELSE b[k - Len(a)]
      BY ConcatProperties
    <3>3. /\ Len(c) = m + l
          /\ \A k \in 1..(m + l) : c[k] = IF k <= m THEN a[k] ELSE b[k - m]
      BY <2>5, <3>1, <3>2
    <3>. QED  BY <3>3
  <2>7. \A qi \in 1..(n - 1) : \A oi \in 1..questions[qi] : f[qi - 1] + oi \in 1..m
    BY <2>1, <2>4 DEF FlatTo
  <2>8. \A k \in 1..m : \A qi \in 1..(n - 1) : \A oi \in 1..questions[qi] :
          a[k] = <<qi, oi>> <=> k = f[qi - 1] + oi
    BY <2>1, <2>3, <2>4 DEF FlatTo
  <2>9. \A k \in 1..m : a[k] \in (1..(n - 1)) \X Nat
    BY <2>1, <2>3, <2>4 DEF FlatTo
  <2>10. \A k \in (m + 1)..(m + l) : c[k] = <<n, k - m>>
    <3>. SUFFICES ASSUME NEW k \in (m + 1)..(m + l) PROVE c[k] = <<n, k - m>>
      OBVIOUS
    <3>1. k - m \in 1..l
      OBVIOUS
    <3>2. b[k - m] = <<n, k - m>>
      BY <1>3, <2>3, <2>4, <3>1
    <3>. QED  BY <2>6, <3>2
  <2>11. ASSUME NEW qi \in 1..n, NEW oi \in 1..questions[qi]
         PROVE  f[qi - 1] + oi \in 1..(m + l)
    <3>1. CASE qi \in 1..(n - 1)
      BY <2>7, <3>1
    <3>2. CASE qi = n
      BY <2>4, <3>2
    <3>. QED  BY <2>2, <3>1, <3>2
  <2>12. ASSUME NEW k \in 1..(m + l), NEW qi \in 1..n, NEW oi \in 1..questions[qi]
         PROVE  c[k] = <<qi, oi>> <=> k = f[qi - 1] + oi
    <3>1. CASE k \in 1..m /\ qi \in 1..(n - 1)
      <4>1. c[k] = a[k]
        BY <2>6, <3>1
      <4>2. a[k] = <<qi, oi>> <=> k = f[qi - 1] + oi
        BY <2>8, <3>1
      <4>. QED  BY <4>1, <4>2
    <3>2. CASE k \in 1..m /\ qi = n
      <4>1. a[k] # <<qi, oi>>
        BY <2>2, <2>9, <3>2
      <4>2. f[qi - 1] = m /\ oi \in 1..l
        BY <2>4, <3>2
      <4>3. k # m + oi
        BY <3>2, <4>2
      <4>4. c[k] = a[k]
        BY <2>6, <3>2
      <4>. QED  BY <4>1, <4>2, <4>3, <4>4, Zenon
    <3>3. CASE k \in (m + 1)..(m + l) /\ qi \in 1..(n - 1)
      <4>1. c[k] = <<n, k - m>> /\ qi # n
        BY <2>2, <2>10, <3>3
      <4>2. f[qi - 1] + oi \in 1..m
        BY <2>7, <3>3
      <4>. QED  BY <3>3, <4>1, <4>2
    <3>4. CASE k \in (m + 1)..(m + l) /\ qi = n
      <4>1. c[k] = <<n, k - m>> /\ f[qi - 1] = m /\ oi \in 1..l
        BY <2>4, <2>10, <3>4
      <4>. QED  BY <3>4, <4>1
    <3>. QED  BY <2>2, <3>1, <3>2, <3>3, <3>4
  <2>13. \A k \in 1..(m + l) : c[k] \in (1..n) \X Nat
    <3>. SUFFICES ASSUME NEW k \in 1..(m + l) PROVE c[k] \in (1..n) \X Nat
      OBVIOUS
    <3>1. CASE k \in 1..m
      BY <2>2, <2>6, <2>9, <3>1
    <3>2. CASE k \in (m + 1)..(m + l)
      <4>1. c[k] = <<n, k - m>> /\ n \in 1..n /\ k - m \in Nat
        BY <2>2, <2>10, <3>2
      <4>. QED  BY <4>1
    <3>. QED  BY <3>1, <3>2
  <2>14. FlatTo(f, F, n)
    BY <2>3, <2>5, <2>6, <2>11, <2>12, <2>13, SMTT(20) DEF FlatTo
  <2>. QED  BY <1>8, <2>2, <2>14
<1>11. \A n \in 0..Len(questions) : n \in K
  BY <1>0, <1>9, <1>10, CountedInduction, Zenon
<1>12. FlatTo(f, F, Len(questions))
  <2>1. Len(questions) \in 0..Len(questions)
    BY <1>0
  <2>. QED  BY <1>8, <1>11, <2>1
<1>13. FlatOptions \in Seq(Pairs) /\ Len(FlatOptions) = f[Len(questions)]
  <2>1. Len(questions) \in 0..Len(questions)
    BY <1>0
  <2>. QED  BY <1>6, <1>12, <2>1 DEF FlatTo
<1>14. ASSUME NEW qi \in DOMAIN questions, NEW oi \in 1..questions[qi]
       PROVE  /\ Shown(qi, oi) \in 1..Len(FlatOptions)
              /\ \A k \in 1..Len(FlatOptions) :
                   FlatOptions[k] = <<qi, oi>> <=> k = Shown(qi, oi)
  <2>1. qi \in 1..Len(questions) /\ Shown(qi, oi) = f[qi - 1] + oi
    BY <1>0, <1>1
  <2>2. Shown(qi, oi) \in 1..f[Len(questions)]
    BY <1>12, <2>1 DEF FlatTo
  <2>3. \A k \in 1..f[Len(questions)] :
          F[Len(questions)][k] = <<qi, oi>> <=> k = f[qi - 1] + oi
    BY <1>12, <2>1 DEF FlatTo
  <2>. QED  BY <1>6, <1>13, <2>1, <2>2, <2>3
<1>. QED  BY <1>13, <1>14

-----------------------------------------------------------------------------
(* The replies of a poll, up to one of the user's messages *)

Upto(n) == [i \in 1..n |-> i]
FoundTo(n) == Only(Upto(n), history)
RepliesTo(n) == Mapped(sent, FoundTo(n))
TextsTo(n) == Only(RepliesTo(n), Messages \ {MediaOnly})
Lines(texts) == [i \in DOMAIN texts |-> IF i = 1 THEN texts[i] ELSE <<Break>> \o texts[i]]
JoinedTo(n) == FlattenSeq(Lines(TextsTo(n)))

QuestionTypes ==
  /\ questions \in QuestionSets \cup {Nil}
  /\ sent \in Seq(Messages) /\ history \in SUBSET (DOMAIN sent)

LEMMA UptoAppend ==
  ASSUME NEW m \in Nat, NEW n \in 1..m
  PROVE  /\ Upto(n) \in Seq(1..m) /\ Upto(n - 1) \in Seq(1..m)
         /\ Upto(n) = Append(Upto(n - 1), n)
<1>1. ASSUME NEW k \in 0..m
      PROVE  Upto(k) \in Seq(1..m) /\ Len(Upto(k)) = k /\ \A i \in 1..k : Upto(k)[i] = i
  BY DEF Upto
<1>2. n \in 0..m /\ n - 1 \in 0..m
  OBVIOUS
<1>3. PICK s \in Seq(1..m) : s = Upto(n - 1) /\ Len(s) = n - 1 /\ \A i \in 1..(n - 1) : s[i] = i
  BY <1>1, <1>2
<1>4. PICK t \in Seq(1..m) : t = Upto(n) /\ Len(t) = n /\ \A i \in 1..n : t[i] = i
  BY <1>1, <1>2
<1>5. PICK u \in Seq(1..m) : u = Append(s, n)
  BY AppendProperties
<1>6. Len(u) = (n - 1) + 1 /\ u[(n - 1) + 1] = n /\ \A i \in 1..(n - 1) : u[i] = s[i]
  BY <1>3, <1>5, AppendProperties
<1>7. \A i \in 1..Len(t) : t[i] = u[i]
  <2>. SUFFICES ASSUME NEW i \in 1..n PROVE t[i] = u[i]
    BY <1>4
  <2>1. i = n \/ i \in 1..(n - 1)
    OBVIOUS
  <2>. QED  BY <1>3, <1>4, <1>6, <2>1
<1>8. t = u
  <2>1. Len(t) = Len(u)
    BY <1>4, <1>6
  <2>. QED  BY <1>7, <2>1, SeqEqual
<1>. QED  BY <1>3, <1>4, <1>5, <1>8

TakesTo(f, S, T) == \A y \in S : f[y] \in T

LEMMA MapAppend ==
  ASSUME NEW S, NEW T, NEW f, TakesTo(f, S, T), NEW s \in Seq(S), NEW x \in S
  PROVE  Mapped(f, s) \in Seq(T) /\ Mapped(f, Append(s, x)) = Append(Mapped(f, s), f[x])
<1>1. PICK t \in Seq(S) : t = Append(s, x)
  BY AppendProperties
<1>2. /\ Len(t) = Len(s) + 1 /\ t[Len(s) + 1] = x /\ Len(s) \in Nat
      /\ \A i \in 1..Len(s) : t[i] = s[i]
  BY <1>1, AppendProperties
<1>3. DOMAIN s = 1..Len(s) /\ DOMAIN t = 1..(Len(s) + 1)
  BY <1>2, LenProperties
<1>4. PICK a : a = [i \in DOMAIN s |-> f[s[i]]]
  OBVIOUS
<1>5. PICK b : b = [i \in DOMAIN t |-> f[t[i]]]
  OBVIOUS
<1>6. \A i \in 1..Len(s) : s[i] \in S
  BY ElementOfSeq
<1>7. a = [i \in 1..Len(s) |-> a[i]] /\ \A i \in 1..Len(s) : a[i] = f[s[i]] /\ a[i] \in T
  BY <1>3, <1>4, <1>6 DEF TakesTo
<1>8. a \in Seq(T) /\ Len(a) = Len(s)
  BY <1>2, <1>7
<1>9. b = [i \in 1..(Len(s) + 1) |-> b[i]]
      /\ \A i \in 1..(Len(s) + 1) : b[i] = f[t[i]]
  BY <1>3, <1>5
<1>10. f[x] \in T
  BY DEF TakesTo
<1>11. PICK c : c = Append(a, f[x])
  OBVIOUS
<1>12. /\ c \in Seq(T) /\ Len(c) = Len(s) + 1 /\ c[Len(s) + 1] = f[x]
       /\ \A i \in 1..Len(s) : c[i] = a[i]
  BY <1>8, <1>10, <1>11, AppendProperties
<1>13. \A i \in 1..(Len(s) + 1) : b[i] = c[i]
  <2>. SUFFICES ASSUME NEW i \in 1..(Len(s) + 1) PROVE b[i] = c[i]
    OBVIOUS
  <2>1. i = Len(s) + 1 \/ i \in 1..Len(s)
    BY <1>2
  <2>. QED  BY <1>2, <1>7, <1>9, <1>12, <2>1, SMTT(20)
<1>14. b = c
  <2>1. c = [i \in 1..(Len(s) + 1) |-> c[i]]
    BY <1>12, LenProperties
  <2>. QED  BY <1>9, <1>13, <2>1
<1>. QED  BY <1>1, <1>4, <1>5, <1>8, <1>11, <1>14 DEF Mapped

\* One message more: it is among the texts of a poll if it was recorded and has a text.
LEMMA TextsAppend ==
  ASSUME QuestionTypes, NEW n \in 1..Len(sent)
  PROVE  /\ TextsTo(n - 1) \in Seq(Seq(Char)) /\ TextsTo(n) \in Seq(Seq(Char))
         /\ sent[n] # MediaOnly => sent[n] \in Seq(Char)
         /\ TextsTo(n) = IF n \in Texts THEN Append(TextsTo(n - 1), sent[n]) ELSE TextsTo(n - 1)
<1>1. PICK m \in Nat : m = Len(sent)
  BY DEF QuestionTypes
<1>2. PICK I : I = 1..m
  OBVIOUS
<1>3. n \in I /\ \A y \in I : sent[y] \in Messages
  BY <1>1, <1>2, ElementOfSeq DEF QuestionTypes
<1>4. PICK us \in Seq(I) : us = Upto(n - 1) /\ Upto(n) = Append(us, n)
  BY <1>1, <1>2, UptoAppend
<1>5. PICK ps \in Seq(I) : ps = FoundTo(n - 1)
  BY <1>4, OnlyType DEF FoundTo
<1>6. FoundTo(n) = IF n \in history THEN Append(ps, n) ELSE ps
  <2>1. Only(Append(us, n), history) = IF n \in history THEN Append(Only(us, history), n)
                                       ELSE Only(us, history)
    BY <1>3, OnlyAppend
  <2>. QED  BY <1>4, <1>5, <2>1 DEF FoundTo
<1>7. Mapped(sent, ps) \in Seq(Messages)
      /\ Mapped(sent, Append(ps, n)) = Append(Mapped(sent, ps), sent[n])
  <2>1. TakesTo(sent, I, Messages)
    BY <1>3 DEF TakesTo
  <2>. QED  BY <1>3, <2>1, MapAppend
<1>8. PICK rs \in Seq(Messages) : rs = RepliesTo(n - 1)
  BY <1>5, <1>7 DEF RepliesTo
<1>9. RepliesTo(n) = IF n \in history THEN Append(rs, sent[n]) ELSE rs
  BY <1>5, <1>6, <1>7, <1>8 DEF RepliesTo
<1>10. PICK T : T = Messages \ {MediaOnly}
  OBVIOUS
<1>11. PICK ts \in Seq(Messages \cap T) : ts = TextsTo(n - 1)
  BY <1>8, <1>10, OnlyIn DEF TextsTo
<1>12. sent[n] \in Messages
  BY <1>3
<1>13. Only(Append(rs, sent[n]), T) = IF sent[n] \in T THEN Append(Only(rs, T), sent[n])
                                      ELSE Only(rs, T)
  <2>1. PICK x \in Messages : x = sent[n]
    BY <1>12
  <2>2. Only(Append(rs, x), T) = IF x \in T THEN Append(Only(rs, T), x) ELSE Only(rs, T)
    BY OnlyAppend
  <2>. QED  BY <2>1, <2>2
<1>14. TextsTo(n) = IF n \in history /\ sent[n] \in T THEN Append(ts, sent[n]) ELSE ts
  BY <1>8, <1>9, <1>10, <1>11, <1>13 DEF TextsTo
<1>15. n \in Texts <=> n \in history /\ sent[n] \in T
  BY <1>10, <1>12 DEF Texts
<1>16. Messages \cap T \subseteq Seq(Char)
  BY <1>10, MessagesAssumption
<1>17. ts \in Seq(Seq(Char))
  BY <1>16, SeqMonotonic
<1>18. sent[n] # MediaOnly => sent[n] \in Seq(Char)
  BY <1>12, MessagesAssumption
<1>19. TextsTo(n) \in Seq(Seq(Char))
  <2>1. sent[n] \in T => Append(ts, sent[n]) \in Seq(Seq(Char))
    BY <1>10, <1>17, <1>18, AppendProperties
  <2>. QED  BY <1>14, <1>17, <2>1
<1>. QED  BY <1>11, <1>14, <1>15, <1>17, <1>18, <1>19

LEMMA LinesAppend ==
  ASSUME NEW ts \in Seq(Seq(Char)), NEW t \in Seq(Char), NEW line,
         line = IF ts = Nil THEN t ELSE <<Break>> \o t
  PROVE  /\ Lines(ts) \in Seq(Seq(Char)) /\ line \in Seq(Char)
         /\ Lines(Append(ts, t)) = Append(Lines(ts), line)
<1>1. PICK us \in Seq(Seq(Char)) : us = Append(ts, t)
  BY AppendProperties
<1>2. /\ Len(us) = Len(ts) + 1 /\ us[Len(ts) + 1] = t /\ Len(ts) \in Nat
      /\ \A i \in 1..Len(ts) : us[i] = ts[i]
  BY <1>1, AppendProperties
<1>3. DOMAIN ts = 1..Len(ts) /\ DOMAIN us = 1..(Len(ts) + 1)
  BY <1>2, LenProperties
<1>4. \A x \in Seq(Char) : <<Break>> \o x \in Seq(Char)
  <2>1. <<Break>> \in Seq(Char)
    BY DEF Char, Break
  <2>. QED  BY <2>1, ConcatProperties
<1>5. PICK a : a = Lines(ts)
  OBVIOUS
<1>6. PICK b : b = Lines(us)
  OBVIOUS
<1>7. \A i \in 1..Len(ts) : ts[i] \in Seq(Char)
  BY ElementOfSeq
<1>8. /\ a = [i \in 1..Len(ts) |-> a[i]]
      /\ \A i \in 1..Len(ts) : a[i] = (IF i = 1 THEN ts[i] ELSE <<Break>> \o ts[i])
      /\ \A i \in 1..Len(ts) : a[i] \in Seq(Char)
  BY <1>3, <1>4, <1>5, <1>7 DEF Lines
<1>9. a \in Seq(Seq(Char)) /\ Len(a) = Len(ts)
  BY <1>2, <1>8
<1>10. /\ b = [i \in 1..(Len(ts) + 1) |-> b[i]]
       /\ \A i \in 1..(Len(ts) + 1) : b[i] = (IF i = 1 THEN us[i] ELSE <<Break>> \o us[i])
  BY <1>3, <1>6 DEF Lines
<1>11. line \in Seq(Char)
  BY <1>4
<1>12. PICK c : c = Append(a, line)
  OBVIOUS
<1>13. /\ c \in Seq(Seq(Char)) /\ Len(c) = Len(ts) + 1 /\ c[Len(ts) + 1] = line
       /\ \A i \in 1..Len(ts) : c[i] = a[i]
  BY <1>9, <1>11, <1>12, AppendProperties
<1>14. ts = Nil <=> Len(ts) = 0
  BY EmptySeq DEF Nil
<1>15. \A i \in 1..(Len(ts) + 1) : b[i] = c[i]
  <2>. SUFFICES ASSUME NEW i \in 1..(Len(ts) + 1) PROVE b[i] = c[i]
    OBVIOUS
  <2>1. CASE i = Len(ts) + 1
    <3>1. i = 1 <=> ts = Nil
      BY <1>2, <1>14, <2>1
    <3>. QED  BY <1>2, <1>10, <1>13, <2>1, <3>1
  <2>2. CASE i \in 1..Len(ts)
    <3>1. b[i] = IF i = 1 THEN us[i] ELSE <<Break>> \o us[i]
      BY <1>10
    <3>2. us[i] = ts[i] /\ c[i] = a[i]
      BY <1>2, <1>13, <2>2
    <3>3. a[i] = IF i = 1 THEN ts[i] ELSE <<Break>> \o ts[i]
      BY <1>8, <2>2
    <3>. QED  BY <3>1, <3>2, <3>3, Zenon
  <2>. QED  BY <1>2, <2>1, <2>2
<1>16. b = c
  <2>1. c = [i \in 1..(Len(ts) + 1) |-> c[i]]
    BY <1>13, LenProperties
  <2>. QED  BY <1>10, <1>15, <2>1
<1>. QED  BY <1>1, <1>5, <1>6, <1>9, <1>11, <1>12, <1>16

LEMMA BreakSays ==
  ASSUME NEW t \in Seq(Char)
  PROVE  <<Break>> \o t \in Seq(Char) /\ Words(<<Break>> \o t) = Words(t)
<1>1. PICK s \in Seq(Char) : s = <<Break>> /\ Len(s) = 1 /\ s[1] = Break
  <2>1. Break \in Char
    BY DEF Char, Break
  <2>2. <<Break>> \in Seq(Char) /\ Len(<<Break>>) = 1 /\ <<Break>>[1] = Break
    BY <2>1
  <2>. QED  BY <2>2
<1>2. Words(s) = Nil
  <2>1. \A i \in 1..Len(s) : s[i] \notin Char \ Space
    BY <1>1 DEF Space
  <2>. QED  BY <2>1, OnlyNone DEF Words
<1>3. Words(s \o t) = Words(s) \o Words(t) /\ Words(t) \in Seq(Char) /\ s \o t \in Seq(Char)
  BY WordsConcat, ConcatProperties
<1>4. Nil \o Words(t) = Words(t)
  BY <1>3, ConcatNil
<1>. QED  BY <1>1, <1>2, <1>3, <1>4

\* What the user has typed and said, up to one of his messages.
StandsTo(n, v) == UNION {{r} \X Stands(v, sent[r]) : r \in Texts \cap (1..n)}
SaidTo(n) == [r \in 1..n |-> IF r \in Texts THEN Words(sent[r]) ELSE <<>>]

Gathered(n) ==
  /\ JoinedTo(n) \in Seq(Char) /\ TextsTo(n) \in Seq(Seq(Char))
  /\ TextsTo(n) = Nil => JoinedTo(n) = Nil
  /\ SaidTo(n) \in Seq(Seq(Char)) /\ Words(JoinedTo(n)) = FlattenSeq(SaidTo(n))
  /\ \A v : /\ IsFiniteSet(StandsTo(n, v))
            /\ Count(Numbers(JoinedTo(n)), v) = Cardinality(StandsTo(n, v))

LEMMA NoneGathered ==
  ASSUME QuestionTypes
  PROVE  Gathered(0)
<1>1. Upto(0) = Nil /\ SaidTo(0) = Nil
  BY DEF Upto, SaidTo, Nil
<1>2. FoundTo(0) = Nil
  BY <1>1, OnlyEmpty DEF FoundTo
<1>3. RepliesTo(0) = Nil
  BY <1>2 DEF RepliesTo, Mapped, Nil
<1>4. TextsTo(0) = Nil
  BY <1>3, OnlyEmpty DEF TextsTo
<1>5. Lines(Nil) = Nil
  BY DEF Lines, Nil
<1>6. JoinedTo(0) = Nil
  BY <1>4, <1>5, FlattenNil DEF JoinedTo
<1>7. Nil \in Seq(Char) /\ Nil \in Seq(Seq(Char))
  BY NilIsASeq
<1>8. Words(Nil) = Nil
  BY OnlyEmpty DEF Words
<1>9. ASSUME NEW v
      PROVE  /\ IsFiniteSet(StandsTo(0, v))
             /\ Count(Numbers(JoinedTo(0)), v) = Cardinality(StandsTo(0, v))
  <2>1. StandsTo(0, v) = {}
    BY DEF StandsTo
  <2>. QED  BY <1>6, <2>1, NumbersNil, CountNil, FS_EmptySet
<1>. QED  BY <1>1, <1>4, <1>6, <1>7, <1>8, <1>9, FlattenNil DEF Gathered

\* One message more adds the numbers that stand in it.
LEMMA StandsAdded ==
  ASSUME QuestionTypes, NEW n \in 1..Len(sent), NEW v, IsFiniteSet(StandsTo(n - 1, v))
  PROVE  /\ IsFiniteSet(StandsTo(n, v))
         /\ n \notin Texts => StandsTo(n, v) = StandsTo(n - 1, v)
         /\ n \in Texts => Cardinality(StandsTo(n, v))
                             = Cardinality(StandsTo(n - 1, v)) + Cardinality(Stands(v, sent[n]))
<1>0. n \in Nat /\ n \in 1..n /\ n \notin 1..(n - 1) /\ 1..n = (1..(n - 1)) \cup {n}
  BY DEF QuestionTypes
<1>1. CASE n \notin Texts
  <2>1. Texts \cap (1..n) = Texts \cap (1..(n - 1))
    BY <1>0, <1>1
  <2>2. StandsTo(n, v) = StandsTo(n - 1, v)
    BY <2>1 DEF StandsTo
  <2>. QED  BY <1>1, <2>2
<1>2. CASE n \in Texts
  <2>1. sent[n] \in Seq(Char)
    BY <1>2, TextsAppend DEF Texts
  <2>2. PICK A : A = Stands(v, sent[n])
    OBVIOUS
  <2>3. IsFiniteSet(A)
    BY <2>1, <2>2, StandsAre
  <2>4. IsFiniteSet({n}) /\ Cardinality({n}) = 1
    BY FS_Singleton
  <2>5. IsFiniteSet({n} \X A) /\ Cardinality({n} \X A) = Cardinality({n}) * Cardinality(A)
    BY <2>3, <2>4, FS_Product
  <2>6. Cardinality(A) \in Nat
    BY <2>3, FS_CardinalityType
  <2>7. Cardinality({n} \X A) = Cardinality(A)
    BY <2>4, <2>5, <2>6
  <2>8. Texts \cap (1..n) = (Texts \cap (1..(n - 1))) \cup {n}
    BY <1>0, <1>2
  <2>9. StandsTo(n, v) = StandsTo(n - 1, v) \cup ({n} \X A)
    BY <2>2, <2>8 DEF StandsTo
  <2>10. StandsTo(n - 1, v) \cap ({n} \X A) = {}
    <3>1. \A at \in {n} \X A : at[1] = n
      OBVIOUS
    <3>2. \A at \in StandsTo(n - 1, v) : at[1] # n
      BY <1>0 DEF StandsTo
    <3>. QED  BY <3>1, <3>2
  <2>11. PICK old, new : old = StandsTo(n - 1, v) /\ new = {n} \X A
    OBVIOUS
  <2>12. IsFiniteSet(old) /\ IsFiniteSet(new) /\ old \cap new = {}
    BY <2>5, <2>10, <2>11
  <2>13. /\ IsFiniteSet(old \cup new)
         /\ Cardinality(old \cup new)
              = Cardinality(old) + Cardinality(new) - Cardinality(old \cap new)
    BY <2>12, FS_Union
  <2>14. Cardinality(old \cap new) = 0 /\ Cardinality(old) \in Nat /\ Cardinality(new) \in Nat
    BY <2>12, FS_EmptySet, FS_CardinalityType
  <2>15. Cardinality(old \cup new) = Cardinality(old) + Cardinality(new)
    BY <2>13, <2>14
  <2>. QED  BY <1>2, <2>2, <2>7, <2>9, <2>11, <2>13, <2>15
<1>. QED  BY <1>1, <1>2

LEMMA SaidAppend ==
  ASSUME QuestionTypes, NEW n \in 1..Len(sent), SaidTo(n - 1) \in Seq(Seq(Char))
  PROVE  LET said == IF n \in Texts THEN Words(sent[n]) ELSE Nil
         IN said \in Seq(Char) /\ SaidTo(n) = Append(SaidTo(n - 1), said)
<1>1. PICK said : said = IF n \in Texts THEN Words(sent[n]) ELSE Nil
  OBVIOUS
<1>2. said \in Seq(Char)
  <2>1. CASE n \in Texts
    <3>1. sent[n] \in Seq(Char)
      BY <2>1, TextsAppend DEF Texts
    <3>2. Words(sent[n]) \in Seq(Char)
      BY <3>1, WordsConcat
    <3>. QED  BY <1>1, <2>1, <3>2
  <2>2. CASE n \notin Texts
    BY <1>1, <2>2, NilIsASeq
  <2>. QED  BY <2>1, <2>2
<1>3. n \in Nat
  BY DEF QuestionTypes
<1>4. PICK a \in Seq(Seq(Char)) : a = SaidTo(n - 1)
  OBVIOUS
<1>5. DOMAIN a = 1..(n - 1) /\ Len(a) = n - 1
  <2>1. DOMAIN a = 1..(n - 1)
    BY <1>4 DEF SaidTo
  <2>2. DOMAIN a = 1..Len(a) /\ Len(a) \in Nat
    BY LenProperties
  <2>. QED  BY <1>3, <1>4, <2>1, <2>2 DEF SaidTo
<1>6. PICK c : c = Append(a, said)
  OBVIOUS
<1>7. /\ c \in Seq(Seq(Char)) /\ Len(c) = (n - 1) + 1 /\ c[(n - 1) + 1] = said
      /\ \A i \in 1..(n - 1) : c[i] = a[i]
  BY <1>2, <1>5, <1>6, AppendProperties
<1>8. c = [i \in 1..n |-> c[i]]
  BY <1>3, <1>7, LenProperties
<1>9. PICK b : b = SaidTo(n)
  OBVIOUS
<1>10. b = [i \in 1..n |-> b[i]]
       /\ \A i \in 1..n : b[i] = IF i \in Texts THEN Words(sent[i]) ELSE Nil
  BY <1>9 DEF SaidTo, Nil
<1>11. \A i \in 1..(n - 1) : a[i] = IF i \in Texts THEN Words(sent[i]) ELSE Nil
  BY <1>4 DEF SaidTo, Nil
<1>12. \A i \in 1..n : b[i] = c[i]
  <2>. SUFFICES ASSUME NEW i \in 1..n PROVE b[i] = c[i]
    OBVIOUS
  <2>1. CASE i = n
    BY <1>1, <1>3, <1>7, <1>10, <2>1
  <2>2. CASE i \in 1..(n - 1)
    <3>1. b[i] = IF i \in Texts THEN Words(sent[i]) ELSE Nil
      BY <1>10
    <3>2. c[i] = a[i]
      BY <1>7, <2>2
    <3>3. a[i] = IF i \in Texts THEN Words(sent[i]) ELSE Nil
      BY <1>11, <2>2
    <3>. QED  BY <3>1, <3>2, <3>3
  <2>. QED  BY <1>3, <2>1, <2>2
<1>13. b = c
  BY <1>8, <1>10, <1>12
<1>. QED  BY <1>1, <1>2, <1>4, <1>6, <1>9, <1>13

\* One message more, in what a poll puts together of the replies.
LEMMA OneMoreGathered ==
  ASSUME QuestionTypes, NEW n \in 1..Len(sent), Gathered(n - 1)
  PROVE  Gathered(n)
<1>1. PICK ts \in Seq(Seq(Char)), j \in Seq(Char) : ts = TextsTo(n - 1) /\ j = JoinedTo(n - 1)
  BY DEF Gathered
<1>2. j = FlattenSeq(Lines(ts)) /\ (ts = Nil => j = Nil)
  BY <1>1 DEF Gathered, JoinedTo
<1>3. PICK said : said = IF n \in Texts THEN Words(sent[n]) ELSE Nil
  OBVIOUS
<1>4. SaidTo(n - 1) \in Seq(Seq(Char)) /\ Words(j) = FlattenSeq(SaidTo(n - 1))
  BY <1>1 DEF Gathered
<1>5. said \in Seq(Char) /\ SaidTo(n) = Append(SaidTo(n - 1), said)
  BY <1>3, <1>4, SaidAppend
<1>6. SaidTo(n) \in Seq(Seq(Char)) /\ FlattenSeq(SaidTo(n)) = Words(j) \o said
  <2>1. PICK a \in Seq(Seq(Char)) : a = SaidTo(n - 1)
    BY <1>4
  <2>2. Append(a, said) \in Seq(Seq(Char)) /\ FlattenSeq(Append(a, said)) = FlattenSeq(a) \o said
    BY <1>5, FlattenAppend, AppendProperties
  <2>. QED  BY <1>4, <1>5, <2>1, <2>2
<1>7. ASSUME NEW v
      PROVE  /\ IsFiniteSet(StandsTo(n - 1, v))
             /\ Count(Numbers(j), v) = Cardinality(StandsTo(n - 1, v))
  BY <1>1 DEF Gathered
<1>8. TextsTo(n) \in Seq(Seq(Char))
  BY TextsAppend
<1>9. CASE n \notin Texts
  <2>1. TextsTo(n) = ts
    BY <1>1, <1>9, TextsAppend
  <2>2. JoinedTo(n) = j
    BY <1>2, <2>1 DEF JoinedTo
  <2>3. Words(j) \o said = Words(j)
    <3>1. Words(j) \in Seq(Char) /\ said = Nil
      BY <1>3, <1>9, WordsConcat
    <3>. QED  BY <3>1, ConcatNil
  <2>4. ASSUME NEW v
        PROVE  /\ IsFiniteSet(StandsTo(n, v))
               /\ Count(Numbers(j), v) = Cardinality(StandsTo(n, v))
    BY <1>7, <1>9, StandsAdded
  <2>. QED  BY <1>2, <1>6, <2>1, <2>2, <2>3, <2>4 DEF Gathered
<1>10. CASE n \in Texts
  <2>1. PICK t \in Seq(Char) : t = sent[n]
    BY <1>10, TextsAppend DEF Texts
  <2>2. TextsTo(n) = Append(ts, t)
    BY <1>1, <1>10, <2>1, TextsAppend
  <2>3. TextsTo(n) # Nil
    <3>0. PICK us : us = Append(ts, t)
      OBVIOUS
    <3>1. Len(us) = Len(ts) + 1 /\ Len(ts) \in Nat
      BY <3>0, AppendProperties
    <3>2. us # Nil
      BY <3>1, NilIsASeq
    <3>. QED  BY <2>2, <3>0, <3>2
  <2>4. PICK line : line = IF ts = Nil THEN t ELSE <<Break>> \o t
    OBVIOUS
  <2>5. /\ Lines(ts) \in Seq(Seq(Char)) /\ line \in Seq(Char)
        /\ Lines(Append(ts, t)) = Append(Lines(ts), line)
    BY <2>4, LinesAppend
  <2>6. JoinedTo(n) = j \o line
    <3>1. PICK ls \in Seq(Seq(Char)) : ls = Lines(ts)
      BY <2>5
    <3>2. FlattenSeq(Append(ls, line)) = FlattenSeq(ls) \o line
      BY <2>5, FlattenAppend
    <3>. QED  BY <1>2, <2>2, <2>5, <3>1, <3>2 DEF JoinedTo
  <2>7. Words(line) = said
    BY <1>3, <1>10, <2>1, <2>4, BreakSays
  <2>8. j \o line \in Seq(Char) /\ Words(j \o line) = Words(j) \o said
    <3>1. Words(j \o line) = Words(j) \o Words(line)
      BY <2>5, WordsConcat
    <3>. QED  BY <2>5, <2>7, <3>1, ConcatProperties
  <2>9. Numbers(j \o line) = Numbers(j) \o Numbers(t)
    <3>1. CASE ts = Nil
      <4>1. j = Nil /\ line = t /\ Nil \o t = t
        BY <1>2, <2>4, <3>1, ConcatNil
      <4>2. Numbers(t) \in Seq(Values)
        BY NumbersType
      <4>3. Nil \o Numbers(t) = Numbers(t)
        BY <4>2, ConcatNil
      <4>. QED  BY <4>1, <4>3, NumbersNil
    <3>2. CASE ts # Nil
      BY <2>4, <3>2, NumbersOfLines
    <3>. QED  BY <3>1, <3>2
  <2>10. ASSUME NEW v
         PROVE  /\ IsFiniteSet(StandsTo(n, v))
                /\ Count(Numbers(j \o line), v) = Cardinality(StandsTo(n, v))
    <3>1. PICK a \in Seq(Values), b \in Seq(Values) : a = Numbers(j) /\ b = Numbers(t)
      BY NumbersType
    <3>2. Count(a \o b, v) = Count(a, v) + Count(b, v)
      BY CountConcat
    <3>3. Count(b, v) = Cardinality(Stands(v, t))
      BY <3>1, NumbersAreWhatStands
    <3>4. /\ IsFiniteSet(StandsTo(n, v))
          /\ Cardinality(StandsTo(n, v))
               = Cardinality(StandsTo(n - 1, v)) + Cardinality(Stands(v, t))
      BY <1>7, <1>10, <2>1, StandsAdded
    <3>. QED  BY <1>7, <2>9, <3>1, <3>2, <3>3, <3>4
  <2>. QED  BY <1>6, <1>8, <2>3, <2>6, <2>8, <2>10 DEF Gathered
<1>. QED  BY <1>9, <1>10

LEMMA AllGathered ==
  ASSUME QuestionTypes
  PROVE  Gathered(Len(sent))
<1>0. Len(sent) \in Nat
  BY DEF QuestionTypes
<1>1. PICK K : K = {n \in 0..Len(sent) : Gathered(n)}
  OBVIOUS
<1>2. 0 \in K
  BY <1>0, <1>1, NoneGathered
<1>3. ASSUME NEW n \in 1..Len(sent), n - 1 \in K PROVE n \in K
  <2>1. n \in 0..Len(sent)
    OBVIOUS
  <2>2. Gathered(n)
    BY <1>1, <1>3, OneMoreGathered
  <2>. QED  BY <1>1, <2>1, <2>2
<1>4. \A n \in 0..Len(sent) : n \in K
  BY <1>0, <1>2, <1>3, CountedInduction, Zenon
<1>. QED  BY <1>0, <1>1, <1>4

-----------------------------------------------------------------------------
(* The answer *)

\* An option is in the answer as often as its number is among those of the reply.
LEMMA AnswerCounts ==
  ASSUME Asked, NEW reply \in Seq(Char)
  PROVE  LET a == AnswerFromReply(reply)
         IN /\ a.kind \in {"text", "options"}
            /\ a.kind = "text" => a.text = Trim(reply)
            /\ \A qi \in DOMAIN questions : \A oi \in 1..questions[qi] :
                 Count(Numbers(reply), Shown(qi, oi))
                   = IF a.kind = "text" THEN 0 ELSE Count(a.chosen[qi], <<qi, oi>>)
<1>1. PICK I : I = 1..Len(FlatOptions)
  OBVIOUS
<1>2. PICK ns \in Seq(Values) : ns = Numbers(reply)
  BY NumbersType
<1>3. PICK p \in Seq(Values \cap I) : p = Picks(reply)
  BY <1>1, <1>2, OnlyIn DEF Picks
<1>4. PICK picked : picked = Mapped(FlatOptions, p)
  OBVIOUS
<1>5. picked \in Seq(Pairs)
  <2>1. \A k \in Values \cap I : FlatOptions[k] \in Pairs
    BY <1>1, FlatNumbers, ElementOfSeq
  <2>2. \A i \in DOMAIN p : p[i] \in Values \cap I
    BY ElementOfSeq, LenProperties
  <2>3. DOMAIN p = 1..Len(p) /\ Len(p) \in Nat
    BY LenProperties
  <2>4. picked = [i \in 1..Len(p) |-> picked[i]] /\ \A i \in 1..Len(p) : picked[i] \in Pairs
    BY <1>4, <2>1, <2>2, <2>3 DEF Mapped
  <2>. QED  BY <2>3, <2>4
<1>6. ASSUME NEW qi \in DOMAIN questions, NEW oi \in 1..questions[qi]
      PROVE  Count(Numbers(reply), Shown(qi, oi)) = Count(picked, <<qi, oi>>)
  <2>1. PICK v : v = Shown(qi, oi)
    OBVIOUS
  <2>2. v \in I /\ \A k \in I : FlatOptions[k] = <<qi, oi>> <=> k = v
    BY <1>1, <2>1, FlatNumbers
  <2>3. Count(p, v) = Count(ns, v)
    <3>1. Count(Only(ns, I), v) = Count(ns, v)
      BY <2>2, CountOnly
    <3>. QED  BY <1>1, <1>2, <1>3, <3>1 DEF Picks
  <2>4. Count(picked, <<qi, oi>>) = Count(p, v)
    <3>1. OnlyAt(FlatOptions, Values \cap I, v, <<qi, oi>>)
      BY <2>2 DEF OnlyAt
    <3>. QED  BY <1>4, <3>1, CountMapped
  <2>. QED  BY <1>2, <2>1, <2>3, <2>4
<1>7. AnswerFromReply(reply) =
        IF picked = Nil THEN [kind |-> "text", text |-> Trim(reply)]
        ELSE [kind |-> "options",
              chosen |-> [qi \in DOMAIN questions |-> Only(picked, {qi} \X Nat)]]
  BY <1>3, <1>4 DEF AnswerFromReply, Mapped, Nil
<1>8. CASE picked = Nil
  <2>1. \A qi \in DOMAIN questions : \A oi \in 1..questions[qi] :
          Count(Numbers(reply), Shown(qi, oi)) = 0
    BY <1>6, <1>8, CountNil
  <2>. QED  BY <1>7, <1>8, <2>1
<1>9. CASE picked # Nil
  <2>1. PICK a : a = AnswerFromReply(reply)
    OBVIOUS
  <2>2. a.kind = "options"
        /\ \A qi \in DOMAIN questions : a.chosen[qi] = Only(picked, {qi} \X Nat)
    BY <1>7, <1>9, <2>1
  <2>3. ASSUME NEW qi \in DOMAIN questions, NEW oi \in 1..questions[qi]
        PROVE  Count(Numbers(reply), Shown(qi, oi)) = Count(a.chosen[qi], <<qi, oi>>)
    <3>1. PICK T : T = {qi} \X Nat
      OBVIOUS
    <3>2. PICK e : e = <<qi, oi>>
      OBVIOUS
    <3>3. e \in T
      <4>1. questions[qi] \in Nat
        BY ElementOfSeq, LenProperties DEF Asked
      <4>2. oi \in Nat
        BY <4>1
      <4>. QED  BY <3>1, <3>2, <4>2
    <3>4. Count(Only(picked, T), e) = Count(picked, e)
      BY <1>5, <3>3, CountOnly
    <3>. QED  BY <1>6, <2>2, <3>1, <3>2, <3>4
  <2>. QED  BY <2>1, <2>2, <2>3
<1>. QED  BY <1>8, <1>9

AskInv ==
  /\ QuestionTypes
  /\ answer.kind \in {"none", "in-app", "options", "text"}
  /\ AnswerIsWhatWasTyped

LEMMA QuestionsAreAsked ==
  ASSUME QuestionTypes
  PROVE  Asked
<1>1. questions = Nil \/ questions \in QuestionSets
  BY DEF QuestionTypes
<1>. QED  BY <1>1, SetsAssumption, NilIsASeq DEF Asked

LEMMA AskStart == Init => AskInv
<1>1. ASSUME QuestionIdle \/ QuestionInit PROVE AskInv
  <2>1. /\ questions = Nil /\ sent = Nil /\ history = {}
        /\ answer = InApp \/ answer = Waiting
    BY <1>1 DEF QuestionIdle, QuestionInit, Nil
  <2>2. answer.kind \in {"none", "in-app"}
    BY <2>1 DEF InApp, Waiting
  <2>3. QuestionTypes
    BY <2>1, NilIsASeq DEF QuestionTypes
  <2>. QED  BY <2>2, <2>3 DEF AskInv, AnswerIsWhatWasTyped
<1>. QED  BY <1>1 DEF Init

\* The replies that a poll puts together, and the places where a number stands in them.
LEMMA PolledReplies ==
  ASSUME QuestionTypes
  PROVE  LET places == Only([i \in DOMAIN sent |-> i], history)
             replies == [i \in DOMAIN places |-> sent[places[i]]]
         IN /\ Joined(replies) = JoinedTo(Len(sent))
            /\ SaidTo(Len(sent))
                 = [r \in DOMAIN sent |-> IF r \in Texts THEN Words(sent[r]) ELSE <<>>]
            /\ \A v : Cardinality(StandsTo(Len(sent), v)) = Typed(v)
<1>1. DOMAIN sent = 1..Len(sent)
  BY LenProperties DEF QuestionTypes
<1>2. PICK places : places = Only([i \in DOMAIN sent |-> i], history)
  OBVIOUS
<1>3. PICK replies : replies = [i \in DOMAIN places |-> sent[places[i]]]
  OBVIOUS
<1>4. places = FoundTo(Len(sent))
  BY <1>1, <1>2 DEF FoundTo, Upto
<1>5. replies = RepliesTo(Len(sent))
  BY <1>3, <1>4 DEF RepliesTo, Mapped
<1>6. Joined(replies) = JoinedTo(Len(sent))
  BY <1>5 DEF Joined, JoinedTo, TextsTo, Lines
<1>7. SaidTo(Len(sent)) = [r \in DOMAIN sent |-> IF r \in Texts THEN Words(sent[r]) ELSE <<>>]
  BY <1>1 DEF SaidTo
<1>8. Texts \cap (1..Len(sent)) = Texts
  BY <1>1 DEF Texts, QuestionTypes
<1>9. \A v : Cardinality(StandsTo(Len(sent), v)) = Typed(v)
  BY <1>8 DEF StandsTo, Typed
<1>. QED  BY <1>2, <1>3, <1>6, <1>7, <1>9

\* The one step that makes an answer; all others leave the user without one.
LEMMA PollStep ==
  ASSUME AskInv, Poll
  PROVE  AskInv'
<1>1. QuestionTypes /\ Asked
  BY QuestionsAreAsked DEF AskInv
<1>2. PICK j : j = JoinedTo(Len(sent))
  OBVIOUS
<1>3. UNCHANGED <<questions, sent, history>> /\ answer' = AnswerFromReply(j)
  BY <1>1, <1>2, PolledReplies DEF Poll
<1>4. Gathered(Len(sent))
  BY <1>1, AllGathered
<1>5. /\ j \in Seq(Char) /\ Words(j) = FlattenSeq(SaidTo(Len(sent)))
      /\ \A v : Count(Numbers(j), v) = Typed(v)
  BY <1>1, <1>2, <1>4, PolledReplies DEF Gathered
<1>6. PICK a : a = AnswerFromReply(j)
  OBVIOUS
<1>7. /\ a.kind \in {"text", "options"}
      /\ a.kind = "text" => a.text = Trim(j)
      /\ \A qi \in DOMAIN questions : \A oi \in 1..questions[qi] :
           Count(Numbers(j), Shown(qi, oi))
             = IF a.kind = "text" THEN 0 ELSE Count(a.chosen[qi], <<qi, oi>>)
  BY <1>1, <1>5, <1>6, AnswerCounts
<1>8. Words(Trim(j)) = Words(j)
  <2>1. TrimEnd(j) \in Seq(Char) /\ Words(TrimEnd(j)) = Words(j)
    BY <1>5, WordsOfTrimmed
  <2>2. Words(TrimStart(TrimEnd(j))) = Words(TrimEnd(j))
    BY <2>1, WordsOfTrimmed
  <2>. QED  BY <2>1, <2>2 DEF Trim
<1>9. ASSUME NEW qi \in DOMAIN questions, NEW oi \in 1..questions[qi]
      PROVE  Typed(Shown(qi, oi))
               = IF a.kind = "text" THEN 0
                 ELSE Cardinality({k \in DOMAIN a.chosen[qi] : a.chosen[qi][k] = <<qi, oi>>})
  BY <1>5, <1>7 DEF Count, Places
<1>10. QuestionTypes'
  BY <1>1, <1>3 DEF QuestionTypes
<1>11. ASSUME NEW v PROVE Typed(v)' = Typed(v)
  BY <1>3 DEF Typed, Texts, Stands
<1>12. ASSUME NEW qi \in DOMAIN questions', NEW oi \in 1..questions[qi]'
       PROVE  Typed(Shown(qi, oi))' = Told(qi, oi)'
  <2>1. qi \in DOMAIN questions /\ oi \in 1..questions[qi]
    BY <1>3
  <2>2. Typed(Shown(qi, oi))' = Typed(Shown(qi, oi))
    BY <1>3 DEF Typed, Texts, Stands, Shown
  <2>3. Told(qi, oi)' = IF a.kind = "text" THEN 0
                        ELSE Cardinality({k \in DOMAIN a.chosen[qi] : a.chosen[qi][k] = <<qi, oi>>})
    BY <1>3, <1>6 DEF Told
  <2>. QED  BY <1>9, <2>1, <2>2, <2>3
<1>13. answer'.kind = "text" =>
         Words(answer'.text) =
           FlattenSeq([r \in DOMAIN sent' |-> IF r \in Texts' THEN Words(sent'[r]) ELSE <<>>])
  <2>1. FlattenSeq(SaidTo(Len(sent)))
          = FlattenSeq([r \in DOMAIN sent |-> IF r \in Texts THEN Words(sent[r]) ELSE <<>>])
    BY <1>1, PolledReplies
  <2>2. Texts' = Texts /\ sent' = sent
    BY <1>3 DEF Texts
  <2>. QED  BY <1>3, <1>5, <1>6, <1>7, <1>8, <2>1, <2>2
<1>14. AnswerIsWhatWasTyped'
  BY <1>12, <1>13 DEF AnswerIsWhatWasTyped
<1>. QED  BY <1>3, <1>6, <1>7, <1>10, <1>14 DEF AskInv

LEMMA AskNext == AskInv /\ [Next]_vars => AskInv'
<1>1. ASSUME AskInv, UNCHANGED questionVars PROVE AskInv'
  <2>1. UNCHANGED <<questions, sent, history, answer>>
    BY <1>1 DEF questionVars
  <2>2. QuestionTypes' /\ answer'.kind \in {"none", "in-app", "options", "text"}
    BY <1>1, <2>1 DEF AskInv, QuestionTypes
  <2>3. Texts' = Texts
    BY <2>1 DEF Texts
  <2>4. \A qi, oi : Typed(Shown(qi, oi))' = Typed(Shown(qi, oi)) /\ Told(qi, oi)' = Told(qi, oi)
    BY <2>1 DEF Typed, Texts, Stands, Shown, Told
  <2>5. AnswerIsWhatWasTyped'
    BY <1>1, <2>1, <2>3, <2>4 DEF AskInv, AnswerIsWhatWasTyped
  <2>. QED  BY <2>2, <2>5 DEF AskInv
<1>2. ASSUME AskInv, answer = Waiting, answer' = Waiting \/ answer' = InApp, QuestionTypes'
      PROVE  AskInv'
  <2>1. answer'.kind \in {"none", "in-app"}
    BY <1>2 DEF Waiting, InApp
  <2>. QED  BY <1>2, <2>1 DEF AskInv, AnswerIsWhatWasTyped
<1>3. ASSUME AskInv, Asking PROVE AskInv'
  <2>0. QuestionTypes /\ DOMAIN sent = 1..Len(sent)
    BY <1>3, LenProperties DEF AskInv, QuestionTypes
  <2>1. ASSUME NEW qs \in QuestionSets, Ask(qs) PROVE AskInv'
    <3>1. QuestionTypes'
      BY <2>0, <2>1 DEF Ask, QuestionTypes
    <3>. QED  BY <1>2, <1>3, <2>1, <3>1 DEF Ask
  <2>2. ASSUME NEW m \in Messages, Send(m) PROVE AskInv'
    <3>1. /\ sent' = Append(sent, m) /\ UNCHANGED <<questions, history, answer>> /\ answer = Waiting
      BY <2>2 DEF Send
    <3>2. PICK t : t = Append(sent, m)
      OBVIOUS
    <3>3. t \in Seq(Messages) /\ Len(t) = Len(sent) + 1
      BY <2>0, <3>2, AppendProperties DEF QuestionTypes
    <3>4. Len(sent) \in Nat /\ DOMAIN t = 1..Len(t)
      BY <2>0, <3>3, LenProperties DEF QuestionTypes
    <3>5. DOMAIN sent \subseteq DOMAIN t
      BY <2>0, <3>3, <3>4
    <3>6. QuestionTypes'
      BY <2>0, <3>1, <3>2, <3>3, <3>5 DEF QuestionTypes
    <3>. QED  BY <1>2, <1>3, <3>1, <3>6
  <2>3. ASSUME NEW i \in DOMAIN sent, Record(i) PROVE AskInv'
    <3>1. QuestionTypes'
      BY <2>0, <2>3 DEF Record, QuestionTypes
    <3>. QED  BY <1>2, <1>3, <2>3, <3>1 DEF Record
  <2>4. CASE Poll
    BY <1>3, <2>4, PollStep
  <2>5. CASE Dialog
    <3>1. QuestionTypes'
      BY <2>0, <2>5 DEF Dialog, QuestionTypes
    <3>. QED  BY <1>2, <1>3, <2>5, <3>1 DEF Dialog
  <2>. QED  BY <1>3, <2>1, <2>2, <2>3, <2>4, <2>5 DEF Asking
<1>. QED  BY <1>1, <1>3 DEF Next, vars

\* Whatever the questions and whatever the user writes, in however many messages: Claude
\* is told of each option as often as its number was typed, or else every word.
THEOREM AnswersAreWhatWasTyped == Spec => []AnswerIsWhatWasTyped
<1>1. AskInv => AnswerIsWhatWasTyped
  BY DEF AskInv
<1>. QED  BY <1>1, AskStart, AskNext, PTL DEF Spec

-----------------------------------------------------------------------------
(* The settings *)

\* Past loading, the file is a valid one; past the resolving of the lists, the
\* server goes by what the file says, and so did its last call.
SettingsInv ==
  /\ config \in ConfigType \cup {Stopped}
  /\ server \in {"starting", "loaded", "rejected", "tokened", "tokenless", "targeted", "up"}
  /\ server \notin {"starting", "rejected"} => config \in ConfigType /\ Validate
  /\ server = "starting" => config \in ConfigType
  /\ server = "tokenless" => config.token = "env"
  /\ server \in {"targeted", "up"} => sendTargets = Resolved(config.sendTo)
  /\ call.from = "claude" =>
       server = "up" /\ call.ref \in Refs /\ call.chat = Target(call.ref)

LEMMA SettingsStart == Init => SettingsInv
<1>1. ASSUME SettingsIdle PROVE SettingsInv
  BY <1>1 DEF SettingsIdle, SettingsInv, NoCall
<1>2. ASSUME SettingsInit PROVE SettingsInv
  BY <1>2, ConfigsAssumption DEF SettingsInit, Fresh, SettingsInv, NoCall, ConfigType
<1>. QED  BY <1>1, <1>2 DEF Init

\* Nothing that validate has let through fails to resolve.
LEMMA ValidResolves ==
  Validate => Resolvable(config.sendTo) /\ Resolvable(config.readFrom)
BY DEF Validate, Resolvable

LEMMA ServingStep ==
  ASSUME SettingsInv, Serving
  PROVE  SettingsInv'
<1>1. CASE Load
  <2>1. /\ server = "starting" /\ config' = config /\ call' = call
        /\ server' \in {"loaded", "rejected"} /\ (server' = "loaded" => Validate)
    BY <1>1 DEF Load
  <2>. QED  BY <2>1 DEF SettingsInv, Validate, Known
<1>2. CASE Token
  <2>1. /\ server = "loaded" /\ config' = config /\ call' = call
        /\ server' \in {"tokened", "tokenless"}
        /\ server' = "tokenless" => config.token # "inline"
    BY <1>2 DEF Token
  <2>2. config \in ConfigType /\ config.token # "none"
    BY <2>1 DEF SettingsInv, Validate
  <2>3. server' = "tokenless" => config.token = "env"
    BY <2>1, <2>2 DEF ConfigType
  <2>. QED  BY <2>1, <2>3 DEF SettingsInv, Validate, Known
<1>3. CASE ResolveTargets
  <2>1. Validate
    BY <1>3 DEF ResolveTargets, SettingsInv
  <2>2. /\ server = "tokened" /\ config' = config /\ call' = call
        /\ server' = "targeted" /\ sendTargets' = Resolved(config.sendTo)
    BY <1>3, <2>1, ValidResolves DEF ResolveTargets
  <2>. QED  BY <2>2 DEF SettingsInv, Validate, Known, Resolved, IdOf
<1>4. CASE ResolveChats
  <2>1. Validate
    BY <1>4 DEF ResolveChats, SettingsInv
  <2>2. /\ server = "targeted" /\ config' = config /\ call' = call
        /\ server' = "up" /\ sendTargets' = sendTargets
    BY <1>4, <2>1, ValidResolves DEF ResolveChats
  <2>. QED  BY <2>2 DEF SettingsInv, Validate, Known, Resolved, IdOf
<1>5. ASSUME NEW ref \in Refs, Call(ref) \/ HookCall(ref)
      PROVE  SettingsInv'
  <2>1. /\ server = "up" /\ UNCHANGED <<config, server, sendTargets>>
        /\ call'.from = "claude" => call'.ref = ref /\ call'.chat = Target(ref)
    BY <1>5 DEF Call, HookCall
  <2>. QED  BY <2>1 DEF SettingsInv, Validate, Known, Resolved, IdOf, Target, SendAllowed
<1>. QED  BY <1>1, <1>2, <1>3, <1>4, <1>5 DEF Serving

LEMMA SettingsStep == SettingsInv /\ [Next]_vars => SettingsInv'
<1>1. ASSUME SettingsInv, UNCHANGED settingsVars
      PROVE  SettingsInv'
  BY <1>1 DEF settingsVars, SettingsInv, Validate, Known, Resolved, IdOf, Target, SendAllowed
<1>2. ASSUME SettingsInv, Serving
      PROVE  SettingsInv'
  BY <1>2, ServingStep
<1>. QED  BY <1>1, <1>2 DEF Next, vars

-----------------------------------------------------------------------------
(* What a reference means, and where a call goes *)

LEMMA KnownIsAChat ==
  ASSUME config \in ConfigType, NEW ref \in Refs, Known(ref)
  PROVE  IdOf(ref) \in ChatIds
<1>1. config.aliases \in UNION {[names -> ChatIds] : names \in SUBSET Names}
  BY DEF ConfigType
<1>2. PICK names \in SUBSET Names : config.aliases \in [names -> ChatIds]
  BY <1>1
<1>3. CASE ref.by = "id"
  BY <1>3 DEF IdOf, Refs, ById, ByName
<1>4. CASE ref.by = "name"
  <2>1. ref.of \in DOMAIN config.aliases
    BY <1>4 DEF Known
  <2>2. config.aliases[ref.of] \in ChatIds
    BY <1>2, <2>1
  <2>3. IdOf(ref) = config.aliases[ref.of]
    BY <1>4 DEF IdOf
  <2>. QED  BY <2>2, <2>3
<1>. QED  BY <1>3, <1>4 DEF Refs, ById, ByName

LEMMA RefForms ==
  ASSUME NEW ref \in Refs
  PROVE  \/ ref.by = "id" /\ ref.of \in ChatIds /\ ref = ById(ref.of)
         \/ ref.by = "name" /\ ref.of \in Names /\ ref = ByName(ref.of)
BY DEF Refs, ById, ByName

\* A list of references means the chats that those of them stand for that are known.
LEMMA MeaningOfAList ==
  ASSUME config \in ConfigType, NEW list \in SUBSET Refs
  PROVE  Means(list) = {IdOf(ref) : ref \in {r \in list : Known(r)}}
<1>1. ASSUME NEW c \in Means(list)
      PROVE  \E ref \in list : Known(ref) /\ c = IdOf(ref)
  <2>1. CASE c \in ChatIds /\ ById(c) \in list
    <3>1. Known(ById(c)) /\ IdOf(ById(c)) = c
      BY DEF Known, IdOf, ById
    <3>. QED  BY <2>1, <3>1
  <2>2. CASE \E n \in DOMAIN config.aliases : ByName(n) \in list /\ c = config.aliases[n]
    <3>1. PICK n \in DOMAIN config.aliases : ByName(n) \in list /\ c = config.aliases[n]
      BY <2>2
    <3>2. Known(ByName(n)) /\ IdOf(ByName(n)) = config.aliases[n]
      BY <3>1 DEF Known, IdOf, ByName
    <3>. QED  BY <3>1, <3>2
  <2>. QED  BY <2>1, <2>2 DEF Means
<1>2. ASSUME NEW ref \in list, Known(ref)
      PROVE  IdOf(ref) \in Means(list)
  <2>1. CASE ref.by = "id" /\ ref.of \in ChatIds /\ ref = ById(ref.of)
    BY <2>1 DEF Means, IdOf
  <2>2. CASE ref.by = "name" /\ ref = ByName(ref.of)
    BY <1>2, <2>2 DEF Means, IdOf, Known
  <2>. QED  BY <2>1, <2>2, RefForms
<1>. QED  BY <1>1, <1>2

LEMMA CallsGoWhereTheySay ==
  ASSUME config \in ConfigType, Validate, sendTargets = Resolved(config.sendTo),
         NEW ref \in Refs
  PROVE  LET meant == Means({ref})
             open == IF config.sendTo = {} THEN ChatIds ELSE Means(config.sendTo)
         IN IF Target(ref) = Refused THEN meant \cap open = {}
            ELSE meant = {Target(ref)} /\ meant \subseteq open
<1>1. PICK meant, open :
        /\ meant = Means({ref})
        /\ open = IF config.sendTo = {} THEN ChatIds ELSE Means(config.sendTo)
  OBVIOUS
<1>2. meant = IF Known(ref) THEN {IdOf(ref)} ELSE {}
  <2>1. meant = {IdOf(r) : r \in {x \in {ref} : Known(x)}}
    BY <1>1, MeaningOfAList
  <2>. QED  BY <2>1
<1>3. Known(ref) => IdOf(ref) \in ChatIds /\ IdOf(ref) # Refused
  BY KnownIsAChat, AnyoneAssumption DEF Refused
<1>4. \A c \in ChatIds : SendAllowed(c) <=> c \in open
  <2>1. CASE config.sendTo = {}
    BY <1>1, <2>1 DEF SendAllowed, Resolved
  <2>2. CASE config.sendTo # {}
    <3>1. sendTargets = {IdOf(r) : r \in config.sendTo}
      BY <2>2 DEF Resolved
    <3>2. \A r \in config.sendTo : r \in Refs /\ Known(r)
      BY DEF Validate, ConfigType
    <3>3. open = sendTargets
      <4>1. open = {IdOf(r) : r \in {x \in config.sendTo : Known(x)}}
        BY <1>1, <2>2, <3>2, MeaningOfAList
      <4>. QED  BY <3>1, <3>2, <4>1
    <3>4. sendTargets \in SUBSET ChatIds
      BY <3>1, <3>2, KnownIsAChat
    <3>. QED  BY <3>3, <3>4, AnyoneAssumption DEF SendAllowed
  <2>. QED  BY <2>1, <2>2
<1>5. CASE Known(ref) /\ SendAllowed(IdOf(ref))
  <2>1. Target(ref) = IdOf(ref)
    BY <1>5 DEF Target
  <2>. QED  BY <1>1, <1>2, <1>3, <1>4, <1>5, <2>1
<1>6. CASE ~ (Known(ref) /\ SendAllowed(IdOf(ref)))
  <2>1. Target(ref) = Refused
    BY <1>6 DEF Target
  <2>2. meant \cap open = {}
    BY <1>2, <1>3, <1>4, <1>6
  <2>. QED  BY <1>1, <2>1, <2>2
<1>. QED  BY <1>5, <1>6

\* A configuration that was loaded resolves, but for the variable that holds the
\* token, and every call goes to the chat it names, if the file allows it, or nowhere.
THEOREM SettingsAlwaysHold == Spec => []SettingsHold
<1>1. SettingsInv => SettingsHold
  <2>. SUFFICES ASSUME SettingsInv PROVE SettingsHold
    OBVIOUS
  <2>1. server = "up" /\ call.from = "claude" =>
          LET meant == Means({call.ref})
              open == IF config.sendTo = {} THEN ChatIds ELSE Means(config.sendTo)
          IN IF call.chat = Refused THEN meant \cap open = {}
             ELSE meant = {call.chat} /\ meant \subseteq open
    BY CallsGoWhereTheySay DEF SettingsInv
  <2>. QED  BY <2>1 DEF SettingsInv, SettingsHold
<1>. QED  BY <1>1, SettingsStart, SettingsStep, PTL DEF Spec
=============================================================================
