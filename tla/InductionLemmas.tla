-------------------------- MODULE InductionLemmas ---------------------------
(***************************************************************************)
(* Induction where the provers have none: a set stands in the place of the *)
(* predicate, and that the subsets of the naturals are well founded gives it*)
(* its step.  From it, what a fold over 1..n gathers and what FlattenSeq,  *)
(* Front and SubSeq return, for sequences of every length.                 *)
(***************************************************************************)
EXTENDS Integers, SequencesExt, FiniteSetTheorems, SequenceTheorems, TLAPS

-----------------------------------------------------------------------------
(* Induction.                                                              *)

\* Induction over the naturals, for a set in the place of a predicate: of a
\* set that misses one, the least it misses contradicts its closure.
LEMMA NatSetInduction ==
    ASSUME NEW S, 0 \in S, \A n \in Nat : n \in S => n + 1 \in S
    PROVE  Nat \subseteq S
<1> SUFFICES ASSUME NEW m \in Nat, m \notin S PROVE FALSE
  OBVIOUS
<1> DEFINE Below(n) == 0..n
           T == {Below(n) : n \in Nat \ S}
<1>1. \A n \in Nat : Below(n) \in FiniteSubsetsOf(Nat)
  BY FS_Interval DEF FiniteSubsetsOf
<1>2. T # {} /\ T \subseteq FiniteSubsetsOf(Nat)
  BY <1>1
<1>3. PICK X \in T : \A Y \in T : ~(<<Y, X>> \in StrictSubsetOrdering(Nat))
  <2> HIDE DEF T
  <2> QED BY <1>2, FS_StrictSubsetOrderingWellFounded, WFMin
<1>4. PICK n \in Nat \ S : X = Below(n)
  BY <1>3
<1>5. n # 0 /\ n - 1 \in Nat \ S
  BY <1>4
<1>6. Below(n - 1) \in T
  BY <1>5
<1>7. <<Below(n - 1), X>> \in StrictSubsetOrdering(Nat)
  BY <1>4, <1>5 DEF StrictSubsetOrdering
<1> QED
  BY <1>3, <1>6, <1>7

\* The same, up to a bound.
LEMMA UpTo ==
    ASSUME NEW n \in Nat, NEW S, 0 \in S, \A k \in 1..n : k - 1 \in S => k \in S
    PROVE  n \in S
<1> DEFINE T == {m \in Nat : m <= n => m \in S}
<1>1. 0 \in T
  OBVIOUS
<1>2. ASSUME NEW m \in Nat, m \in T PROVE m + 1 \in T
  <2> SUFFICES ASSUME m + 1 <= n PROVE m + 1 \in S
    BY m + 1 \in Nat
  <2>1. m \in S /\ m + 1 \in 1..n /\ (m + 1) - 1 = m
    BY <1>2
  <2> QED BY <2>1
<1>3. Nat \subseteq T
  <2> HIDE DEF T
  <2> QED BY <1>1, <1>2, NatSetInduction
<1> QED BY <1>3

\* Sequences from their first element on.
LEMMA SeqSetInduction ==
    ASSUME NEW X, NEW S, <<>> \in S, \A s \in Seq(X), x \in X : s \in S => Append(s, x) \in S
    PROVE  Seq(X) \subseteq S
<1> DEFINE T == {m \in Nat : \A s \in Seq(X) : Len(s) = m => s \in S}
<1>1. 0 \in T
  OBVIOUS
<1>2. ASSUME NEW m \in Nat, m \in T PROVE m + 1 \in T
  <2> SUFFICES ASSUME NEW s \in Seq(X), Len(s) = m + 1 PROVE s \in S
    BY m + 1 \in Nat
  <2>1. s # <<>>
    OBVIOUS
  <2>2. PICK r \in Seq(X), x \in X : s = Append(r, x)
    BY <2>1, SequenceEmptyOrAppend
  <2>3. Len(r) = m
    BY <2>2
  <2> QED BY <1>2, <2>2, <2>3
<1>3. Nat \subseteq T
  <2> HIDE DEF T
  <2> QED BY <1>1, <1>2, NatSetInduction
<1> QED BY <1>3

\* A set of indices that is not empty has a largest.
LEMMA MaxOf ==
    ASSUME NEW n \in Nat, NEW T \in SUBSET (1..n), T # {}
    PROVE  Max(T) \in T /\ \A y \in T : Max(T) >= y
<1> DEFINE HasMax(U) == \E x \in U : \A y \in U : x >= y
           S == {m \in Nat : \A U \in SUBSET (1..m) : U # {} => HasMax(U)}
<1>1. 0 \in S
  <2>1. 1..0 = {}
    OBVIOUS
  <2> QED BY <2>1
<1>2. ASSUME NEW m \in Nat, m \in S
      PROVE  m + 1 \in S
  <2> SUFFICES ASSUME NEW U \in SUBSET (1..(m + 1)), U # {} PROVE HasMax(U)
    OBVIOUS
  <2>1. CASE m + 1 \in U
    BY <2>1
  <2>2. CASE m + 1 \notin U
    <3>1. U \in SUBSET (1..m)
      BY <2>2
    <3> QED BY <1>2, <3>1
  <2> QED BY <2>1, <2>2
<1>3. n \in S
  <2> HIDE DEF S
  <2> QED BY <1>1, <1>2, NatSetInduction
<1> QED BY <1>3 DEF Max

\* The largest index of 1..n, and what is left without it.
LEMMA MaxOfInterval ==
    ASSUME NEW n \in Nat, n > 0
    PROVE  Max(1..n) = n /\ (1..n) \ {n} = 1..(n - 1)
<1> DEFINE T == 1..n
<1>1. T \in SUBSET (1..n) /\ T # {} /\ n \in T
  OBVIOUS
<1>2. Max(T) \in T /\ \A y \in T : Max(T) >= y
  <2> HIDE DEF T
  <2> QED BY <1>1, MaxOf
<1> QED BY <1>1, <1>2

-----------------------------------------------------------------------------
(* Folds over the indices 1..n, as FoldSeq and its kin unfold.             *)

\* What a fold over 1..n gathers, for every set of its indices.
IsFold(it, step, base, D) ==
    it = [T \in SUBSET D |-> IF T = {} THEN base ELSE step[<<it[T \ {Max(T)}], Max(T)>>]]

\* A fold over the indices 1..n is defined.
LEMMA FoldExists ==
    ASSUME NEW step, NEW base, NEW n \in Nat
    PROVE  \E it : IsFold(it, step, base, 1..n)
<1> DEFINE S == {m \in Nat : \E it : IsFold(it, step, base, 1..m)}
<1>1. 0 \in S
  <2>1. 1..0 = {}
    OBVIOUS
  <2>2. IsFold([T \in SUBSET (1..0) |-> base], step, base, 1..0)
    BY <2>1 DEF IsFold
  <2> QED BY <2>2
<1>2. ASSUME NEW m \in Nat, m \in S
      PROVE  m + 1 \in S
  <2>1. PICK g : IsFold(g, step, base, 1..m)
    BY <1>2
  <2> DEFINE h == [T \in SUBSET (1..(m + 1)) |->
                      IF T = {} THEN base ELSE step[<<g[T \ {Max(T)}], Max(T)>>]]
  <2>2. \A T \in SUBSET (1..m) : h[T] = g[T]
    <3> TAKE T \in SUBSET (1..m)
    <3>1. T \in SUBSET (1..(m + 1))
      OBVIOUS
    <3>2. g[T] = IF T = {} THEN base ELSE step[<<g[T \ {Max(T)}], Max(T)>>]
      BY <2>1 DEF IsFold
    <3> QED BY <3>1, <3>2
  <2>3. \A T \in SUBSET (1..(m + 1)) : T # {} => T \ {Max(T)} \in SUBSET (1..m)
    <3> SUFFICES ASSUME NEW T \in SUBSET (1..(m + 1)), T # {} PROVE T \ {Max(T)} \in SUBSET (1..m)
      OBVIOUS
    <3>1. Max(T) \in T /\ \A y \in T : Max(T) >= y
      BY MaxOf, m + 1 \in Nat
    <3>2. \A y \in T \ {Max(T)} : y \in 1..m
      <4> TAKE y \in T \ {Max(T)}
      <4>1. y \in 1..(m + 1) /\ Max(T) \in 1..(m + 1) /\ y # Max(T) /\ Max(T) >= y
        BY <3>1
      <4> QED BY <4>1
    <3> QED BY <3>2
  <2>4. h = [T \in SUBSET (1..(m + 1)) |->
                IF T = {} THEN base ELSE step[<<h[T \ {Max(T)}], Max(T)>>]]
    <3>1. \A T \in SUBSET (1..(m + 1)) : T # {} => h[T \ {Max(T)}] = g[T \ {Max(T)}]
      <4> HIDE DEF h
      <4> QED BY <2>2, <2>3
    <3> QED BY <3>1
  <2>5. IsFold(h, step, base, 1..(m + 1))
    BY <2>4 DEF IsFold
  <2>6. \E it : IsFold(it, step, base, 1..(m + 1))
    BY <2>5
  <2> HIDE DEF h
  <2> QED BY <2>6
<1> HIDE DEF S
<1>3. n \in S
  BY <1>1, <1>2, NatSetInduction
<1> QED BY <1>3 DEF S

\* What holds of the empty set of indices and stays when a largest one comes.
LEMMA FoldType ==
    ASSUME NEW V, NEW n \in Nat, NEW it, it[{}] \in V,
           \A T \in SUBSET (1..n) : T # {} /\ it[T \ {Max(T)}] \in V => it[T] \in V
    PROVE  \A T \in SUBSET (1..n) : it[T] \in V
<1> DEFINE S == {m \in Nat : \A T \in SUBSET (1..n) : T \subseteq 1..m => it[T] \in V}
<1>1. 0 \in S
  <2> SUFFICES ASSUME NEW T \in SUBSET (1..n), T \subseteq 1..0 PROVE it[T] \in V
    OBVIOUS
  <2>1. T = {}
    OBVIOUS
  <2> QED BY <2>1
<1>2. ASSUME NEW m \in Nat, m \in S
      PROVE  m + 1 \in S
  <2> SUFFICES ASSUME NEW T \in SUBSET (1..n), T \subseteq 1..(m + 1) PROVE it[T] \in V
    BY m + 1 \in Nat
  <2>0. SUFFICES ASSUME T # {} PROVE it[T] \in V
    OBVIOUS
  <2>1. Max(T) \in T /\ \A y \in T : Max(T) >= y
    BY MaxOf, <2>0
  <2>2. T \ {Max(T)} \in SUBSET (1..n) /\ T \ {Max(T)} \subseteq 1..m
    <3>1. \A y \in T \ {Max(T)} : y \in 1..m
      <4> TAKE y \in T \ {Max(T)}
      <4>1. y \in 1..(m + 1) /\ Max(T) \in 1..(m + 1) /\ y # Max(T) /\ Max(T) >= y
        BY <2>1
      <4> QED BY <4>1
    <3> QED BY <3>1
  <2>3. it[T \ {Max(T)}] \in V
    BY <1>2, <2>2
  <2> QED BY <2>0, <2>3
<1> HIDE DEF S
<1>3. n \in S
  BY <1>1, <1>2, NatSetInduction
<1> QED BY <1>3 DEF S

\* A fold stays where its base is and its steps lead.
LEMMA FoldInDomain ==
    ASSUME NEW V, NEW n \in Nat, NEW step \in [V \X (1..n) -> V], NEW base \in V,
           NEW it, IsFold(it, step, base, 1..n)
    PROVE  \A T \in SUBSET (1..n) : it[T] \in V
<1>0. \A T \in SUBSET (1..n) : it[T] = IF T = {} THEN base ELSE step[<<it[T \ {Max(T)}], Max(T)>>]
  BY DEF IsFold
<1>1. it[{}] \in V
  <2>1. {} \in SUBSET (1..n)
    OBVIOUS
  <2> QED BY <1>0, <2>1
<1>2. ASSUME NEW T \in SUBSET (1..n), T # {}, it[T \ {Max(T)}] \in V
      PROVE  it[T] \in V
  <2>1. Max(T) \in 1..n
    BY <1>2, MaxOf
  <2>2. <<it[T \ {Max(T)}], Max(T)>> \in V \X (1..n)
    BY <1>2, <2>1
  <2> QED BY <1>0, <1>2, <2>2
<1> QED BY <1>1, <1>2, FoldType

\* A fold as the chain of its prefixes' results.
IsChain(c, V, n, step, base, result) ==
    /\ c \in [0..n -> V] /\ c[0] = base /\ c[n] = result
    /\ \A k \in 1..n : c[k] = step[<<c[k - 1], k>>]

\* As IsFold, where each step is known only within V.
Gathers(it, V, n, step, base) ==
    /\ it[{}] = base
    /\ \A T \in SUBSET (1..n) :
        T # {} /\ it[T \ {Max(T)}] \in V => it[T] = step[<<it[T \ {Max(T)}], Max(T)>>]

\* A fold over 1..n is the end of a chain that starts at its base and takes
\* one step per index.
LEMMA FoldChain ==
    ASSUME NEW V, NEW n \in Nat, NEW step \in [V \X (1..n) -> V], NEW base \in V,
           NEW it, Gathers(it, V, n, step, base)
    PROVE  \E c : IsChain(c, V, n, step, base, it[1..n])
<1> DEFINE c == [k \in 0..n |-> it[1..k]]
<1>0. \A T \in SUBSET (1..n) : it[T] \in V
  <2>1. ASSUME NEW T \in SUBSET (1..n), T # {}, it[T \ {Max(T)}] \in V
        PROVE  it[T] \in V
    <3>1. Max(T) \in 1..n
      BY <2>1, MaxOf
    <3>2. <<it[T \ {Max(T)}], Max(T)>> \in V \X (1..n)
      BY <2>1, <3>1
    <3> QED BY <2>1, <3>2 DEF Gathers
  <2> QED BY <2>1, FoldType DEF Gathers
<1>1. c \in [0..n -> V]
  <2>1. \A k \in 0..n : 1..k \in SUBSET (1..n)
    OBVIOUS
  <2> QED BY <2>1, <1>0
<1>2. c[0] = base
  <2>1. 1..0 = {} /\ 0 \in 0..n
    OBVIOUS
  <2> QED BY <2>1 DEF Gathers
<1>3. c[n] = it[1..n]
  OBVIOUS
<1>4. ASSUME NEW k \in 1..n PROVE c[k] = step[<<c[k - 1], k>>]
  <2>1. 1..k \in SUBSET (1..n) /\ 1..k # {} /\ k \in Nat /\ k > 0 /\ k \in 0..n /\ k - 1 \in 0..n
    OBVIOUS
  <2>2. Max(1..k) = k /\ (1..k) \ {k} = 1..(k - 1)
    BY <2>1, MaxOfInterval
  <2>3. 1..(k - 1) \in SUBSET (1..n)
    BY <2>2, <2>1
  <2>4. it[1..k] = step[<<it[1..(k - 1)], k>>]
    BY <1>0, <2>1, <2>2, <2>3 DEF Gathers
  <2> QED BY <2>1, <2>4
<1> HIDE DEF c
<1>5. IsChain(c, V, n, step, base, it[1..n])
  BY <1>1, <1>2, <1>3, <1>4 DEF IsChain
<1> QED BY <1>5

-----------------------------------------------------------------------------
(* Sequences.                                                              *)

\* What Front leaves.
LEMMA FrontIs ==
    ASSUME NEW X, NEW s \in Seq(X), s # <<>>
    PROVE  /\ Front(s) \in Seq(X) /\ Len(Front(s)) = Len(s) - 1
           /\ \A i \in 1..(Len(s) - 1) : Front(s)[i] = s[i]
<1> DEFINE m == Len(s) - 1
<1>1. m \in Nat /\ Len(s) \in Nat /\ m + 1 = Len(s)
  <2>1. Len(s) \in Nat \ {0}
    BY EmptySeq
  <2> QED BY <2>1
<1>2. SubSeq(s, 1, m) \in Seq(X) /\ Len(SubSeq(s, 1, m)) = m
  BY <1>1
<1>3. ASSUME NEW i \in 1..m PROVE SubSeq(s, 1, m)[i] = s[i]
  BY <1>1
<1> QED BY <1>2, <1>3 DEF Front

\* A sequence cut in two.
LEMMA CutInTwo ==
    ASSUME NEW X, NEW s \in Seq(X), NEW n \in 0..Len(s)
    PROVE  /\ SubSeq(s, 1, n) \in Seq(X) /\ SubSeq(s, n + 1, Len(s)) \in Seq(X) /\ Len(SubSeq(s, 1, n)) = n
           /\ \A i \in 1..n : SubSeq(s, 1, n)[i] = s[i]
           /\ SubSeq(s, 1, n) \o SubSeq(s, n + 1, Len(s)) = s
<1> DEFINE a == SubSeq(s, 1, n)
           b == SubSeq(s, n + 1, Len(s))
<1>1. n \in Nat /\ Len(s) \in Nat /\ n <= Len(s)
  OBVIOUS
<1>2. a \in Seq(X) /\ Len(a) = n /\ \A i \in 1..n : a[i] = s[i]
  BY <1>1
<1>3. b \in Seq(X) /\ Len(b) = Len(s) - n /\ \A i \in 1..(Len(s) - n) : b[i] = s[n + i]
  BY <1>1
<1> HIDE DEF a, b
<1>4. a \o b \in Seq(X) /\ Len(a \o b) = Len(s)
  BY <1>1, <1>2, <1>3
<1>5. \A i \in 1..Len(s) : (a \o b)[i] = s[i]
  <2> TAKE i \in 1..Len(s)
  <2>1. CASE i <= n
    BY <1>1, <1>2, <1>3, <2>1, ConcatProperties
  <2>2. CASE i > n
    <3>1. i - n \in 1..(Len(s) - n) /\ n + (i - n) = i
      BY <1>1, <2>2
    <3>2. (a \o b)[i] = b[i - n]
      BY <1>1, <1>2, <1>3, <2>2, ConcatProperties
    <3> QED BY <1>3, <3>1, <3>2
  <2>3. i <= n \/ i > n
    BY <1>1
  <2> QED BY <2>1, <2>2, <2>3
<1>6. a \o b = s
  BY <1>4, <1>5, SeqEqual
<1> QED BY <1>2, <1>3, <1>6 DEF a, b

\* What comes first of two sequences is a prefix of them.
LEMMA PrefixOfConcat ==
    ASSUME NEW X, NEW a \in Seq(X), NEW b \in Seq(X)
    PROVE  IsPrefix(a, a \o b)
<1> DEFINE c == a \o b
           n == Len(a)
<1>1. c \in Seq(X) /\ Len(c) = n + Len(b) /\ n \in Nat /\ Len(b) \in Nat /\ \A i \in 1..n : c[i] = a[i]
  BY ConcatProperties
<1>2. n \in 0..Len(a) /\ n \in 0..Len(c)
  BY <1>1
<1>3. /\ SubSeq(a, 1, n) \in Seq(X) /\ Len(SubSeq(a, 1, n)) = n /\ \A i \in 1..n : SubSeq(a, 1, n)[i] = a[i]
      /\ SubSeq(c, 1, n) \in Seq(X) /\ Len(SubSeq(c, 1, n)) = n /\ \A i \in 1..n : SubSeq(c, 1, n)[i] = c[i]
  BY <1>1, <1>2, CutInTwo
<1> HIDE DEF c
<1>4. SubSeq(a, 1, n) = SubSeq(c, 1, n)
  BY <1>1, <1>3, SeqEqual
<1> QED BY <1>1, <1>4 DEF IsPrefix, c

\* A sequence with one element put before it.
LEMMA Prepended ==
    ASSUME NEW X, NEW b \in X, NEW s \in Seq(X)
    PROVE  /\ <<b>> \o s \in Seq(X) /\ Len(<<b>> \o s) = Len(s) + 1 /\ (<<b>> \o s)[1] = b
           /\ \A i \in 1..Len(s) : (<<b>> \o s)[i + 1] = s[i]
<1> DEFINE t == <<b>>
<1>1. t \in Seq(X) /\ Len(t) = 1 /\ t[1] = b
  OBVIOUS
<1> HIDE DEF t
<1>2. t \o s \in Seq(X) /\ Len(t \o s) = Len(s) + 1 /\ (t \o s)[1] = b
  BY <1>1, ConcatProperties
<1>3. ASSUME NEW i \in 1..Len(s) PROVE (t \o s)[i + 1] = s[i]
  <2> DEFINE j == i + 1
  <2>1. j \in 1..(Len(t) + Len(s)) /\ j > Len(t) /\ j - Len(t) = i
    BY <1>1
  <2> HIDE DEF j
  <2>2. (t \o s)[j] = s[j - Len(t)]
    BY <1>1, <2>1, ConcatProperties
  <2> QED BY <2>1, <2>2 DEF j
<1> QED BY <1>2, <1>3 DEF t

\* What FlattenSeq has gathered after each sequence.
FlatPart(f, seqs, m) == f = [i \in 1..m |-> IF i = 1 THEN seqs[i] ELSE f[i - 1] \o seqs[i]]

\* There is such a function.
LEMMA FlatPartExists ==
    ASSUME NEW seqs, NEW n \in Nat
    PROVE  \E f : FlatPart(f, seqs, n)
<1> DEFINE S == {m \in Nat : \E f : FlatPart(f, seqs, m)}
<1>1. 0 \in S
  <2>1. 1..0 = {}
    OBVIOUS
  <2>2. FlatPart([i \in 1..0 |-> seqs[i]], seqs, 0)
    BY <2>1 DEF FlatPart
  <2> QED BY <2>2
<1>2. ASSUME NEW m \in Nat, m \in S
      PROVE  m + 1 \in S
  <2>1. PICK f : FlatPart(f, seqs, m)
    BY <1>2
  <2> DEFINE g == [i \in 1..(m + 1) |-> IF i = 1 THEN seqs[i] ELSE f[i - 1] \o seqs[i]]
  <2>2. \A i \in 1..m : g[i] = f[i]
    <3> TAKE i \in 1..m
    <3>1. i \in 1..(m + 1)
      OBVIOUS
    <3> QED BY <2>1, <3>1 DEF FlatPart
  <2>3. \A i \in 1..(m + 1) : i # 1 => g[i - 1] = f[i - 1]
    <3> TAKE i \in 1..(m + 1)
    <3>1. i # 1 => i - 1 \in 1..m
      OBVIOUS
    <3> HIDE DEF g
    <3> QED BY <2>2, <3>1
  <2>4. FlatPart(g, seqs, m + 1)
    <3>1. g = [i \in 1..(m + 1) |-> IF i = 1 THEN seqs[i] ELSE g[i - 1] \o seqs[i]]
      BY <2>3
    <3> HIDE DEF g
    <3> QED BY <3>1 DEF FlatPart
  <2>5. \E h : FlatPart(h, seqs, m + 1)
    BY <2>4
  <2> HIDE DEF g
  <2> QED BY <2>5
<1> HIDE DEF S
<1>3. n \in S
  BY <1>1, <1>2, NatSetInduction
<1> QED BY <1>3 DEF S

\* FlattenSeq appends one sequence after the other.
LEMMA FlattenSteps ==
    ASSUME NEW X, NEW seqs \in Seq(Seq(X))
    PROVE  \E c \in [0..Len(seqs) -> Seq(X)] :
              /\ c[0] = <<>> /\ c[Len(seqs)] = FlattenSeq(seqs)
              /\ \A k \in 1..Len(seqs) : c[k] = c[k - 1] \o seqs[k]
<1> DEFINE n == Len(seqs)
           f == CHOOSE g : FlatPart(g, seqs, n)
           c == [k \in 0..n |-> IF k = 0 THEN <<>> ELSE f[k]]
<1>1. n \in Nat /\ \A k \in 1..n : seqs[k] \in Seq(X)
  BY ElementOfSeq
<1>2. n = 0 => seqs = <<>>
  OBVIOUS
<1>3. c[n] = FlattenSeq(seqs)
  <2>1. CASE n = 0
    BY <1>2, <2>1 DEF FlattenSeq
  <2>2. CASE n # 0
    <3>1. FlattenSeq(seqs) = f[n]
      BY <2>2 DEF FlattenSeq, FlatPart
    <3> QED BY <1>1, <2>2, <3>1
  <2> QED BY <2>1, <2>2
<1>4. FlatPart(f, seqs, n)
  BY <1>1, FlatPartExists
<1> HIDE DEF f, n
<1>5. c[0] = <<>> /\ DOMAIN c = 0..n
  BY <1>1
<1>6. \A k \in 1..n : c[k] = c[k - 1] \o seqs[k]
  <2> SUFFICES ASSUME NEW k \in 1..n PROVE c[k] = c[k - 1] \o seqs[k]
    OBVIOUS
  <2>1. f[k] = IF k = 1 THEN seqs[k] ELSE f[k - 1] \o seqs[k]
    BY <1>4 DEF FlatPart
  <2>2. c[k] = f[k]
    BY <1>1
  <2>3. CASE k = 1
    <3>1. c[k - 1] = <<>> /\ <<>> \o seqs[k] = seqs[k]
      BY <1>1, <1>5, <2>3, ConcatEmptySeq
    <3> QED BY <2>1, <2>2, <2>3, <3>1
  <2>4. CASE k # 1
    <3>1. c[k - 1] = f[k - 1]
      BY <1>1, <2>4
    <3> QED BY <2>1, <2>2, <2>4, <3>1
  <2> QED BY <2>3, <2>4
<1> HIDE DEF c
<1>7. \A k \in 0..n : c[k] \in Seq(X)
  <2> DEFINE S == {k \in 0..n : c[k] \in Seq(X)}
  <2> SUFFICES ASSUME NEW m \in 0..n PROVE m \in S
    OBVIOUS
  <2>1. 0 \in S
    <3>1. <<>> \in Seq(X) /\ 0 \in 0..n
      BY <1>1
    <3> QED BY <1>5, <3>1
  <2>2. \A k \in 1..m : k - 1 \in S => k \in S
    <3> SUFFICES ASSUME NEW k \in 1..m, k - 1 \in S PROVE k \in S
      OBVIOUS
    <3>1. k \in 1..n /\ k \in 0..n
      BY <1>1
    <3>2. c[k - 1] \in Seq(X) /\ seqs[k] \in Seq(X)
      BY <1>1, <3>1
    <3>3. c[k - 1] \o seqs[k] \in Seq(X)
      BY <3>2, ConcatProperties
    <3> QED BY <1>6, <3>1, <3>3
  <2> HIDE DEF S
  <2> QED BY <1>1, <2>1, <2>2, UpTo
<1>8. c \in [0..n -> Seq(X)]
  <2>1. c = [k \in 0..n |-> c[k]]
    BY DEF c
  <2> QED BY <1>7, <2>1
<1> QED BY <1>3, <1>5, <1>6, <1>8 DEF n

=============================================================================
