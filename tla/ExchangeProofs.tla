--------------------------- MODULE ExchangeProofs ---------------------------
(***************************************************************************)
(* That a caller reads its own tools' names however its answer is cut into *)
(* chunks, and that what leaves the gateway is acceptable to the API, for  *)
(* every dictionary, every list of aliases and requests, answers and streams*)
(* of every length.                                                        *)
(***************************************************************************)
EXTENDS Exchange, InductionLemmas

-----------------------------------------------------------------------------
(* One step of a fold per entry, key or symbol.                            *)

\* A Map or an object filled one key at a time.
LEMMA FilledSteps ==
    ASSUME NEW s \in Seq(Words), NEW K
    PROVE  \E c \in [0..Len(s) -> Seq(Words)] :
              /\ c[0] = <<>> /\ c[Len(s)] = Filled(s, K)
              /\ \A k \in 1..Len(s) : c[k] = Put(c[k - 1], s[k], K)
<1> DEFINE n == Len(s)
           V == Seq(Words)
           Does(t, k) == Put(t, s[k], K)
           step == [p \in V \X (1..n) |-> Does(p[1], p[2])]
           Unfolds(g) == g = [T \in SUBSET (1..n) |-> IF T = {} THEN <<>> ELSE Does(g[T \ {Max(T)}], Max(T))]
           it == CHOOSE g : Unfolds(g)
<1>1. n \in Nat /\ DOMAIN s = 1..n
  OBVIOUS
<1>2. \A t \in V, k \in 1..n : Does(t, k) \in V
  <2> SUFFICES ASSUME NEW t \in V, NEW k \in 1..n PROVE Does(t, k) \in V
    OBVIOUS
  <2>1. s[k] \in Words
    BY ElementOfSeq
  <2> QED BY <2>1 DEF Put
<1>3. Filled(s, K) = it[1..n]
  BY <1>1 DEF Filled, FoldLeft, MapThenFoldSet
<1>4. <<>> \in V
  OBVIOUS
<1> HIDE DEF V, Does, n
<1>5. step \in [V \X (1..n) -> V] /\ \A t \in V, k \in 1..n : step[<<t, k>>] = Does(t, k)
  BY <1>2
<1> HIDE DEF step
<1>6. \E g : Unfolds(g)
  <2>1. PICK g : IsFold(g, step, <<>>, 1..n)
    BY <1>1, FoldExists
  <2>2. \A T \in SUBSET (1..n) : g[T] \in V
    BY <1>1, <1>4, <1>5, <2>1, FoldInDomain
  <2>3. \A T \in SUBSET (1..n) : T # {} => step[<<g[T \ {Max(T)}], Max(T)>>] = Does(g[T \ {Max(T)}], Max(T))
    BY <1>1, <1>5, <2>2, MaxOf
  <2>4. Unfolds(g)
    BY <2>1, <2>3 DEF IsFold
  <2> QED BY <2>4
<1>7. Unfolds(it)
  BY <1>6
<1> HIDE DEF it
<1>8. Gathers(it, V, n, step, <<>>)
  <2>1. it[{}] = <<>>
    BY <1>7, {} \in SUBSET (1..n)
  <2>2. ASSUME NEW T \in SUBSET (1..n), T # {}, it[T \ {Max(T)}] \in V
        PROVE  it[T] = step[<<it[T \ {Max(T)}], Max(T)>>]
    <3>1. Max(T) \in 1..n
      BY <1>1, <2>2, MaxOf
    <3> QED BY <1>5, <1>7, <2>2, <3>1
  <2> QED BY <2>1, <2>2 DEF Gathers
<1>9. PICK c : IsChain(c, V, n, step, <<>>, it[1..n])
  BY <1>1, <1>4, <1>5, <1>8, FoldChain
<1>10. c \in [0..n -> V] /\ c[0] = <<>> /\ c[n] = it[1..n] /\ \A k \in 1..n : c[k] = step[<<c[k - 1], k>>]
  BY <1>9 DEF IsChain
<1>11. \A k \in 1..n : c[k] = Does(c[k - 1], k)
  <2> SUFFICES ASSUME NEW k \in 1..n PROVE c[k] = Does(c[k - 1], k)
    OBVIOUS
  <2>1. c[k - 1] \in V
    BY <1>1, <1>10
  <2> QED BY <1>5, <1>10, <2>1
<1> QED BY <1>3, <1>10, <1>11 DEF V, Does, n

\* A half of a name on the wire.
Symbol == [of : Words, half : {1, 2}]

\* A word is two symbols.
LEMMA EncodeType ==
    ASSUME NEW w \in Words
    PROVE  Encode(w) \in Seq(Symbol) /\ Len(Encode(w)) = 2 /\ Encode(w) # <<>>
BY DEF Encode, Symbol

\* Restoring a symbol leaves text.
LEMMA RestoreType ==
    ASSUME NEW names \in Seq(Words), NEW t \in Seq(Symbol), NEW s \in Symbol
    PROVE  Restore(names, t, s) \in Seq(Symbol)
<1>1. CASE EndsAlias(names, t, s)
  <2> DEFINE i == CHOOSE j \in DOMAIN names : Aliases[j] = s.of
  <2>1. i \in DOMAIN names
    BY <1>1 DEF EndsAlias
  <2> HIDE DEF i
  <2>2. names[i] \in Words
    BY <2>1
  <2>3. Front(t) \in Seq(Symbol)
    BY <1>1 DEF EndsAlias, Front
  <2>4. Encode(names[i]) \in Seq(Symbol)
    BY <2>2, EncodeType
  <2>5. Front(t) \o Encode(names[i]) \in Seq(Symbol)
    BY <2>3, <2>4
  <2> QED BY <1>1, <2>5 DEF Restore, i
<1>2. CASE ~EndsAlias(names, t, s)
  BY <1>2 DEF Restore
<1> QED BY <1>1, <1>2

\* A text reversed one symbol at a time.
LEMMA ReverseSteps ==
    ASSUME NEW names \in Seq(Words), NEW text \in Seq(Symbol)
    PROVE  \E c \in [0..Len(text) -> Seq(Symbol)] :
              /\ c[0] = <<>> /\ c[Len(text)] = ReverseNames(names, text)
              /\ \A k \in 1..Len(text) : c[k] = Restore(names, c[k - 1], text[k])
<1> DEFINE n == Len(text)
           V == Seq(Symbol)
           Does(t, k) == Restore(names, t, text[k])
           step == [p \in V \X (1..n) |-> Does(p[1], p[2])]
           Unfolds(g) == g = [T \in SUBSET (1..n) |-> IF T = {} THEN <<>> ELSE Does(g[T \ {Max(T)}], Max(T))]
           it == CHOOSE g : Unfolds(g)
<1>1. n \in Nat /\ DOMAIN text = 1..n
  OBVIOUS
<1>2. \A t \in V, k \in 1..n : Does(t, k) \in V
  <2> SUFFICES ASSUME NEW t \in V, NEW k \in 1..n PROVE Does(t, k) \in V
    OBVIOUS
  <2>1. text[k] \in Symbol
    BY ElementOfSeq
  <2> QED BY <2>1, RestoreType
<1>3. ReverseNames(names, text) = it[1..n]
  BY <1>1 DEF ReverseNames, FoldLeft, MapThenFoldSet
<1>4. <<>> \in V
  OBVIOUS
<1> HIDE DEF V, Does, n
<1>5. step \in [V \X (1..n) -> V] /\ \A t \in V, k \in 1..n : step[<<t, k>>] = Does(t, k)
  BY <1>2
<1> HIDE DEF step
<1>6. \E g : Unfolds(g)
  <2>1. PICK g : IsFold(g, step, <<>>, 1..n)
    BY <1>1, FoldExists
  <2>2. \A T \in SUBSET (1..n) : g[T] \in V
    BY <1>1, <1>4, <1>5, <2>1, FoldInDomain
  <2>3. \A T \in SUBSET (1..n) : T # {} => step[<<g[T \ {Max(T)}], Max(T)>>] = Does(g[T \ {Max(T)}], Max(T))
    BY <1>1, <1>5, <2>2, MaxOf
  <2>4. Unfolds(g)
    BY <2>1, <2>3 DEF IsFold
  <2> QED BY <2>4
<1>7. Unfolds(it)
  BY <1>6
<1> HIDE DEF it
<1>8. Gathers(it, V, n, step, <<>>)
  <2>1. it[{}] = <<>>
    BY <1>7, {} \in SUBSET (1..n)
  <2>2. ASSUME NEW T \in SUBSET (1..n), T # {}, it[T \ {Max(T)}] \in V
        PROVE  it[T] = step[<<it[T \ {Max(T)}], Max(T)>>]
    <3>1. Max(T) \in 1..n
      BY <1>1, <2>2, MaxOf
    <3> QED BY <1>5, <1>7, <2>2, <3>1
  <2> QED BY <2>1, <2>2 DEF Gathers
<1>9. PICK c : IsChain(c, V, n, step, <<>>, it[1..n])
  BY <1>1, <1>4, <1>5, <1>8, FoldChain
<1>10. c \in [0..n -> V] /\ c[0] = <<>> /\ c[n] = it[1..n] /\ \A k \in 1..n : c[k] = step[<<c[k - 1], k>>]
  BY <1>9 DEF IsChain
<1>11. \A k \in 1..n : c[k] = Does(c[k - 1], k)
  <2> SUFFICES ASSUME NEW k \in 1..n PROVE c[k] = Does(c[k - 1], k)
    OBVIOUS
  <2>1. c[k - 1] \in V
    BY <1>1, <1>10
  <2> QED BY <1>5, <1>10, <2>1
<1> QED BY <1>3, <1>10, <1>11 DEF V, Does, n

-----------------------------------------------------------------------------
(* The dictionary: what a text says once its triggers are replaced.         *)

\* An entry of the dictionary, and a text split at its pattern so far.
Entry == [pattern : Seq(Words), replacement : Seq(Words)]
Splits == [done : Seq(Words), run : Seq(Words)]

\* What comes of one more word: it ends the trigger, or not.
LEMMA AdvanceIs ==
    ASSUME NEW d \in Entry, NEW s \in Splits, NEW w \in Words
    PROVE  LET run == Append(s.run, w)
               cut == Len(run) - Len(d.pattern)
               a   == Advance(d, s, w)
           IN /\ a \in Splits /\ run \in Seq(Words) /\ Len(run) = Len(s.run) + 1
              /\ \/ a.done = s.done /\ a.run = run /\ ~(cut >= 0 /\ StandsAt(d.pattern, run, cut))
                 \/ /\ cut >= 0 /\ StandsAt(d.pattern, run, cut)
                    /\ a.run = <<>> /\ a.done = s.done \o SubSeq(run, 1, cut) \o d.replacement
                    /\ SubSeq(run, 1, cut) \in Seq(Words) /\ Len(SubSeq(run, 1, cut)) = cut
                    /\ \A i \in 1..cut : SubSeq(run, 1, cut)[i] = run[i]
<1> DEFINE run == Append(s.run, w)
           cut == Len(run) - Len(d.pattern)
           met == cut >= 0 /\ StandsAt(d.pattern, run, cut)
<1>1. s.run \in Seq(Words) /\ s.done \in Seq(Words) /\ d.pattern \in Seq(Words) /\ d.replacement \in Seq(Words)
  BY DEF Splits, Entry
<1>2. run \in Seq(Words) /\ Len(run) = Len(s.run) + 1 /\ Len(run) \in Nat /\ Len(d.pattern) \in Nat /\ cut \in Int /\ cut <= Len(run)
  <2>1. run \in Seq(Words) /\ Len(run) = Len(s.run) + 1
    BY <1>1, AppendProperties
  <2>2. Len(d.pattern) \in Nat /\ Len(s.run) \in Nat
    BY <1>1
  <2> HIDE DEF run
  <2>3. Len(run) \in Nat
    BY <2>1, <2>2
  <2>4. cut \in Int /\ cut <= Len(run)
    BY <2>2, <2>3
  <2> QED BY <2>1, <2>2, <2>3, <2>4
<1>3. Advance(d, s, w) = IF met THEN [done |-> s.done \o SubSeq(run, 1, cut) \o d.replacement, run |-> <<>>]
                                ELSE [s EXCEPT !.run = run]
  BY DEF Advance
<1> HIDE DEF run, cut
<1>4. CASE met
  <2>1. cut \in 0..Len(run)
    BY <1>2, <1>4
  <2>2. /\ SubSeq(run, 1, cut) \in Seq(Words) /\ Len(SubSeq(run, 1, cut)) = cut
        /\ \A i \in 1..cut : SubSeq(run, 1, cut)[i] = run[i]
    BY <1>2, <2>1, CutInTwo
  <2> DEFINE whole == s.done \o SubSeq(run, 1, cut) \o d.replacement
             a == [done |-> whole, run |-> <<>>]
  <2>3. whole \in Seq(Words)
    BY <1>1, <2>2
  <2> HIDE DEF whole
  <2>4. a \in Splits /\ a.done = whole /\ a.run = <<>>
    BY <2>3 DEF Splits
  <2>5. Advance(d, s, w) = a
    BY <1>3, <1>4 DEF whole
  <2> QED BY <1>2, <1>4, <2>2, <2>4, <2>5 DEF run, cut, whole
<1>5. CASE ~met
  <2>1. [s EXCEPT !.run = run] \in Splits /\ [s EXCEPT !.run = run].run = run /\ [s EXCEPT !.run = run].done = s.done
    BY <1>2 DEF Splits
  <2> QED BY <1>2, <1>3, <1>5, <2>1 DEF run, cut
<1> QED BY <1>4, <1>5

\* Three sequences, one after the other.
LEMMA ThreeInARow ==
    ASSUME NEW X, NEW a \in Seq(X), NEW b \in Seq(X), NEW e \in Seq(X)
    PROVE  /\ a \o b \o e \in Seq(X) /\ Len(a \o b \o e) = Len(a) + Len(b) + Len(e)
           /\ \A i \in 1..Len(a) : (a \o b \o e)[i] = a[i]
           /\ \A i \in 1..Len(b) : (a \o b \o e)[Len(a) + i] = b[i]
           /\ \A i \in 1..Len(e) : (a \o b \o e)[Len(a) + Len(b) + i] = e[i]
<1> DEFINE t == a \o b
<1>1. t \in Seq(X) /\ Len(t) = Len(a) + Len(b) /\ Len(a) \in Nat /\ Len(b) \in Nat /\ Len(e) \in Nat
      /\ \A i \in 1..Len(t) : t[i] = IF i <= Len(a) THEN a[i] ELSE b[i - Len(a)]
  BY ConcatProperties
<1>2. t \o e \in Seq(X) /\ Len(t \o e) = Len(t) + Len(e)
      /\ \A i \in 1..(Len(t) + Len(e)) : (t \o e)[i] = IF i <= Len(t) THEN t[i] ELSE e[i - Len(t)]
  <2> HIDE DEF t
  <2> QED BY <1>1, ConcatProperties
<1> HIDE DEF t
<1>3. ASSUME NEW i \in 1..Len(a) PROVE (t \o e)[i] = a[i]
  BY <1>1, <1>2
<1>4. ASSUME NEW i \in 1..Len(b) PROVE (t \o e)[Len(a) + i] = b[i]
  <2> DEFINE j == Len(a) + i
  <2>1. j \in 1..Len(t) /\ j \in 1..(Len(t) + Len(e)) /\ ~(j <= Len(a)) /\ j <= Len(t) /\ j - Len(a) = i
    BY <1>1
  <2> HIDE DEF j
  <2>2. (t \o e)[j] = t[j] /\ t[j] = b[i]
    BY <1>1, <1>2, <2>1
  <2> QED BY <2>2 DEF j
<1>5. ASSUME NEW i \in 1..Len(e) PROVE (t \o e)[Len(a) + Len(b) + i] = e[i]
  <2> DEFINE j == Len(a) + Len(b) + i
  <2>1. j \in 1..(Len(t) + Len(e)) /\ ~(j <= Len(t)) /\ j - Len(t) = i
    BY <1>1
  <2> HIDE DEF j
  <2>2. (t \o e)[j] = e[i]
    BY <1>2, <2>1
  <2> QED BY <2>2 DEF j
<1> QED BY <1>1, <1>2, <1>3, <1>4, <1>5 DEF t

\* A sequence without its first words.
After(q, k) == SubSeq(q, k + 1, Len(q))

\* r ends as q begins, k words long.
EndsAs(r, q, k) == k <= Len(r) /\ StandsAt(SubSeq(q, 1, k), r, Len(r) - k)

\* The parts of a sequence, word by word.
LEMMA PartsOf ==
    ASSUME NEW q \in Seq(Words), NEW k \in 0..Len(q)
    PROVE  /\ SubSeq(q, 1, k) \in Seq(Words) /\ After(q, k) \in Seq(Words)
           /\ Len(SubSeq(q, 1, k)) = k /\ Len(After(q, k)) = Len(q) - k
           /\ \A j \in 1..k : SubSeq(q, 1, k)[j] = q[j]
           /\ \A j \in 1..(Len(q) - k) : After(q, k)[j] = q[k + j]
<1>1. k \in Nat /\ Len(q) \in Nat /\ k <= Len(q)
  OBVIOUS
<1>2. /\ SubSeq(q, 1, k) \in Seq(Words) /\ Len(SubSeq(q, 1, k)) = k
      /\ \A j \in 1..k : SubSeq(q, 1, k)[j] = q[j]
  BY <1>1
<1>3. /\ After(q, k) \in Seq(Words) /\ Len(After(q, k)) = Len(q) - k
      /\ \A j \in 1..(Len(q) - k) : After(q, k)[j] = q[k + j]
  BY <1>1 DEF After
<1> QED BY <1>2, <1>3

\* Where they stand, word by word.
LEMMA PartsStand ==
    ASSUME NEW q \in Seq(Words), NEW k \in 0..Len(q), NEW t \in Seq(Words), NEW i \in Int
    PROVE  /\ StandsAt(SubSeq(q, 1, k), t, i) <=> i + k <= Len(t) /\ \A j \in 1..k : t[i + j] = q[j]
           /\ StandsAt(After(q, k), t, i) <=>
                i + (Len(q) - k) <= Len(t) /\ \A j \in 1..(Len(q) - k) : t[i + j] = q[k + j]
<1>1. k \in Nat /\ Len(q) \in Nat /\ k <= Len(q)
  OBVIOUS
<1> QED BY <1>1, PartsOf DEF StandsAt

\* q cannot begin before r and reach into it.
StartsApart(q, r) ==
    \A i \in 1..(Len(q) - 1) : \E k \in 1..Len(r) : i + k <= Len(q) /\ q[i + k] # r[k]

\* What stands in a row that replacements end, one at most in each of its ends,
\* stands in one part, or begins as a replacement ends.
LEMMA OccurrenceIn ==
    ASSUME NEW a \in Seq(Words), NEW b \in Seq(Words), NEW e \in Seq(Words),
           NEW q \in Seq(Words), NEW r \in Seq(Words), q # <<>>, r # <<>>,
           StartsApart(q, r), ~Occurs(q, r),
           a = <<>> \/ (Len(r) <= Len(a) /\ StandsAt(r, a, Len(a) - Len(r))),
           e = <<>> \/ e = r,
           Occurs(q, a \o b \o e)
    PROVE  \/ Occurs(q, a) \/ Occurs(q, b)
           \/ a # <<>> /\ \E k \in 1..(Len(q) - 1) : EndsAs(r, q, k) /\ StandsAt(After(q, k), b, 0)
<1> DEFINE x == a \o b \o e
           A == Len(a)
           B == Len(b)
           L == Len(q)
           R == Len(r)
<1>1. /\ Len(x) = A + B + Len(e) /\ A \in Nat /\ B \in Nat /\ L \in Nat /\ R \in Nat /\ Len(e) \in Nat /\ L >= 1 /\ R >= 1
      /\ \A i \in 1..A : x[i] = a[i]
      /\ \A i \in 1..B : x[A + i] = b[i]
      /\ \A i \in 1..Len(e) : x[A + B + i] = e[i]
  <2>1. L >= 1 /\ R >= 1 /\ L \in Nat /\ R \in Nat
    BY EmptySeq, LenProperties
  <2>2. Len(a) \in Nat /\ Len(b) \in Nat /\ Len(e) \in Nat
    OBVIOUS
  <2>3. /\ Len(a \o b \o e) = Len(a) + Len(b) + Len(e)
        /\ \A i \in 1..Len(a) : (a \o b \o e)[i] = a[i]
        /\ \A i \in 1..Len(b) : (a \o b \o e)[Len(a) + i] = b[i]
        /\ \A i \in 1..Len(e) : (a \o b \o e)[Len(a) + Len(b) + i] = e[i]
    BY ThreeInARow
  <2> HIDE DEF x
  <2> QED BY <2>1, <2>2, <2>3 DEF x
<1>2. PICK i \in 0..Len(x) : i + L <= Len(x) /\ \A k \in 1..L : x[i + k] = q[k]
  BY DEF Occurs, StandsAt
<1> HIDE DEF x, A, B, L, R
<1>10. i \in Nat /\ A \in Nat /\ B \in Nat /\ L \in Nat /\ R \in Nat
  BY <1>1, <1>2
\* q does not reach past the beginning of r at n, if it begins before.
<1>3. ASSUME NEW n \in Nat, i < n, n < i + L, \A k \in 1..R : n + k <= i + L => x[n + k] = r[k]
      PROVE  FALSE
  <2>1. n - i \in 1..(L - 1)
    BY <1>1, <1>2, <1>3
  <2>2. PICK k \in 1..R : (n - i) + k <= L /\ q[(n - i) + k] # r[k]
    BY <2>1 DEF StartsApart, L, R
  <2>3. n + k <= i + L /\ x[n + k] = r[k]
    BY <1>1, <1>2, <1>3, <2>2
  <2>4. (n - i) + k \in 1..L /\ i + ((n - i) + k) = n + k
    BY <1>1, <1>2, <2>1, <2>2
  <2>5. x[i + ((n - i) + k)] = q[(n - i) + k]
    BY <1>2, <2>4
  <2> QED BY <2>2, <2>3, <2>4, <2>5
<1>4. CASE i + L <= A
  <2>1. \A k \in 1..L : i + k \in 1..A
    BY <1>1, <1>2, <1>4
  <2>2. \A k \in 1..L : a[i + k] = q[k]
    BY <1>1, <1>2, <2>1
  <2>3. i \in 0..Len(a)
    BY <1>1, <1>2, <1>4 DEF A
  <2> QED BY <1>4, <2>2, <2>3 DEF Occurs, StandsAt, A, L
<1>5. ASSUME i + L > A, A + B < i + L PROVE i >= A + B
  <2> SUFFICES ASSUME i < A + B PROVE FALSE
    BY <1>1, <1>2
  <2>1. e = r
    <3>1. e # <<>>
      BY <1>1, <1>2, <1>5
    <3> QED BY <3>1
  <2>2. \A k \in 1..R : (A + B) + k <= i + L => x[(A + B) + k] = r[k]
    BY <1>1, <2>1 DEF R
  <2>3. A + B \in Nat
    BY <1>1
  <2> QED BY <1>3, <1>5, <2>2, <2>3
<1>6. ASSUME A + B <= i PROVE FALSE
  <2>1. e = r /\ Len(e) = R
    <3>1. e # <<>>
      BY <1>1, <1>2, <1>6
    <3> QED BY <3>1 DEF R
  <2>2. (i - (A + B)) \in 0..R /\ (i - (A + B)) + L <= R
    BY <1>1, <1>2, <1>6, <2>1
  <2>3. ASSUME NEW k \in 1..L PROVE r[(i - (A + B)) + k] = q[k]
    <3>1. (i - (A + B)) + k \in 1..Len(e) /\ (A + B) + ((i - (A + B)) + k) = i + k
      <4>1. (i - (A + B)) + k \in 1..R
        BY <1>10, <2>2
      <4>2. (A + B) + ((i - (A + B)) + k) = i + k
        BY <1>10
      <4> QED BY <2>1, <4>1, <4>2
    <3>2. x[(A + B) + ((i - (A + B)) + k)] = e[(i - (A + B)) + k]
      BY <1>1, <3>1
    <3> QED BY <1>2, <2>1, <3>1, <3>2
  <2>4. Occurs(q, r)
    BY <2>2, <2>3 DEF Occurs, StandsAt, R, L
  <2> QED BY <2>4
<1>7. CASE A <= i /\ i < A + B
  <2>1. i + L <= A + B
    BY <1>1, <1>2, <1>5, <1>7
  <2>2. i - A \in 0..B /\ (i - A) + L <= B
    BY <1>1, <1>2, <1>7, <2>1
  <2>3. ASSUME NEW k \in 1..L PROVE b[(i - A) + k] = q[k]
    <3>1. (i - A) + k \in 1..B /\ A + ((i - A) + k) = i + k
      <4>1. (i - A) + k \in 1..B
        BY <1>10, <2>2
      <4>2. A + ((i - A) + k) = i + k
        BY <1>10
      <4> QED BY <4>1, <4>2
    <3>2. x[A + ((i - A) + k)] = b[(i - A) + k]
      BY <1>1, <3>1
    <3> QED BY <1>2, <3>1, <3>2
  <2>4. Occurs(q, b)
    BY <2>2, <2>3 DEF Occurs, StandsAt, B, L
  <2> QED BY <2>4
<1>8. CASE i < A /\ A < i + L
  <2>1. a # <<>> /\ R <= A /\ \A k \in 1..R : a[(A - R) + k] = r[k]
    <3>1. a # <<>>
      BY <1>1, <1>2, <1>8 DEF A
    <3> QED BY <3>1 DEF StandsAt, A, R
  <2>2. \A k \in 1..R : (A - R) + k \in 1..A /\ x[(A - R) + k] = r[k]
    <3> TAKE k \in 1..R
    <3>1. (A - R) + k \in 1..A
      BY <1>1, <2>1
    <3> QED BY <1>1, <2>1, <3>1
  <2>3. A - R <= i
    <3> SUFFICES ASSUME i < A - R PROVE FALSE
      BY <1>1, <1>2
    <3>1. A - R \in Nat /\ A - R < i + L
      BY <1>1, <1>8, <2>1
    <3> QED BY <1>3, <2>2, <3>1
  <2>4. i + L <= A + B
    <3> SUFFICES ASSUME A + B < i + L PROVE FALSE
      BY <1>1, <1>2
    <3>1. i >= A + B
      BY <1>1, <1>2, <1>5, <1>8
    <3> QED BY <1>1, <1>2, <1>8, <3>1
  <2> DEFINE k == A - i
  <2>5. k \in 1..(L - 1) /\ k <= R /\ k \in 0..L /\ i = A - k
    BY <1>1, <1>2, <1>8, <2>3
  <2> HIDE DEF k
  <2>6. \A j \in 1..k : r[(R - k) + j] = q[j]
    <3> TAKE j \in 1..k
    <3>1. (R - k) + j \in 1..R /\ (A - R) + ((R - k) + j) = i + j /\ j \in 1..L
      BY <1>1, <1>2, <2>5
    <3>2. x[(A - R) + ((R - k) + j)] = r[(R - k) + j]
      BY <2>2, <3>1
    <3> QED BY <1>2, <3>1, <3>2
  <2>7. \A j \in 1..(L - k) : b[0 + j] = q[k + j]
    <3> TAKE j \in 1..(L - k)
    <3>1. j \in 1..B /\ k + j \in 1..L /\ i + (k + j) = A + j /\ 0 + j = j
      BY <1>1, <1>2, <2>4, <2>5
    <3>2. x[A + j] = b[j] /\ x[i + (k + j)] = q[k + j]
      BY <1>1, <1>2, <3>1
    <3> QED BY <3>1, <3>2
  <2>8. EndsAs(r, q, k)
    <3>1. (R - k) + k <= R /\ R - k \in Int
      BY <1>1, <2>5
    <3>2. StandsAt(SubSeq(q, 1, k), r, R - k)
      BY <2>5, <2>6, <3>1, PartsStand DEF L, R
    <3> QED BY <2>5, <3>2 DEF EndsAs, R
  <2>9. StandsAt(After(q, k), b, 0)
    <3>1. 0 + (L - k) <= B
      BY <1>1, <1>2, <2>4, <2>5
    <3> QED BY <2>5, <2>7, <3>1, PartsStand DEF L, B
  <2> QED BY <2>1, <2>5, <2>8, <2>9 DEF L
<1>9. i + L <= A \/ (i < A /\ A < i + L) \/ (A <= i /\ i < A + B) \/ A + B <= i
  BY <1>1, <1>2
<1> QED BY <1>4, <1>6, <1>7, <1>8, <1>9

\* A text split one word at a time.
LEMMA SplitSteps ==
    ASSUME NEW d \in Entry, NEW text \in Seq(Words)
    PROVE  \E c \in [0..Len(text) -> Splits] :
              /\ c[0] = [done |-> <<>>, run |-> <<>>]
              /\ ReplaceTrigger(text, d) = c[Len(text)].done \o c[Len(text)].run
              /\ \A k \in 1..Len(text) : c[k] = Advance(d, c[k - 1], text[k])
<1> DEFINE n == Len(text)
           V == Splits
           base == [done |-> <<>>, run |-> <<>>]
           Does(t, k) == Advance(d, t, text[k])
           step == [p \in V \X (1..n) |-> Does(p[1], p[2])]
           Unfolds(g) == g = [T \in SUBSET (1..n) |-> IF T = {} THEN base ELSE Does(g[T \ {Max(T)}], Max(T))]
           it == CHOOSE g : Unfolds(g)
<1>1. n \in Nat /\ DOMAIN text = 1..n
  OBVIOUS
<1>2. \A t \in V, k \in 1..n : Does(t, k) \in V
  <2> SUFFICES ASSUME NEW t \in V, NEW k \in 1..n PROVE Does(t, k) \in V
    OBVIOUS
  <2>1. text[k] \in Words
    BY ElementOfSeq
  <2> QED BY <2>1, AdvanceIs
<1>3. ReplaceTrigger(text, d) = it[1..n].done \o it[1..n].run
  BY <1>1 DEF ReplaceTrigger, FoldLeft, MapThenFoldSet
<1>4. base \in V
  BY DEF Splits
<1> HIDE DEF V, Does, n, base
<1>5. step \in [V \X (1..n) -> V] /\ \A t \in V, k \in 1..n : step[<<t, k>>] = Does(t, k)
  BY <1>2
<1> HIDE DEF step
<1>6. \E g : Unfolds(g)
  <2>1. PICK g : IsFold(g, step, base, 1..n)
    BY <1>1, FoldExists
  <2>2. \A T \in SUBSET (1..n) : g[T] \in V
    BY <1>1, <1>4, <1>5, <2>1, FoldInDomain
  <2>3. \A T \in SUBSET (1..n) : T # {} => step[<<g[T \ {Max(T)}], Max(T)>>] = Does(g[T \ {Max(T)}], Max(T))
    BY <1>1, <1>5, <2>2, MaxOf
  <2>4. Unfolds(g)
    BY <2>1, <2>3 DEF IsFold
  <2> QED BY <2>4
<1>7. Unfolds(it)
  BY <1>6
<1> HIDE DEF it
<1>8. Gathers(it, V, n, step, base)
  <2>1. it[{}] = base
    BY <1>7, {} \in SUBSET (1..n)
  <2>2. ASSUME NEW T \in SUBSET (1..n), T # {}, it[T \ {Max(T)}] \in V
        PROVE  it[T] = step[<<it[T \ {Max(T)}], Max(T)>>]
    <3>1. Max(T) \in 1..n
      BY <1>1, <2>2, MaxOf
    <3> QED BY <1>5, <1>7, <2>2, <3>1
  <2> QED BY <2>1, <2>2 DEF Gathers
<1>9. PICK c : IsChain(c, V, n, step, base, it[1..n])
  BY <1>1, <1>4, <1>5, <1>8, FoldChain
<1>10. c \in [0..n -> V] /\ c[0] = base /\ c[n] = it[1..n] /\ \A k \in 1..n : c[k] = step[<<c[k - 1], k>>]
  BY <1>9 DEF IsChain
<1>11. \A k \in 1..n : c[k] = Does(c[k - 1], k)
  <2> SUFFICES ASSUME NEW k \in 1..n PROVE c[k] = Does(c[k - 1], k)
    OBVIOUS
  <2>1. c[k - 1] \in V
    BY <1>1, <1>10
  <2> QED BY <1>5, <1>10, <2>1
<1> QED BY <1>3, <1>10, <1>11 DEF V, Does, n, base

\* What an entry makes of a text is a text.
LEMMA ReplacedType ==
    ASSUME NEW d \in Entry, NEW text \in Seq(Words)
    PROVE  ReplaceTrigger(text, d) \in Seq(Words)
<1>1. PICK c \in [0..Len(text) -> Splits] : ReplaceTrigger(text, d) = c[Len(text)].done \o c[Len(text)].run
  BY SplitSteps
<1>2. c[Len(text)] \in Splits
  OBVIOUS
<1> QED BY <1>1, <1>2 DEF Splits

\* A sequence stood in the text, or would after a replacement.
Came(q, d, text) ==
    \/ q # d.pattern /\ Occurs(q, text)
    \/ \E k \in 1..(Len(q) - 1) : EndsAs(d.replacement, q, k) /\ Occurs(d.pattern \o After(q, k), text)

\* What one state of the splitting says of the text so far: m words are done.
Scanned(s, m, d, text) ==
    /\ m + Len(s.run) <= Len(text) /\ StandsAt(s.run, text, m)
    /\ ~Occurs(d.pattern, s.run)
    /\ \/ s.done = <<>>
       \/ /\ Len(d.pattern) <= m /\ StandsAt(d.pattern, text, m - Len(d.pattern))
          /\ Len(d.replacement) <= Len(s.done)
          /\ StandsAt(d.replacement, s.done, Len(s.done) - Len(d.replacement))

\* What stands in what is done, a part of the run and another replacement.
LEMMA RowCame ==
    ASSUME NEW d \in Entry, NEW text \in Seq(Words), NEW s \in Splits, NEW m \in Nat,
           d.pattern # <<>>, d.replacement # <<>>, Scanned(s, m, d, text),
           NEW q \in Seq(Words), q # <<>>, StartsApart(q, d.replacement), ~Occurs(q, d.replacement),
           Occurs(q, s.done) => Came(q, d, text),
           NEW b \in Seq(Words), StandsAt(b, text, m), ~Occurs(d.pattern, b),
           NEW e \in Seq(Words), e = <<>> \/ e = d.replacement,
           Occurs(q, s.done \o b \o e)
    PROVE  Came(q, d, text)
<1> DEFINE p == d.pattern
           r == d.replacement
<1>1. s.done \in Seq(Words) /\ p \in Seq(Words) /\ r \in Seq(Words)
  BY DEF Splits, Entry
<1>2. Len(b) \in Nat /\ Len(q) \in Nat /\ Len(p) \in Nat /\ Len(text) \in Nat
  BY <1>1
<1>3. s.done = <<>> \/ (Len(r) <= Len(s.done) /\ StandsAt(r, s.done, Len(s.done) - Len(r)))
  BY DEF Scanned
<1>4. \/ Occurs(q, s.done) \/ Occurs(q, b)
      \/ s.done # <<>> /\ \E k \in 1..(Len(q) - 1) : EndsAs(r, q, k) /\ StandsAt(After(q, k), b, 0)
  <2> HIDE DEF p, r
  <2>1. StartsApart(q, r) /\ ~Occurs(q, r) /\ r # <<>> /\ (e = <<>> \/ e = r)
    BY DEF r
  <2> QED BY <1>1, <1>3, <2>1, OccurrenceIn
<1>5. CASE Occurs(q, b)
  <2>1. PICK i \in 0..Len(b) : i + Len(q) <= Len(b) /\ \A k \in 1..Len(q) : b[i + k] = q[k]
    BY <1>5 DEF Occurs, StandsAt
  <2>2. m + Len(b) <= Len(text) /\ \A k \in 1..Len(b) : text[m + k] = b[k]
    BY DEF StandsAt
  <2>3. m + i \in 0..Len(text) /\ (m + i) + Len(q) <= Len(text)
    BY <1>2, <2>1, <2>2
  <2>4. ASSUME NEW k \in 1..Len(q) PROVE text[(m + i) + k] = q[k]
    <3>1. i + k \in 1..Len(b) /\ m + (i + k) = (m + i) + k
      BY <1>2, <2>1
    <3> QED BY <2>1, <2>2, <3>1
  <2>5. Occurs(q, text)
    BY <2>3, <2>4 DEF Occurs, StandsAt
  <2> QED BY <1>5, <2>5 DEF Came
<1>6. CASE s.done # <<>> /\ \E k \in 1..(Len(q) - 1) : EndsAs(r, q, k) /\ StandsAt(After(q, k), b, 0)
  <2>1. PICK k \in 1..(Len(q) - 1) : EndsAs(r, q, k) /\ StandsAt(After(q, k), b, 0)
    BY <1>6
  <2>2. Len(p) <= m /\ m <= Len(text) /\ \A j \in 1..Len(p) : text[(m - Len(p)) + j] = p[j]
    <3>1. m + Len(s.run) <= Len(text) /\ Len(p) <= m /\ StandsAt(p, text, m - Len(p))
      BY <1>6 DEF Scanned
    <3>2. Len(s.run) \in Nat
      BY DEF Splits
    <3>3. m <= Len(text)
      BY <1>2, <3>1, <3>2
    <3>4. \A j \in 1..Len(p) : text[(m - Len(p)) + j] = p[j]
      BY <3>1 DEF StandsAt
    <3> QED BY <3>1, <3>3, <3>4
  <2> DEFINE f == After(q, k)
             i == m - Len(p)
  <2>3. f \in Seq(Words) /\ k \in 0..Len(q)
    <3>1. k \in 0..Len(q)
      BY <1>2, <2>1
    <3> QED BY <3>1, PartsOf
  <2>4. Len(f) \in Nat /\ i \in 0..Len(text) /\ i + Len(p) = m
    BY <1>2, <2>2, <2>3
  <2>5. Len(f) <= Len(b) /\ \A j \in 1..Len(f) : b[j] = f[j]
    <3>1. 0 + Len(f) <= Len(b) /\ \A j \in 1..Len(f) : b[0 + j] = f[j]
      BY <2>1 DEF StandsAt
    <3> HIDE DEF f
    <3> QED BY <1>2, <2>4, <3>1
  <2> HIDE DEF f, p
  <2>6. m + Len(b) <= Len(text) /\ \A j \in 1..Len(b) : text[m + j] = b[j]
    BY DEF StandsAt
  <2>7. Len(p \o f) = Len(p) + Len(f)
        /\ \A j \in 1..(Len(p) + Len(f)) : (p \o f)[j] = IF j <= Len(p) THEN p[j] ELSE f[j - Len(p)]
    BY <1>1, <2>3, ConcatProperties
  <2>8. i + Len(p \o f) <= Len(text)
    BY <1>2, <2>2, <2>4, <2>5, <2>6, <2>7
  <2>9. ASSUME NEW j \in 1..Len(p \o f) PROVE text[i + j] = (p \o f)[j]
    <3>1. CASE j <= Len(p)
      BY <1>2, <2>2, <2>4, <2>7, <3>1
    <3>2. CASE j > Len(p)
      <4>1. j - Len(p) \in 1..Len(f) /\ j - Len(p) \in 1..Len(b) /\ m + (j - Len(p)) = i + j /\ ~(j <= Len(p))
        BY <1>2, <2>4, <2>5, <2>7, <3>2
      <4>2. text[m + (j - Len(p))] = f[j - Len(p)] /\ (p \o f)[j] = f[j - Len(p)]
        BY <1>2, <2>4, <2>5, <2>6, <2>7, <4>1
      <4> QED BY <4>1, <4>2
    <3> QED BY <1>2, <2>4, <2>7, <3>1, <3>2
  <2>10. Occurs(p \o f, text)
    BY <2>4, <2>8, <2>9 DEF Occurs, StandsAt
  <2> QED BY <2>1, <2>10 DEF Came, p, f
<1> QED BY <1>4, <1>5, <1>6

\* No part of a run says the trigger: it is done as soon as it does.
LEMMA RunPart ==
    ASSUME NEW d \in Entry, NEW run \in Seq(Words), NEW w \in Words,
           d.pattern # <<>>, ~Occurs(d.pattern, run),
           NEW b \in Seq(Words), Len(b) <= Len(run) + 1, \A i \in 1..Len(b) : b[i] = Append(run, w)[i],
           Len(b) = Len(run) + 1 =>
             ~(Len(b) >= Len(d.pattern) /\ StandsAt(d.pattern, b, Len(b) - Len(d.pattern)))
    PROVE  ~Occurs(d.pattern, b)
<1> DEFINE p == d.pattern
<1>1. p \in Seq(Words) /\ Len(p) \in Nat /\ Len(p) >= 1 /\ Len(run) \in Nat /\ Len(b) \in Nat
  <2>1. p \in Seq(Words)
    BY DEF Entry
  <2> QED BY <2>1, EmptySeq
<1>2. \A i \in 1..Len(run) : Append(run, w)[i] = run[i]
  BY AppendProperties
<1> HIDE DEF p
<1>3. SUFFICES ASSUME NEW i \in 0..Len(b), i + Len(p) <= Len(b), \A k \in 1..Len(p) : b[i + k] = p[k]
               PROVE  FALSE
  BY DEF Occurs, StandsAt, p
<1>4. CASE i + Len(p) <= Len(run)
  <2>1. i \in 0..Len(run)
    BY <1>1, <1>4
  <2>2. ASSUME NEW k \in 1..Len(p) PROVE run[i + k] = p[k]
    <3>1. i + k \in 1..Len(run) /\ i + k \in 1..Len(b)
      BY <1>1, <1>3, <1>4
    <3> QED BY <1>2, <1>3, <3>1
  <2> QED BY <1>4, <2>1, <2>2 DEF Occurs, StandsAt, p
<1>5. CASE i + Len(p) > Len(run)
  <2>1. Len(b) = Len(run) + 1 /\ i = Len(b) - Len(p) /\ Len(b) >= Len(p)
    BY <1>1, <1>3, <1>5
  <2>2. StandsAt(p, b, Len(b) - Len(p))
    BY <1>1, <1>3, <2>1 DEF StandsAt
  <2> QED BY <2>1, <2>2 DEF p
<1> QED BY <1>1, <1>4, <1>5

\* One more word read.
LEMMA ScannedStep ==
    ASSUME NEW d \in Entry, NEW text \in Seq(Words), NEW s \in Splits, NEW n \in 1..Len(text),
           d.pattern # <<>>, d.replacement # <<>>,
           Len(s.run) <= n - 1, Scanned(s, (n - 1) - Len(s.run), d, text),
           NEW q \in Seq(Words), q # <<>>, StartsApart(q, d.replacement), ~Occurs(q, d.replacement),
           Occurs(q, s.done) => Came(q, d, text)
    PROVE  LET a == Advance(d, s, text[n]) IN
           /\ Len(a.run) <= n /\ Scanned(a, n - Len(a.run), d, text)
           /\ Occurs(q, a.done) => Came(q, d, text)
<1> DEFINE p == d.pattern
           r == d.replacement
           w == text[n]
           run == Append(s.run, w)
           cut == Len(run) - Len(p)
           m == (n - 1) - Len(s.run)
           a == Advance(d, s, w)
<1>1. /\ s.run \in Seq(Words) /\ s.done \in Seq(Words) /\ p \in Seq(Words) /\ r \in Seq(Words)
      /\ w \in Words
  BY ElementOfSeq DEF Splits, Entry
<1>2. Len(s.run) \in Nat /\ Len(s.done) \in Nat /\ Len(p) \in Nat /\ Len(p) >= 1 /\ Len(r) \in Nat /\ Len(text) \in Nat
  BY <1>1, EmptySeq
<1>3. m \in Nat /\ n = m + Len(s.run) + 1
  BY <1>2
<1>4. /\ a \in Splits /\ run \in Seq(Words) /\ Len(run) = Len(s.run) + 1
      /\ \/ a.done = s.done /\ a.run = run /\ ~(cut >= 0 /\ StandsAt(p, run, cut))
         \/ /\ cut >= 0 /\ StandsAt(p, run, cut)
            /\ a.run = <<>> /\ a.done = s.done \o SubSeq(run, 1, cut) \o r
            /\ SubSeq(run, 1, cut) \in Seq(Words) /\ Len(SubSeq(run, 1, cut)) = cut
            /\ \A i \in 1..cut : SubSeq(run, 1, cut)[i] = run[i]
  BY <1>1, AdvanceIs
<1>5. StandsAt(run, text, m)
  <2>1. (\A i \in 1..Len(s.run) : run[i] = s.run[i]) /\ run[Len(s.run) + 1] = w
    BY <1>1, AppendProperties
  <2>4. \A i \in 1..Len(s.run) : text[m + i] = s.run[i]
    BY DEF Scanned, StandsAt
  <2> HIDE DEF run, m
  <2>2. \A i \in 1..Len(run) : i \in 1..Len(s.run) \/ i = Len(s.run) + 1
    BY <1>2, <1>4
  <2>3. text[m + (Len(s.run) + 1)] = w
    <3>1. m + (Len(s.run) + 1) = n
      BY <1>2, <1>3
    <3> QED BY <3>1
  <2>5. m + Len(run) <= Len(text)
    BY <1>2, <1>3, <1>4
  <2> HIDE DEF w
  <2> QED BY <1>2, <1>4, <2>1, <2>2, <2>3, <2>4, <2>5 DEF StandsAt
<1>6. ~Occurs(p, s.run) /\ Scanned(s, m, d, text)
  BY DEF Scanned
<1> HIDE DEF a, run, m, p, r, w
<1>7. CASE a.done = s.done /\ a.run = run /\ ~(cut >= 0 /\ StandsAt(p, run, cut))
  <2>1. ~Occurs(p, run)
    <3>1. Len(run) <= Len(s.run) + 1 /\ \A i \in 1..Len(run) : run[i] = Append(s.run, w)[i]
      BY <1>2, <1>4 DEF run
    <3>2. ~(Len(run) >= Len(p) /\ StandsAt(p, run, Len(run) - Len(p)))
      BY <1>2, <1>4, <1>7
    <3> QED BY <1>1, <1>4, <1>6, <3>1, <3>2, RunPart DEF p
  <2>2. n - Len(a.run) = m /\ Len(a.run) <= n /\ m + Len(a.run) <= Len(text)
    <3>1. Len(a.run) = Len(s.run) + 1
      BY <1>4, <1>7
    <3>2. n <= Len(text)
      BY <1>2
    <3>3. Len(a.run) \in Nat /\ Len(a.run) = n - m
      BY <1>2, <1>3, <3>1
    <3>4. n \in Nat /\ m \in Nat /\ Len(text) \in Nat
      BY <1>2, <1>3
    <3> HIDE DEF cut
    <3>5. n - Len(a.run) = m
      BY <3>3, <3>4
    <3>6. Len(a.run) <= n
      BY <3>3, <3>4
    <3>7. m + Len(a.run) <= Len(text)
      BY <3>2, <3>3, <3>4
    <3> QED BY <3>5, <3>6, <3>7
  <2>3. Scanned(a, m, d, text)
    <3>1. StandsAt(a.run, text, m) /\ ~Occurs(d.pattern, a.run) /\ a.done = s.done
      BY <1>5, <1>7, <2>1 DEF p
    <3> QED BY <1>6, <2>2, <3>1 DEF Scanned
  <2> QED BY <1>7, <2>2, <2>3 DEF a, w
<1>8. CASE /\ cut >= 0 /\ StandsAt(p, run, cut)
           /\ a.run = <<>> /\ a.done = s.done \o SubSeq(run, 1, cut) \o r
           /\ SubSeq(run, 1, cut) \in Seq(Words) /\ Len(SubSeq(run, 1, cut)) = cut
           /\ \A i \in 1..cut : SubSeq(run, 1, cut)[i] = run[i]
  <2> DEFINE b == SubSeq(run, 1, cut)
  <2>1. b \in Seq(Words) /\ Len(b) = cut /\ (\A i \in 1..cut : b[i] = run[i]) /\ cut \in Nat
        /\ cut + Len(p) = Len(run) /\ a.done = s.done \o b \o r
    BY <1>2, <1>4, <1>8
  <2> HIDE DEF b, cut
  <2>10. m + Len(run) <= Len(text) /\ \A i \in 1..Len(run) : text[m + i] = run[i]
    BY <1>5 DEF StandsAt
  <2>11. Len(run) \in Nat /\ cut <= Len(run) /\ m + cut <= Len(text)
    <3>1. Len(run) \in Nat
      BY <1>4
    <3> QED BY <1>2, <1>3, <2>1, <2>10, <3>1
  <2>2. StandsAt(b, text, m)
    <3>1. \A i \in 1..cut : text[m + i] = b[i]
      <4> TAKE i \in 1..cut
      <4>1. i \in 1..Len(run)
        BY <2>1, <2>11
      <4> QED BY <2>1, <2>10, <4>1
    <3> QED BY <2>1, <2>11, <3>1 DEF StandsAt
  <2>3. ~Occurs(p, b)
    <3>1. Len(b) <= Len(s.run) + 1 /\ Len(b) # Len(s.run) + 1
      BY <1>2, <1>4, <2>1, <2>11
    <3>2. \A i \in 1..Len(b) : b[i] = Append(s.run, w)[i]
      BY <2>1 DEF run
    <3> HIDE DEF run
    <3> QED BY <1>1, <1>6, <2>1, <3>1, <3>2, RunPart DEF p
  <2>4. ASSUME Occurs(q, a.done) PROVE Came(q, d, text)
    BY <1>3, <1>6, <2>1, <2>2, <2>3, <2>4, <1>1, RowCame DEF p, r
  <2>5. Len(r) <= Len(a.done) /\ StandsAt(r, a.done, Len(a.done) - Len(r))
    <3> DEFINE x == s.done \o b \o r
    <3>1. Len(x) = Len(s.done) + Len(b) + Len(r) /\ \A i \in 1..Len(r) : x[Len(s.done) + Len(b) + i] = r[i]
      <4>1. s.done \in Seq(Words) /\ b \in Seq(Words) /\ r \in Seq(Words)
        BY <1>1, <2>1
      <4> DEFINE u == s.done
      <4> HIDE DEF u
      <4>2. u \in Seq(Words)
        BY <4>1 DEF u
      <4>3. /\ Len(u \o b \o r) = Len(u) + Len(b) + Len(r)
            /\ \A i \in 1..Len(r) : (u \o b \o r)[Len(u) + Len(b) + i] = r[i]
        BY <4>1, <4>2, ThreeInARow
      <4> QED BY <4>3 DEF u
    <3> HIDE DEF x
    <3>2. Len(x) - Len(r) = Len(s.done) + Len(b) /\ Len(r) <= Len(x) /\ Len(s.done) + Len(b) + Len(r) <= Len(x)
      BY <1>2, <2>1, <3>1
    <3>3. StandsAt(r, x, Len(x) - Len(r))
      BY <3>1, <3>2 DEF StandsAt
    <3> QED BY <2>1, <3>2, <3>3 DEF x
  <2>6. Len(p) <= n /\ StandsAt(p, text, n - Len(p))
    <3>1. n - Len(p) = m + cut /\ (m + cut) + Len(p) <= Len(text) /\ Len(p) <= n
      <4>1. cut + Len(p) = Len(s.run) + 1
        BY <1>4, <2>1
      <4> QED BY <1>2, <1>3, <2>1, <4>1
    <3>2. ASSUME NEW k \in 1..Len(p) PROVE text[(m + cut) + k] = p[k]
      <4>1. cut + k \in 1..Len(run) /\ m + (cut + k) = (m + cut) + k
        BY <1>2, <1>3, <2>1, <2>11
      <4>2. text[m + (cut + k)] = run[cut + k] /\ run[cut + k] = p[k]
        BY <1>8, <2>10, <4>1 DEF StandsAt
      <4> QED BY <4>1, <4>2
    <3> QED BY <3>1, <3>2 DEF StandsAt
  <2>7. /\ Len(a.run) = 0 /\ StandsAt(a.run, text, n) /\ ~Occurs(p, a.run)
    BY <1>2, <1>8 DEF StandsAt, Occurs
  <2>8. Len(a.run) <= n /\ n - Len(a.run) = n /\ n + Len(a.run) <= Len(text)
    BY <1>2, <2>7
  <2>9. Scanned(a, n, d, text)
    BY <2>5, <2>6, <2>7, <2>8 DEF Scanned, p, r
  <2> QED BY <2>4, <2>8, <2>9 DEF a, w
<1> QED BY <1>4, <1>7, <1>8

\* What stands in a text after one entry of the dictionary.
LEMMA Replaced ==
    ASSUME NEW d \in Entry, NEW text \in Seq(Words), d.pattern # <<>>, d.replacement # <<>>,
           NEW q \in Seq(Words), q # <<>>, StartsApart(q, d.replacement), ~Occurs(q, d.replacement),
           Occurs(q, ReplaceTrigger(text, d))
    PROVE  Came(q, d, text)
<1> DEFINE n == Len(text)
<1>1. PICK c \in [0..n -> Splits] :
        /\ c[0] = [done |-> <<>>, run |-> <<>>]
        /\ ReplaceTrigger(text, d) = c[n].done \o c[n].run
        /\ \A k \in 1..n : c[k] = Advance(d, c[k - 1], text[k])
  BY SplitSteps
<1>2. n \in Nat
  OBVIOUS
<1> DEFINE Good(k) == /\ Len(c[k].run) <= k /\ Scanned(c[k], k - Len(c[k].run), d, text)
                      /\ Occurs(q, c[k].done) => Came(q, d, text)
           S == {k \in 0..n : Good(k)}
<1>3. 0 \in S
  <2>1. Len(q) \in Nat /\ Len(q) >= 1 /\ d.pattern \in Seq(Words)
    BY EmptySeq DEF Entry
  <2>2. Len(d.pattern) \in Nat /\ Len(d.pattern) >= 1
    BY <2>1, EmptySeq
  <2>3. c[0].done = <<>> /\ c[0].run = <<>> /\ Len(<<>>) = 0
    BY <1>1
  <2>4. ~Occurs(q, <<>>) /\ ~Occurs(d.pattern, <<>>)
    BY <2>1, <2>2 DEF Occurs, StandsAt
  <2>5. StandsAt(<<>>, text, 0)
    BY <1>2 DEF StandsAt
  <2>6. 0 - Len(<<>>) = 0 /\ 0 + Len(<<>>) <= n
    BY <1>2
  <2> QED BY <1>2, <2>3, <2>4, <2>5, <2>6 DEF Scanned
<1>4. ASSUME NEW k \in 1..n, k - 1 \in S PROVE k \in S
  <2>1. k - 1 \in 0..n /\ k \in 0..n /\ c[k - 1] \in Splits
    BY <1>1, <1>2
  <2>2. Good(k - 1)
    BY <1>4
  <2>3. c[k] = Advance(d, c[k - 1], text[k])
    BY <1>1
  <2> QED BY <2>1, <2>2, <2>3, ScannedStep
<1> HIDE DEF S, Good, n
<1>5. n \in S
  BY <1>2, <1>3, <1>4, UpTo
<1>6. Good(n) /\ c[n] \in Splits
  BY <1>1, <1>2, <1>5 DEF S
<1> DEFINE m == n - Len(c[n].run)
<1>7. m \in Nat /\ c[n].run \in Seq(Words) /\ c[n].done \in Seq(Words) /\ <<>> \in Seq(Words)
  BY <1>2, <1>6 DEF Splits, Good
<1>8. ReplaceTrigger(text, d) = c[n].done \o c[n].run \o <<>>
  <2>1. c[n].done \o c[n].run \in Seq(Words)
    BY <1>7
  <2> QED BY <1>1, <2>1
<1>9. Scanned(c[n], m, d, text) /\ StandsAt(c[n].run, text, m) /\ ~Occurs(d.pattern, c[n].run)
  BY <1>6 DEF Good, Scanned
<1> HIDE DEF m
<1>10. Occurs(q, c[n].done) => Came(q, d, text)
  BY <1>6 DEF Good
<1> QED BY <1>6, <1>7, <1>8, <1>9, <1>10, RowCame

\* A text in which an entry's trigger does not occur is as it was.
LEMMA NothingReplaced ==
    ASSUME NEW d \in Entry, NEW text \in Seq(Words), ~Occurs(d.pattern, text)
    PROVE  ReplaceTrigger(text, d) = text
<1> DEFINE n == Len(text)
           p == d.pattern
<1>1. PICK c \in [0..n -> Splits] :
        /\ c[0] = [done |-> <<>>, run |-> <<>>]
        /\ ReplaceTrigger(text, d) = c[n].done \o c[n].run
        /\ \A k \in 1..n : c[k] = Advance(d, c[k - 1], text[k])
  BY SplitSteps
<1>2. n \in Nat /\ p \in Seq(Words) /\ Len(p) \in Nat
  BY DEF Entry
<1> DEFINE Good(k) == c[k].done = <<>> /\ Len(c[k].run) = k /\ \A i \in 1..k : c[k].run[i] = text[i]
           S == {k \in 0..n : Good(k)}
<1>3. 0 \in S
  BY <1>1, <1>2
<1>4. ASSUME NEW k \in 1..n, k - 1 \in S PROVE k \in S
  <2> DEFINE s == c[k - 1]
             w == text[k]
             run == Append(s.run, w)
             cut == Len(run) - Len(p)
             a == Advance(d, s, w)
  <2>1. k - 1 \in 0..n /\ k \in 0..n /\ s \in Splits /\ w \in Words
    BY <1>1, <1>2, ElementOfSeq
  <2>2. s.done = <<>> /\ Len(s.run) = k - 1 /\ \A i \in 1..(k - 1) : s.run[i] = text[i]
    BY <1>4
  <2>3. s.run \in Seq(Words)
    BY <2>1 DEF Splits
  <2>4. /\ run \in Seq(Words) /\ Len(run) = k
        /\ \/ a.done = s.done /\ a.run = run
           \/ cut >= 0 /\ StandsAt(p, run, cut)
    <3>1. Len(run) = Len(s.run) + 1
      BY <2>3, AppendProperties
    <3>2. Len(run) = k
      BY <2>1, <2>2, <3>1
    <3> QED BY <2>1, <3>2, AdvanceIs
  <2>5. \A i \in 1..k : run[i] = text[i]
    <3> TAKE i \in 1..k
    <3>1. CASE i = k
      BY <2>1, <2>2, <2>3, <3>1, AppendProperties
    <3>2. CASE i # k
      <4>1. i \in 1..(k - 1)
        BY <2>1, <3>2
      <4>2. run[i] = s.run[i]
        BY <2>2, <2>3, <4>1, AppendProperties
      <4> QED BY <2>2, <4>1, <4>2
    <3> QED BY <3>1, <3>2
  <2>6. c[k] = a
    BY <1>1
  <2> HIDE DEF a, run, s, w
  <2>7. ~(cut >= 0 /\ StandsAt(p, run, cut))
    <3> SUFFICES ASSUME cut >= 0, StandsAt(p, run, cut) PROVE FALSE
      OBVIOUS
    <3>1. cut \in 0..n /\ cut + Len(p) = k /\ k <= n
      BY <1>2, <2>1, <2>4
    <3> HIDE DEF cut
    <3>2. ASSUME NEW i \in 1..Len(p) PROVE text[cut + i] = p[i]
      <4>1. cut + i \in 1..k
        BY <1>2, <3>1
      <4> QED BY <2>5, <4>1 DEF StandsAt
    <3>3. Occurs(p, text)
      BY <3>1, <3>2 DEF Occurs, StandsAt
    <3> QED BY <3>3
  <2> QED BY <2>1, <2>2, <2>4, <2>5, <2>6, <2>7
<1> HIDE DEF S
<1>5. n \in S
  BY <1>2, <1>3, <1>4, UpTo
<1>6. c[n].done = <<>> /\ Len(c[n].run) = n /\ (\A i \in 1..n : c[n].run[i] = text[i]) /\ c[n].run \in Seq(Words)
  <2>1. c[n] \in Splits
    BY <1>1, <1>2
  <2> QED BY <1>5, <2>1 DEF S, Splits
<1>7. c[n].run = text
  BY <1>6, SeqEqual
<1>8. <<>> \o text = text
  OBVIOUS
<1> QED BY <1>1, <1>6, <1>7, <1>8

\* What the proofs need of the dictionary.
LEMMA DictionaryIs ==
    /\ Len(Dictionary) \in Nat /\ DOMAIN Dictionary = 1..Len(Dictionary)
    /\ \A k \in 1..Len(Dictionary) : Dictionary[k] \in Range(Dictionary)
    /\ \A d, e \in Range(Dictionary) :
        /\ d \in Entry /\ d.pattern # <<>> /\ d.replacement # <<>>
        /\ StartsApart(d.pattern, e.replacement) /\ ~Occurs(d.pattern, e.replacement)
<1>1. Dictionary \in Seq(Entry)
  BY DictionaryAssumption DEF Entry
<1>2. Len(Dictionary) \in Nat /\ DOMAIN Dictionary = 1..Len(Dictionary)
  BY <1>1
<1>3. \A d \in Range(Dictionary) : d \in Entry
  BY <1>1, <1>2, ElementOfSeq DEF Range
<1>4. ASSUME NEW d \in Range(Dictionary), NEW e \in Range(Dictionary)
      PROVE  StartsApart(d.pattern, e.replacement)
  <2>1. e.replacement \in Seq(Words)
    BY <1>3 DEF Entry
  <2>2. DOMAIN e.replacement = 1..Len(e.replacement)
    BY <2>1
  <2> QED BY <2>2, DictionaryAssumption DEF StartsApart
<1> QED BY <1>2, <1>3, <1>4, DictionaryAssumption DEF Range

\* What begins a sequence may occur where the sequence does.
LEMMA BeginningOccurs ==
    ASSUME NEW a \in Seq(Words), NEW b \in Seq(Words), NEW text \in Seq(Words), Occurs(a \o b, text)
    PROVE  Occurs(a, text)
<1> DEFINE c == a \o b
<1>1. Len(c) = Len(a) + Len(b) /\ Len(a) \in Nat /\ Len(b) \in Nat /\ \A i \in 1..Len(a) : c[i] = a[i]
  BY ConcatProperties
<1> HIDE DEF c
<1>2. PICK i \in 0..Len(text) : i + Len(c) <= Len(text) /\ \A k \in 1..Len(c) : text[i + k] = c[k]
  BY DEF Occurs, StandsAt, c
<1>3. i + Len(a) <= Len(text) /\ \A k \in 1..Len(a) : k \in 1..Len(c)
  BY <1>1, <1>2
<1>4. \A k \in 1..Len(a) : text[i + k] = a[k]
  BY <1>1, <1>2, <1>3
<1> QED BY <1>2, <1>3, <1>4 DEF Occurs, StandsAt

\* A trigger and the rest of one begin apart from replacements, too.
LEMMA RejoinedApart ==
    ASSUME NEW d \in Range(Dictionary), NEW e \in Range(Dictionary), NEW h \in Range(Dictionary),
           NEW k \in 1..(Len(e.pattern) - 1)
    PROVE  LET q == d.pattern \o After(e.pattern, k) IN
           q \in Seq(Words) /\ q # <<>> /\ StartsApart(q, h.replacement) /\ ~Occurs(q, h.replacement)
<1> DEFINE p == d.pattern
           f == After(e.pattern, k)
           q == p \o f
           r == h.replacement
<1>1. p \in Seq(Words) /\ e.pattern \in Seq(Words) /\ r \in Seq(Words) /\ p # <<>> /\ k \in 0..Len(e.pattern)
  BY DictionaryIs DEF Entry
<1>2. f \in Seq(Words) /\ Len(f) = Len(e.pattern) - k /\ \A j \in 1..Len(f) : f[j] = e.pattern[k + j]
  BY <1>1, PartsOf
<1>3. Len(p) \in Nat /\ Len(p) >= 1 /\ Len(e.pattern) \in Nat /\ Len(f) \in Nat /\ Len(r) \in Nat
  BY <1>1, <1>2, EmptySeq
<1> HIDE DEF f
<1>4. /\ q \in Seq(Words) /\ Len(q) = Len(p) + Len(f)
      /\ \A i \in 1..(Len(p) + Len(f)) : q[i] = IF i <= Len(p) THEN p[i] ELSE f[i - Len(p)]
  BY <1>1, <1>2, ConcatProperties
<1>5. ~Occurs(q, r)
  <2>1. ~Occurs(p, r)
    BY DictionaryIs
  <2> QED BY <1>1, <1>2, <2>1, BeginningOccurs
<1>6. StartsApart(p, r) /\ StartsApart(e.pattern, r)
  BY DictionaryIs
<1>11. q # <<>>
  <2>1. Len(q) >= 1
    BY <1>3, <1>4
  <2> QED BY <2>1
<1> HIDE DEF q, p, r
<1>7. ASSUME NEW i \in 1..(Len(q) - 1) PROVE \E j \in 1..Len(r) : i + j <= Len(q) /\ q[i + j] # r[j]
  <2>1. CASE i <= Len(p) - 1
    <3>3. i \in 1..(Len(p) - 1)
      BY <1>3, <1>4, <2>1
    <3>1. PICK j \in 1..Len(r) : i + j <= Len(p) /\ p[i + j] # r[j]
      BY <1>6, <3>3 DEF StartsApart
    <3>2. i + j \in 1..(Len(p) + Len(f)) /\ i + j <= Len(q)
      BY <1>3, <1>4, <3>1
    <3> QED BY <1>4, <3>1, <3>2
  <2>2. CASE i >= Len(p)
    <3> DEFINE g == k + (i - Len(p))
    <3>5. k \in Nat /\ k >= 1 /\ i \in Nat /\ i <= Len(p) + Len(f) - 1
      BY <1>3, <1>4
    <3>1. g \in 1..(Len(e.pattern) - 1)
      BY <1>2, <1>3, <2>2, <3>5
    <3>2. PICK j \in 1..Len(r) : g + j <= Len(e.pattern) /\ e.pattern[g + j] # r[j]
      BY <1>6, <3>1 DEF StartsApart
    <3>3. /\ i + j \in 1..(Len(p) + Len(f)) /\ ~(i + j <= Len(p)) /\ i + j <= Len(q)
          /\ (i + j) - Len(p) \in 1..Len(f) /\ k + ((i + j) - Len(p)) = g + j
      <4>1. j \in Nat /\ j >= 1 /\ g + j <= Len(e.pattern) /\ g + j = (k + i + j) - Len(p)
        BY <1>3, <3>2, <3>5
      <4>2. i + j <= Len(p) + Len(f)
        BY <1>2, <1>3, <3>5, <4>1
      <4> QED BY <1>2, <1>3, <1>4, <2>2, <3>5, <4>1, <4>2
    <3>4. q[i + j] = e.pattern[g + j]
      <4> HIDE DEF g
      <4>1. q[i + j] = f[(i + j) - Len(p)]
        BY <1>4, <3>3
      <4>2. f[(i + j) - Len(p)] = e.pattern[k + ((i + j) - Len(p))]
        BY <1>2, <3>3
      <4> QED BY <3>3, <4>1, <4>2
    <3> QED BY <3>2, <3>3, <3>4
  <2> QED BY <1>3, <1>4, <2>1, <2>2
<1> QED BY <1>4, <1>5, <1>7, <1>11 DEF StartsApart, q, p, r, f

\* Words, too, may be put together in any order.
LEMMA WordsAssociative == \A a, b, c \in Seq(Words) : (a \o b) \o c = a \o (b \o c)
BY ConcatAssociative

\* Two sequences in a row, cut within the first.
LEMMA CutInFirst ==
    ASSUME NEW p \in Seq(Words), NEW f \in Seq(Words), NEW j \in 1..(Len(p) - 1)
    PROVE  SubSeq(p \o f, 1, j) = SubSeq(p, 1, j) /\ After(p \o f, j) = After(p, j) \o f
<1> DEFINE q == p \o f
           x == SubSeq(q, 1, j)
           y == SubSeq(p, 1, j)
           u == After(q, j)
           v == After(p, j)
           w == v \o f
<1>1. Len(p) \in Nat /\ Len(f) \in Nat /\ j \in Nat /\ j < Len(p)
  OBVIOUS
<1>2. /\ q \in Seq(Words) /\ Len(q) = Len(p) + Len(f)
      /\ \A i \in 1..(Len(p) + Len(f)) : q[i] = IF i <= Len(p) THEN p[i] ELSE f[i - Len(p)]
  BY ConcatProperties
<1> HIDE DEF q
<1>3. j \in 0..Len(q) /\ j \in 0..Len(p)
  BY <1>1, <1>2
<1>4. /\ x \in Seq(Words) /\ Len(x) = j /\ (\A i \in 1..j : x[i] = q[i])
      /\ u \in Seq(Words) /\ Len(u) = Len(q) - j /\ \A i \in 1..(Len(q) - j) : u[i] = q[j + i]
  BY <1>2, <1>3, PartsOf
<1>5. /\ y \in Seq(Words) /\ Len(y) = j /\ (\A i \in 1..j : y[i] = p[i])
      /\ v \in Seq(Words) /\ Len(v) = Len(p) - j /\ \A i \in 1..(Len(p) - j) : v[i] = p[j + i]
  BY <1>3, PartsOf
<1> HIDE DEF x, y, u, v
<1>6. x = y
  <2>1. \A i \in 1..j : i \in 1..(Len(p) + Len(f)) /\ i <= Len(p)
    BY <1>1
  <2>2. \A i \in 1..j : x[i] = y[i]
    BY <1>2, <1>4, <1>5, <2>1
  <2> QED BY <1>4, <1>5, <2>2, SeqEqual
<1>7. /\ w \in Seq(Words) /\ Len(w) = Len(v) + Len(f)
      /\ \A i \in 1..(Len(v) + Len(f)) : w[i] = IF i <= Len(v) THEN v[i] ELSE f[i - Len(v)]
  BY <1>5, ConcatProperties
<1> HIDE DEF w
<1>8. Len(u) = Len(w)
  BY <1>1, <1>2, <1>4, <1>5, <1>7
<1>9. ASSUME NEW i \in 1..Len(u) PROVE u[i] = w[i]
  <2>1. i \in 1..(Len(q) - j) /\ j + i \in 1..(Len(p) + Len(f)) /\ i \in 1..(Len(v) + Len(f))
    BY <1>1, <1>2, <1>4, <1>5
  <2>2. CASE i <= Len(v)
    <3>1. i \in 1..(Len(p) - j) /\ j + i <= Len(p)
      BY <1>1, <1>5, <2>1, <2>2
    <3> QED BY <1>2, <1>4, <1>5, <1>7, <2>1, <2>2, <3>1
  <2>3. CASE i > Len(v)
    <3>1. ~(j + i <= Len(p)) /\ (j + i) - Len(p) = i - Len(v) /\ ~(i <= Len(v))
      BY <1>1, <1>5, <2>1, <2>3
    <3> QED BY <1>2, <1>4, <1>7, <2>1, <3>1
  <2> QED BY <1>1, <1>5, <2>1, <2>2, <2>3
<1>10. u = w
  BY <1>4, <1>7, <1>8, <1>9, SeqEqual
<1> QED BY <1>6, <1>10 DEF q, x, y, u, v, w

\* One entry of the dictionary brings no trigger into a text that does not
\* rejoin, takes its own out, and leaves a text that does not rejoin.
LEMMA PassKeeps ==
    ASSUME NEW d \in Range(Dictionary), NEW text \in Seq(Words), ~Rejoins(text)
    PROVE  LET t == ReplaceTrigger(text, d) IN
           /\ t \in Seq(Words) /\ ~Rejoins(t)
           /\ \A e \in Range(Dictionary) : Occurs(e.pattern, t) => e.pattern # d.pattern /\ Occurs(e.pattern, text)
<1> DEFINE t == ReplaceTrigger(text, d)
           r == d.replacement
<1>1. d \in Entry /\ d.pattern # <<>> /\ r # <<>> /\ d.pattern \in Seq(Words) /\ r \in Seq(Words)
  BY DictionaryIs DEF Entry
<1>2. t \in Seq(Words)
  BY <1>1, ReplacedType
<1>3. \A h, e \in Range(Dictionary) : \A k \in 1..(Len(e.pattern) - 1) :
        ~(EndsAs(h.replacement, e.pattern, k) /\ Occurs(h.pattern \o After(e.pattern, k), text))
  BY DEF Rejoins, EndsAs, After
<1> HIDE DEF t
<1>4. ASSUME NEW e \in Range(Dictionary), Occurs(e.pattern, t)
      PROVE  e.pattern # d.pattern /\ Occurs(e.pattern, text)
  <2>1. /\ e.pattern \in Seq(Words) /\ e.pattern # <<>>
        /\ StartsApart(e.pattern, r) /\ ~Occurs(e.pattern, r)
    BY DictionaryIs DEF Entry
  <2>2. Came(e.pattern, d, text)
    BY <1>1, <1>4, <2>1, Replaced DEF t
  <2> QED BY <1>3, <2>2 DEF Came
<1>5. ASSUME NEW e \in Range(Dictionary), NEW h \in Range(Dictionary), NEW k \in 1..(Len(h.pattern) - 1),
             EndsAs(e.replacement, h.pattern, k), Occurs(e.pattern \o After(h.pattern, k), t)
      PROVE  FALSE
  <2> DEFINE p == e.pattern
             f == After(h.pattern, k)
             q == p \o f
  <2>1. q \in Seq(Words) /\ q # <<>> /\ StartsApart(q, r) /\ ~Occurs(q, r)
    BY RejoinedApart
  <2>2. p \in Seq(Words) /\ f \in Seq(Words)
    <3>1. h.pattern \in Seq(Words) /\ p \in Seq(Words)
      BY DictionaryIs DEF Entry
    <3>2. k \in 0..Len(h.pattern)
      BY <3>1
    <3> QED BY <3>1, <3>2, PartsOf
  <2> HIDE DEF f
  <2>3. Came(q, d, text)
    <3>1. Occurs(q, ReplaceTrigger(text, d))
      BY <1>5 DEF t, f
    <3> HIDE DEF q
    <3> QED BY <1>1, <2>1, <3>1, Replaced
  <2>4. ~Occurs(q, text)
    BY <1>3, <1>5 DEF f
  <2>5. PICK j \in 1..(Len(q) - 1) : EndsAs(r, q, j) /\ Occurs(d.pattern \o After(q, j), text)
    BY <2>3, <2>4 DEF Came
  <2>6. /\ Len(q) = Len(p) + Len(f) /\ Len(p) \in Nat /\ Len(f) \in Nat /\ Len(r) \in Nat
        /\ \A i \in 1..Len(p) : q[i] = p[i]
    BY <1>1, <2>2, ConcatProperties
  <2>7. CASE j < Len(p)
    <3>1. j \in 1..(Len(p) - 1) /\ j \in 0..Len(p)
      BY <2>6, <2>7
    <3>2. SubSeq(q, 1, j) = SubSeq(p, 1, j) /\ After(q, j) = After(p, j) \o f
      BY <2>2, <3>1, CutInFirst
    <3>3. EndsAs(r, p, j)
      BY <2>5, <3>2 DEF EndsAs
    <3>4. After(p, j) \in Seq(Words)
      BY <2>2, <3>1, PartsOf
    <3>5. d.pattern \o After(q, j) = (d.pattern \o After(p, j)) \o f /\ d.pattern \o After(p, j) \in Seq(Words)
      <4> DEFINE v == After(p, j)
      <4>1. v \in Seq(Words) /\ After(q, j) = v \o f
        BY <3>2, <3>4
      <4> HIDE DEF v
      <4>2. d.pattern \o (v \o f) = (d.pattern \o v) \o f /\ d.pattern \o v \in Seq(Words)
        <5> DEFINE u == d.pattern
        <5>1. u \in Seq(Words)
          BY <1>1
        <5> HIDE DEF u
        <5>2. (u \o v) \o f = u \o (v \o f)
          BY <2>2, <4>1, <5>1, WordsAssociative
        <5>3. u \o v \in Seq(Words)
          BY <4>1, <5>1
        <5> QED BY <5>2, <5>3 DEF u
      <4> QED BY <4>1, <4>2 DEF v
    <3>6. Occurs(d.pattern \o After(p, j), text)
      BY <2>2, <2>5, <3>5, BeginningOccurs
    <3> QED BY <1>3, <3>1, <3>3, <3>6
  <2>8. CASE j >= Len(p)
    <3>1. j \in 0..Len(q) /\ j <= Len(r) /\ Len(r) - j \in Int
      BY <2>5, <2>6 DEF EndsAs
    <3>2. StandsAt(SubSeq(q, 1, j), r, Len(r) - j)
      BY <2>5 DEF EndsAs
    <3> HIDE DEF q
    <3>3. \A i \in 1..j : r[(Len(r) - j) + i] = q[i]
      BY <1>1, <2>1, <3>1, <3>2, PartsStand
    <3> HIDE DEF p, r
    <3>4. \A i \in 1..Len(p) : r[(Len(r) - j) + i] = p[i]
      BY <2>6, <2>8, <3>3
    <3>5. Len(r) - j \in 0..Len(r) /\ (Len(r) - j) + Len(p) <= Len(r)
      BY <2>6, <2>8, <3>1
    <3>6. Occurs(p, r)
      BY <3>4, <3>5 DEF Occurs, StandsAt
    <3> QED BY <3>6, DictionaryIs DEF p, r
  <2> QED BY <2>6, <2>7, <2>8
<1>6. ~Rejoins(t)
  BY <1>5 DEF Rejoins, EndsAs, After
<1> QED BY <1>2, <1>4, <1>6 DEF t

\* The dictionary applied one entry at a time.
LEMMA TriggerSteps ==
    ASSUME NEW text \in Seq(Words)
    PROVE  \E c \in [0..Len(Dictionary) -> Seq(Words)] :
              /\ c[0] = text /\ c[Len(Dictionary)] = ApplyTriggers(text)
              /\ \A k \in 1..Len(Dictionary) : c[k] = ReplaceTrigger(c[k - 1], Dictionary[k])
<1> DEFINE n == Len(Dictionary)
           V == Seq(Words)
           Does(t, k) == ReplaceTrigger(t, Dictionary[k])
           step == [p \in V \X (1..n) |-> Does(p[1], p[2])]
           Unfolds(g) == g = [T \in SUBSET (1..n) |-> IF T = {} THEN text ELSE Does(g[T \ {Max(T)}], Max(T))]
           it == CHOOSE g : Unfolds(g)
<1>1. n \in Nat /\ DOMAIN Dictionary = 1..n
  BY DictionaryIs
<1>2. \A t \in V, k \in 1..n : Does(t, k) \in V
  <2> SUFFICES ASSUME NEW t \in V, NEW k \in 1..n PROVE Does(t, k) \in V
    OBVIOUS
  <2>1. Dictionary[k] \in Entry
    BY DictionaryIs
  <2> QED BY <2>1, ReplacedType
<1>3. ApplyTriggers(text) = it[1..n]
  BY <1>1 DEF ApplyTriggers, FoldLeft, MapThenFoldSet
<1>4. text \in V
  OBVIOUS
<1> HIDE DEF V, Does, n
<1>5. step \in [V \X (1..n) -> V] /\ \A t \in V, k \in 1..n : step[<<t, k>>] = Does(t, k)
  BY <1>2
<1> HIDE DEF step
<1>6. \E g : Unfolds(g)
  <2>1. PICK g : IsFold(g, step, text, 1..n)
    BY <1>1, FoldExists
  <2>2. \A T \in SUBSET (1..n) : g[T] \in V
    BY <1>1, <1>4, <1>5, <2>1, FoldInDomain
  <2>3. \A T \in SUBSET (1..n) : T # {} => step[<<g[T \ {Max(T)}], Max(T)>>] = Does(g[T \ {Max(T)}], Max(T))
    BY <1>1, <1>5, <2>2, MaxOf
  <2>4. Unfolds(g)
    BY <2>1, <2>3 DEF IsFold
  <2> QED BY <2>4
<1>7. Unfolds(it)
  BY <1>6
<1> HIDE DEF it
<1>8. Gathers(it, V, n, step, text)
  <2>1. it[{}] = text
    BY <1>7, {} \in SUBSET (1..n)
  <2>2. ASSUME NEW T \in SUBSET (1..n), T # {}, it[T \ {Max(T)}] \in V
        PROVE  it[T] = step[<<it[T \ {Max(T)}], Max(T)>>]
    <3>1. Max(T) \in 1..n
      BY <1>1, <2>2, MaxOf
    <3> QED BY <1>5, <1>7, <2>2, <3>1
  <2> QED BY <2>1, <2>2 DEF Gathers
<1>9. PICK c : IsChain(c, V, n, step, text, it[1..n])
  BY <1>1, <1>4, <1>5, <1>8, FoldChain
<1>10. c \in [0..n -> V] /\ c[0] = text /\ c[n] = it[1..n] /\ \A k \in 1..n : c[k] = step[<<c[k - 1], k>>]
  BY <1>9 DEF IsChain
<1>11. \A k \in 1..n : c[k] = Does(c[k - 1], k)
  <2> SUFFICES ASSUME NEW k \in 1..n PROVE c[k] = Does(c[k - 1], k)
    OBVIOUS
  <2>1. c[k - 1] \in V
    BY <1>1, <1>10
  <2> QED BY <1>5, <1>10, <2>1
<1> QED BY <1>3, <1>10, <1>11 DEF V, Does, n

\* The dictionary leaves no trigger in a text that does not rejoin, and what
\* has none as it was.
LEMMA TriggersApplied ==
    ASSUME NEW text \in Seq(Words)
    PROVE  /\ ApplyTriggers(text) \in Seq(Words)
           /\ ~Rejoins(text) => \A d \in Range(Dictionary) : ~Occurs(d.pattern, ApplyTriggers(text))
           /\ (\A d \in Range(Dictionary) : ~Occurs(d.pattern, text)) => ApplyTriggers(text) = text
<1> DEFINE N == Len(Dictionary)
<1>0. N \in Nat /\ DOMAIN Dictionary = 1..N /\ \A k \in 1..N : Dictionary[k] \in Range(Dictionary)
  BY DictionaryIs
<1>1. PICK c \in [0..N -> Seq(Words)] :
        /\ c[0] = text /\ c[N] = ApplyTriggers(text)
        /\ \A k \in 1..N : c[k] = ReplaceTrigger(c[k - 1], Dictionary[k])
  BY TriggerSteps
<1> HIDE DEF N
<1>2. \A k \in 1..N : k \in 0..N /\ k - 1 \in 0..N /\ c[k - 1] \in Seq(Words)
  BY <1>0, <1>1
<1>3. ASSUME ~Rejoins(text), NEW d \in Range(Dictionary)
      PROVE  ~Occurs(d.pattern, c[N])
  <2> DEFINE Clean(k) == \A j \in 1..k : ~Occurs(Dictionary[j].pattern, c[k])
             S == {k \in 0..N : ~Rejoins(c[k]) /\ Clean(k)}
  <2>1. 0 \in S
    BY <1>0, <1>1, <1>3
  <2>2. ASSUME NEW k \in 1..N, k - 1 \in S PROVE k \in S
    <3>1. ~Rejoins(c[k - 1]) /\ Clean(k - 1) /\ c[k - 1] \in Seq(Words)
      BY <1>2, <2>2
    <3>2. /\ ~Rejoins(c[k])
          /\ \A e \in Range(Dictionary) : Occurs(e.pattern, c[k]) =>
                e.pattern # Dictionary[k].pattern /\ Occurs(e.pattern, c[k - 1])
      BY <1>0, <1>1, <3>1, PassKeeps
    <3>3. ASSUME NEW j \in 1..k PROVE ~Occurs(Dictionary[j].pattern, c[k])
      <4>1. Dictionary[j] \in Range(Dictionary)
        BY <1>0
      <4>2. j = k \/ j \in 1..(k - 1)
        BY <1>0
      <4> QED BY <3>1, <3>2, <4>1, <4>2
    <3> QED BY <1>2, <3>2, <3>3
  <2> HIDE DEF S
  <2>3. N \in S
    BY <1>0, <2>1, <2>2, UpTo
  <2>4. PICK j \in 1..N : d = Dictionary[j]
    BY <1>0 DEF Range
  <2> QED BY <2>3, <2>4 DEF S
<1>4. ASSUME \A d \in Range(Dictionary) : ~Occurs(d.pattern, text)
      PROVE  c[N] = text
  <2> DEFINE S == {k \in 0..N : c[k] = text}
  <2>1. 0 \in S
    BY <1>0, <1>1
  <2>2. ASSUME NEW k \in 1..N, k - 1 \in S PROVE k \in S
    <3>1. c[k] = ReplaceTrigger(text, Dictionary[k])
      BY <1>1, <2>2
    <3>2. Dictionary[k] \in Entry /\ ~Occurs(Dictionary[k].pattern, text)
      BY <1>0, <1>4, DictionaryIs
    <3>3. c[k] = text
      BY <3>1, <3>2, NothingReplaced
    <3> QED BY <1>2, <3>3
  <2> HIDE DEF S
  <2>3. N \in S
    BY <1>0, <2>1, <2>2, UpTo
  <2> QED BY <2>3 DEF S
<1>5. c[N] \in Seq(Words)
  BY <1>0, <1>1
<1> QED BY <1>1, <1>3, <1>4, <1>5

-----------------------------------------------------------------------------
(* The keys.                                                               *)

\* Put under a key it has, an object keeps its keys and one per name.
LEMMA KeyPut ==
    ASSUME NEW t \in Seq(Words), NEW k \in Words, NEW K, IsInjective(t)
    PROVE  /\ IsInjective(Put(t, k, K)) /\ Len(Put(t, k, K)) <= Len(t) + 1
           /\ Range(Put(t, k, K)) = Range(t) \cup ({k} \cap K)
<1>1. CASE k \in K \ Range(t)
  <2> DEFINE u == Append(t, k)
  <2>1. Put(t, k, K) = u
    BY <1>1 DEF Put
  <2>2. u \in Seq(Words) /\ Len(u) = Len(t) + 1 /\ u[Len(t) + 1] = k /\ \A i \in 1..Len(t) : u[i] = t[i]
    OBVIOUS
  <2>3. DOMAIN t = 1..Len(t) /\ DOMAIN u = 1..(Len(t) + 1) /\ Len(t) \in Nat
    BY <2>2
  <2> HIDE DEF u
  <2>4. Range(u) = Range(t) \cup {k}
    BY <2>2, <2>3 DEF Range
  <2>5. \A i \in DOMAIN t : t[i] # k
    BY <1>1 DEF Range
  <2>6. IsInjective(u)
    <3> SUFFICES ASSUME NEW a \in DOMAIN u, NEW b \in DOMAIN u, u[a] = u[b] PROVE a = b
      BY DEF IsInjective
    <3>1. a \in 1..Len(t) \/ a = Len(t) + 1
      BY <2>3
    <3>2. b \in 1..Len(t) \/ b = Len(t) + 1
      BY <2>3
    <3> QED BY <2>2, <2>3, <2>5, <3>1, <3>2 DEF IsInjective
  <2> QED BY <1>1, <2>1, <2>2, <2>4, <2>6
<1>2. CASE k \notin K \ Range(t)
  BY <1>2 DEF Put
<1> QED BY <1>1, <1>2

\* A Map or an object has each key once, those it was given of K and no other.
LEMMA KeysFilled ==
    ASSUME NEW s \in Seq(Words), NEW K
    PROVE  /\ Filled(s, K) \in Seq(Words) /\ IsInjective(Filled(s, K)) /\ Len(Filled(s, K)) <= Len(s)
           /\ Range(Filled(s, K)) = Range(s) \cap K
<1> DEFINE n == Len(s)
<1>0. n \in Nat /\ DOMAIN s = 1..n
  OBVIOUS
<1>1. PICK c \in [0..n -> Seq(Words)] :
        c[0] = <<>> /\ c[n] = Filled(s, K) /\ \A k \in 1..n : c[k] = Put(c[k - 1], s[k], K)
  BY FilledSteps
<1> DEFINE S == {k \in 0..n : /\ IsInjective(c[k]) /\ Len(c[k]) <= k
                              /\ Range(c[k]) = {s[i] : i \in 1..k} \cap K}
<1>2. 0 \in S
  BY <1>0, <1>1 DEF IsInjective, Range
<1>3. ASSUME NEW k \in 1..n, k - 1 \in S
      PROVE  k \in S
  <2>1. k \in 0..n /\ c[k - 1] \in Seq(Words) /\ s[k] \in Words /\ IsInjective(c[k - 1])
    BY <1>0, <1>1, <1>3, ElementOfSeq
  <2>2. /\ IsInjective(c[k]) /\ Len(c[k]) <= Len(c[k - 1]) + 1
        /\ Range(c[k]) = Range(c[k - 1]) \cup ({s[k]} \cap K)
    BY <1>1, <2>1, KeyPut
  <2>3. {s[i] : i \in 1..k} = {s[i] : i \in 1..(k - 1)} \cup {s[k]}
    <3>1. 1..k = (1..(k - 1)) \cup {k}
      BY <1>0
    <3> QED BY <3>1
  <2>4. Range(c[k]) = {s[i] : i \in 1..k} \cap K
    BY <1>3, <2>2, <2>3
  <2>5. Len(c[k]) <= k
    <3>1. Len(c[k - 1]) \in Nat /\ Len(c[k]) \in Nat /\ Len(c[k - 1]) <= k - 1 /\ k \in Nat
      BY <1>0, <1>1, <1>3, <2>1
    <3> QED BY <2>2, <3>1
  <2> QED BY <2>1, <2>2, <2>4, <2>5
<1>4. n \in S
  <2> HIDE DEF S, n
  <2> QED BY <1>0, <1>2, <1>3, UpTo
<1>5. c[n] \in Seq(Words)
  BY <1>0, <1>1
<1> QED BY <1>0, <1>1, <1>4, <1>5 DEF Range

-----------------------------------------------------------------------------
(* Reversing a text.                                                       *)

\* What is reversed is text.
LEMMA ReverseType ==
    ASSUME NEW names \in Seq(Words), NEW text \in Seq(Symbol)
    PROVE  ReverseNames(names, text) \in Seq(Symbol)
<1>1. Len(text) \in Nat
  OBVIOUS
<1> QED BY <1>1, ReverseSteps

\* Reversing reads the text once, from its beginning.
LEMMA ReverseEmpty ==
    ASSUME NEW names \in Seq(Words)
    PROVE  ReverseNames(names, <<>>) = <<>>
<1> DEFINE e == <<>>
<1>1. e \in Seq(Symbol) /\ Len(e) = 0
  OBVIOUS
<1> HIDE DEF e
<1>2. PICK c \in [0..Len(e) -> Seq(Symbol)] : c[0] = <<>> /\ c[Len(e)] = ReverseNames(names, e)
  BY <1>1, ReverseSteps
<1> QED BY <1>1, <1>2 DEF e

\* One symbol more is restored at the end.
LEMMA ReverseAppend ==
    ASSUME NEW names \in Seq(Words), NEW text \in Seq(Symbol), NEW s \in Symbol
    PROVE  ReverseNames(names, Append(text, s)) = Restore(names, ReverseNames(names, text), s)
<1> DEFINE n == Len(text)
           longer == Append(text, s)
<1>1. n \in Nat /\ longer \in Seq(Symbol) /\ Len(longer) = n + 1 /\ longer[n + 1] = s
      /\ \A k \in 1..n : longer[k] = text[k]
  OBVIOUS
<1>2. PICK c \in [0..n -> Seq(Symbol)] :
        c[0] = <<>> /\ c[n] = ReverseNames(names, text)
        /\ \A k \in 1..n : c[k] = Restore(names, c[k - 1], text[k])
  BY ReverseSteps
<1> HIDE DEF n, longer
<1>3. PICK d \in [0..Len(longer) -> Seq(Symbol)] :
        d[0] = <<>> /\ d[Len(longer)] = ReverseNames(names, longer)
        /\ \A k \in 1..Len(longer) : d[k] = Restore(names, d[k - 1], longer[k])
  BY <1>1, ReverseSteps
<1>4. c[n] = d[n]
  <2> DEFINE S == {k \in 0..n : c[k] = d[k]}
  <2>1. 0 \in S
    BY <1>1, <1>2, <1>3
  <2>2. ASSUME NEW k \in 1..n, k - 1 \in S
        PROVE  k \in S
    <3>1. k \in 1..(n + 1) /\ k \in 0..n
      BY <1>1
    <3>2. c[k] = Restore(names, c[k - 1], text[k]) /\ d[k] = Restore(names, d[k - 1], text[k])
      BY <1>1, <1>2, <1>3, <3>1
    <3> QED BY <2>2, <3>1, <3>2
  <2> HIDE DEF S
  <2>3. n \in S
    BY <1>1, <2>1, <2>2, UpTo
  <2> QED BY <2>3 DEF S
<1>5. n \in Nat => n + 1 \in 1..(n + 1) /\ (n + 1) - 1 = n
  OBVIOUS
<1>6. d[n + 1] = Restore(names, d[n], s)
  BY <1>1, <1>3, <1>5
<1> QED BY <1>1, <1>2, <1>3, <1>4, <1>6 DEF longer

\* What ends in no first half of an alias that was given out is closed: what
\* follows cannot change it.
Closed(names, text) ==
    text = <<>> \/ \A i \in DOMAIN names : Last(text) # [of |-> Aliases[i], half |-> 1]

\* What follows closed text is restored as if it stood alone.
LEMMA RestoreAfterClosed ==
    ASSUME NEW names \in Seq(Words), NEW x \in Seq(Symbol), NEW y \in Seq(Symbol), NEW s \in Symbol,
           Closed(names, x)
    PROVE  Restore(names, x \o y, s) = x \o Restore(names, y, s)
<1>1. CASE y = <<>>
  <2>1. ~EndsAlias(names, x, s)
    BY DEF Closed, EndsAlias
  <2>2. ~EndsAlias(names, y, s)
    BY <1>1 DEF EndsAlias
  <2>3. x \o y = x
    BY <1>1
  <2>4. Append(x, s) = x \o Append(y, s)
    BY <1>1
  <2> QED BY <2>1, <2>2, <2>3, <2>4 DEF Restore
<1>2. CASE y # <<>>
  <2> DEFINE z == x \o y
  <2>1. z \in Seq(Symbol) /\ z # <<>> /\ Len(z) = Len(x) + Len(y) /\ Len(y) > 0 /\ Len(x) \in Nat /\ Len(y) \in Nat
    BY <1>2
  <2>2. Last(z) = Last(y)
    BY <1>2, <2>1 DEF Last
  <2>3. EndsAlias(names, z, s) <=> EndsAlias(names, y, s)
    BY <1>2, <2>1, <2>2 DEF EndsAlias
  <2>4. Front(z) = x \o Front(y)
    <3>1. Front(z) \in Seq(Symbol) /\ Len(Front(z)) = Len(z) - 1 /\ \A i \in 1..(Len(z) - 1) : Front(z)[i] = z[i]
      BY <2>1, FrontIs
    <3>2. Front(y) \in Seq(Symbol) /\ Len(Front(y)) = Len(y) - 1 /\ \A i \in 1..(Len(y) - 1) : Front(y)[i] = y[i]
      BY <1>2, FrontIs
    <3> DEFINE w == x \o Front(y)
    <3>3. w \in Seq(Symbol) /\ Len(w) = Len(x) + Len(y) - 1
      <4>1. w \in Seq(Symbol) /\ Len(w) = Len(x) + Len(Front(y))
        BY <3>2, ConcatProperties
      <4> QED BY <2>1, <3>2, <4>1
    <3>4. \A i \in 1..Len(w) : w[i] = z[i]
      <4> TAKE i \in 1..Len(w)
      <4>1. CASE i <= Len(x)
        BY <2>1, <3>2, <3>3, <4>1
      <4>2. CASE i > Len(x)
        <5>1. i - Len(x) \in 1..(Len(y) - 1)
          BY <2>1, <3>3, <4>2
        <5>2. w[i] = Front(y)[i - Len(x)] /\ z[i] = y[i - Len(x)]
          BY <2>1, <3>2, <3>3, <4>2, ConcatProperties
        <5> QED BY <3>2, <5>1, <5>2
      <4> QED BY <2>1, <3>3, <4>1, <4>2
    <3>5. Len(Front(z)) = Len(w) /\ \A i \in 1..Len(w) : Front(z)[i] = w[i]
      BY <2>1, <3>1, <3>3, <3>4
    <3> HIDE DEF w, z
    <3>6. Front(z) = w
      BY <3>1, <3>3, <3>5, SeqEqual
    <3> QED BY <3>6 DEF w
  <2> HIDE DEF z
  <2>5. CASE EndsAlias(names, y, s)
    <3> DEFINE j == CHOOSE i \in DOMAIN names : Aliases[i] = s.of
    <3>1. j \in DOMAIN names
      BY <2>5 DEF EndsAlias
    <3> HIDE DEF j
    <3>2. Encode(names[j]) \in Seq(Symbol)
      BY <3>1, EncodeType
    <3>3. Front(y) \in Seq(Symbol)
      BY <1>2 DEF Front
    <3>4. (x \o Front(y)) \o Encode(names[j]) = x \o (Front(y) \o Encode(names[j]))
      BY <3>2, <3>3, ConcatAssociative
    <3>5. Restore(names, z, s) = Front(z) \o Encode(names[j])
      BY <2>3, <2>5 DEF Restore, j
    <3>6. Restore(names, y, s) = Front(y) \o Encode(names[j])
      BY <2>5 DEF Restore, j
    <3> QED BY <2>4, <3>4, <3>5, <3>6 DEF z
  <2>6. CASE ~EndsAlias(names, y, s)
    <3>1. Append(x \o y, s) = x \o Append(y, s)
      OBVIOUS
    <3> QED BY <2>3, <2>6, <3>1 DEF Restore, z
  <2> QED BY <2>5, <2>6
<1> QED BY <1>1, <1>2

\* A text can be reversed in two parts when the first is closed.
LEMMA ReverseConcat ==
    ASSUME NEW names \in Seq(Words), NEW a \in Seq(Symbol), NEW b \in Seq(Symbol),
           Closed(names, ReverseNames(names, a))
    PROVE  ReverseNames(names, a \o b) = ReverseNames(names, a) \o ReverseNames(names, b)
<1> DEFINE R(t) == ReverseNames(names, t)
           S == {t \in Seq(Symbol) : R(a \o t) = R(a) \o R(t)}
<1>1. <<>> \in S
  <2>1. a \o <<>> = a /\ R(<<>>) = <<>> /\ R(a) \in Seq(Symbol)
    BY ReverseEmpty, ReverseType
  <2>2. R(a) \o <<>> = R(a)
    BY <2>1, ConcatEmptySeq
  <2> QED BY <2>1, <2>2
<1>2. ASSUME NEW t \in Seq(Symbol), NEW s \in Symbol, t \in S
      PROVE  Append(t, s) \in S
  <2>1. Append(t, s) \in Seq(Symbol) /\ a \o Append(t, s) = Append(a \o t, s) /\ a \o t \in Seq(Symbol)
    OBVIOUS
  <2>2. R(Append(a \o t, s)) = Restore(names, R(a \o t), s)
    BY <2>1, ReverseAppend
  <2>3. R(Append(t, s)) = Restore(names, R(t), s)
    BY ReverseAppend
  <2>4. Restore(names, R(a) \o R(t), s) = R(a) \o Restore(names, R(t), s)
    BY ReverseType, RestoreAfterClosed
  <2> QED BY <1>2, <2>1, <2>2, <2>3, <2>4
<1> HIDE DEF S
<1>3. b \in S
  BY <1>1, <1>2, SeqSetInduction
<1> QED BY <1>3 DEF S

\* A line is closed, whatever stood in it: no alias is the end of a line.
LEMMA LinesAreClosed ==
    ASSUME NEW names \in Seq(Words), Len(names) <= Len(Aliases), NEW a \in Seq(Symbol),
           a = <<>> \/ Last(a).of = NewLine
    PROVE  Closed(names, ReverseNames(names, a))
<1>0. \A i \in DOMAIN names : Aliases[i] # NewLine
  <2>1. Aliases \in Seq(Words) /\ NewLine \notin Range(Aliases)
    BY DictionaryAssumption
  <2>2. \A i \in DOMAIN names : i \in DOMAIN Aliases
    BY <2>1
  <2> QED BY <2>1, <2>2 DEF Range
<1>1. CASE a = <<>>
  BY <1>1, ReverseEmpty DEF Closed
<1>2. CASE a # <<>>
  <2>1. PICK r \in Seq(Symbol), s \in Symbol : a = Append(r, s)
    BY <1>2, SequenceEmptyOrAppend
  <2>2. s.of = NewLine
    BY <1>2, <2>1 DEF Last
  <2>3. ~EndsAlias(names, ReverseNames(names, r), s)
    BY <1>0, <2>2 DEF EndsAlias
  <2>4. ReverseNames(names, a) = Append(ReverseNames(names, r), s)
    BY <2>1, <2>3, ReverseAppend DEF Restore
  <2>5. Last(Append(ReverseNames(names, r), s)) = s
    BY ReverseType DEF Last
  <2> QED BY <1>0, <2>2, <2>4, <2>5 DEF Closed
<1> QED BY <1>1, <1>2

-----------------------------------------------------------------------------
(* The tools, and what an answer says.                                     *)

\* The tools with an alias: each name once, all those of the dictionary, and
\* as many as there are aliases for.
LEMMA RegisteredNames ==
    ASSUME NEW tools \in Seq(ToolEntry)
    PROVE  LET names == Registered(tools)
               found == {tools[k].name : k \in DOMAIN tools} \cap ToolTriggers
           IN /\ names \in Seq(Words) /\ IsInjective(names) /\ Range(names) = found
              /\ Len(names) <= Len(tools) /\ Len(names) = Cardinality(found)
<1> DEFINE names == Registered(tools)
           found == {tools[k].name : k \in DOMAIN tools} \cap ToolTriggers
           called == [i \in DOMAIN tools |-> tools[i].name]
<1>1. called \in Seq(Words) /\ Len(called) = Len(tools) /\ DOMAIN called = DOMAIN tools
  <2>1. \A i \in 1..Len(tools) : tools[i] \in ToolEntry
    BY ElementOfSeq
  <2>2. \A i \in DOMAIN tools : tools[i].name \in Words
    BY <2>1 DEF ToolEntry
  <2> QED BY <2>2
<1>2. Range(called) \cap ToolTriggers = found
  BY DEF Range
<1>3. names = Filled(called, ToolTriggers)
  BY DEF Registered
<1> HIDE DEF names, called, found
<1>4. names \in Seq(Words) /\ IsInjective(names) /\ Range(names) = found /\ Len(names) <= Len(tools)
  BY <1>1, <1>2, <1>3, KeysFilled
<1>5. Len(names) = Cardinality(found)
  <2>1. DOMAIN names = 1..Len(names) /\ Len(names) \in Nat
    BY <1>4
  <2>2. names \in Bijection(1..Len(names), found)
    <3>1. names \in [1..Len(names) -> found]
      BY <1>4, <2>1 DEF Range
    <3>2. names \in Surjection(1..Len(names), found)
      BY <1>4, <2>1, <3>1 DEF Surjection, Range
    <3>3. names \in Injection(1..Len(names), found)
      BY <1>4, <3>1 DEF Injection
    <3> QED BY <3>2, <3>3 DEF Bijection
  <2>3. IsFiniteSet(1..Len(names)) /\ Cardinality(1..Len(names)) = Len(names)
    <3> DEFINE m == Len(names)
    <3>1. m \in Nat /\ m \in Int /\ 1 \in Int
      BY <2>1
    <3> HIDE DEF m
    <3>2. IsFiniteSet(1..m) /\ Cardinality(1..m) = IF 1 > m THEN 0 ELSE m - 1 + 1
      BY <3>1, FS_Interval
    <3>3. (IF 1 > m THEN 0 ELSE m - 1 + 1) = m
      BY <3>1
    <3> QED BY <3>2, <3>3 DEF m
  <2> QED BY <2>2, <2>3, FS_Bijection DEF ExistsBijection
<1> QED BY <1>4, <1>5 DEF names, found

\* A tool's name or a word, as the model writes it.
LEMMA SymbolsType ==
    ASSUME NEW tools \in Seq(ToolEntry), NEW item \in [tool : 0..Len(tools), word : Words]
    PROVE  Symbols(item, tools) \in Seq(Symbol) /\ Symbols(item, tools) # <<>>
<1>1. CASE item.tool # 0
  <2>1. item.tool \in 1..Len(tools)
    BY <1>1
  <2>2. tools[item.tool] \in ToolEntry
    BY <2>1, ElementOfSeq
  <2>3. tools[item.tool].name \in Words
    BY <2>2 DEF ToolEntry
  <2> QED BY <1>1, <2>3, EncodeType DEF Symbols
<1>2. CASE item.tool = 0 /\ item.word = NewLine
  <2>1. NewLine \in Words
    BY DictionaryAssumption
  <2>2. LineEnd \in Seq(Symbol) /\ LineEnd # <<>>
    BY <2>1 DEF LineEnd, Symbol
  <2> QED BY <1>2, <2>2 DEF Symbols
<1>3. CASE item.tool = 0 /\ item.word # NewLine
  BY <1>3, EncodeType DEF Symbols
<1> QED BY <1>1, <1>2, <1>3

\* The tools as they are sent.
LEMMA RewriteType ==
    ASSUME NEW tools \in Seq(ToolEntry), NEW names \in Seq(Words), Len(names) <= Len(Aliases)
    PROVE  /\ RewriteTools(tools, names) \in Seq(ToolEntry) /\ Len(RewriteTools(tools, names)) = Len(tools)
           /\ DOMAIN RewriteTools(tools, names) = DOMAIN tools
           /\ \A i \in DOMAIN tools :
                /\ RewriteTools(tools, names)[i].anchor = tools[i].anchor
                /\ RewriteTools(tools, names)[i].name =
                     IF tools[i].name \in Range(names) THEN AliasOf(names, tools[i].name) ELSE tools[i].name
<1> DEFINE new == RewriteTools(tools, names)
<1>1. \A i \in DOMAIN tools : tools[i] \in ToolEntry
  BY ElementOfSeq
<1>2. \A n \in Range(names) : AliasOf(names, n) \in Words
  <2> TAKE n \in Range(names)
  <2> DEFINE i == CHOOSE j \in DOMAIN names : names[j] = n
  <2>1. i \in DOMAIN names
    BY DEF Range
  <2> HIDE DEF i
  <2>2. Aliases \in Seq(Words)
    BY DictionaryAssumption
  <2>3. i \in 1..Len(Aliases)
    BY <2>1, <2>2
  <2>4. Aliases[i] \in Words
    BY <2>2, <2>3, ElementOfSeq
  <2> QED BY <2>4 DEF AliasOf, i
<1>3. \A i \in DOMAIN tools :
        /\ new[i] \in ToolEntry /\ new[i].anchor = tools[i].anchor
        /\ new[i].name = IF tools[i].name \in Range(names) THEN AliasOf(names, tools[i].name) ELSE tools[i].name
  <2> TAKE i \in DOMAIN tools
  <2>1. new[i] = IF tools[i].name \in Range(names) THEN [tools[i] EXCEPT !.name = AliasOf(names, @)] ELSE tools[i]
    BY DEF RewriteTools
  <2> HIDE DEF new
  <2> QED BY <1>1, <1>2, <2>1 DEF ToolEntry
<1>4. DOMAIN tools = 1..Len(tools) /\ Len(tools) \in Nat
  OBVIOUS
<1>5. new = [i \in 1..Len(tools) |-> new[i]]
  BY <1>4 DEF RewriteTools
<1> HIDE DEF new
<1>6. new \in Seq(ToolEntry) /\ Len(new) = Len(tools)
  <2>1. new \in [1..Len(tools) -> ToolEntry]
    BY <1>3, <1>4, <1>5
  <2> QED BY <1>4, <2>1
<1> QED BY <1>3, <1>4, <1>5, <1>6 DEF new

\* A symbol alone is never an alias.
LEMMA ReverseOne ==
    ASSUME NEW names \in Seq(Words), NEW s \in Symbol
    PROVE  ReverseNames(names, <<s>>) = <<s>>
<1>1. <<>> \in Seq(Symbol) /\ Append(<<>>, s) = <<s>>
  OBVIOUS
<1>2. ~EndsAlias(names, <<>>, s)
  BY DEF EndsAlias
<1> QED BY <1>1, <1>2, ReverseAppend, ReverseEmpty DEF Restore

\* A name comes back for its alias, and every other name as it is.
LEMMA ReverseEncoded ==
    ASSUME NEW names \in Seq(Words), NEW w \in Words
    PROVE  ReverseNames(names, Encode(w)) =
              IF \E i \in DOMAIN names : Aliases[i] = w
              THEN Encode(names[CHOOSE i \in DOMAIN names : Aliases[i] = w]) ELSE Encode(w)
<1> DEFINE first == [of |-> w, half |-> 1]
           second == [of |-> w, half |-> 2]
<1>1. first \in Symbol /\ second \in Symbol
  BY DEF Symbol
<1>2. Encode(w) = Append(<<first>>, second) /\ <<first>> \in Seq(Symbol)
  BY <1>1 DEF Encode
<1>3. ReverseNames(names, Encode(w)) = Restore(names, <<first>>, second)
  BY <1>1, <1>2, ReverseAppend, ReverseOne
<1>4. EndsAlias(names, <<first>>, second) <=> \E i \in DOMAIN names : Aliases[i] = w
  BY DEF EndsAlias, Last
<1>5. CASE \E i \in DOMAIN names : Aliases[i] = w
  <2> DEFINE j == CHOOSE i \in DOMAIN names : Aliases[i] = w
  <2>1. j \in DOMAIN names
    BY <1>5
  <2> HIDE DEF j
  <2>2. Encode(names[j]) \in Seq(Symbol)
    BY <2>1, EncodeType
  <2>3. Front(<<first>>) = <<>>
    BY DEF Front
  <2>4. Restore(names, <<first>>, second) = <<>> \o Encode(names[j])
    BY <1>4, <1>5, <2>3 DEF Restore, j
  <2>5. <<>> \o Encode(names[j]) = Encode(names[j])
    BY <2>2, ConcatEmptySeq
  <2> QED BY <1>3, <1>5, <2>4, <2>5 DEF j
<1>6. CASE ~ \E i \in DOMAIN names : Aliases[i] = w
  BY <1>2, <1>3, <1>4, <1>6 DEF Restore
<1> QED BY <1>5, <1>6

\* What upstream writes of one item comes back under the caller's names, and
\* nothing that follows can change it.
LEMMA ItemReversed ==
    ASSUME NEW tools \in Seq(ToolEntry), NEW names \in Seq(Words), IsInjective(names), Len(names) <= Len(Aliases),
           NEW item \in [tool : 0..Len(tools), word : Words],
           \A i \in DOMAIN tools : tools[i].name \notin Range(Aliases),
           item.word \notin {Aliases[j] : j \in 1..Len(names)}
    PROVE  /\ ReverseNames(names, Symbols(item, RewriteTools(tools, names))) = Symbols(item, tools)
           /\ Closed(names, Symbols(item, tools))
<1> DEFINE new == RewriteTools(tools, names)
<1>1. Aliases \in Seq(Words) /\ IsInjective(Aliases) /\ NewLine \in Words /\ NewLine \notin Range(Aliases)
  BY DictionaryAssumption
<1>2. DOMAIN names = 1..Len(names) /\ DOMAIN Aliases = 1..Len(Aliases) /\ Len(names) \in Nat /\ Len(Aliases) \in Nat
  BY <1>1
<1>3. DOMAIN names \subseteq DOMAIN Aliases
  BY <1>2
<1>4. CASE item.tool # 0
  <2> DEFINE t == item.tool
             n == tools[t].name
  <2>1. t \in DOMAIN tools /\ n \in Words /\ n \notin Range(Aliases)
    <3>1. t \in 1..Len(tools) /\ t \in DOMAIN tools
      BY <1>4
    <3>2. tools[t] \in ToolEntry
      BY <3>1, ElementOfSeq
    <3>3. n \in Words
      BY <3>2 DEF ToolEntry
    <3> QED BY <3>1, <3>3
  <2>2. Symbols(item, tools) = Encode(n) /\ Symbols(item, new) = Encode(new[t].name)
    BY <1>4 DEF Symbols
  <2>3. Last(Encode(n)).half = 2
    BY DEF Last, Encode
  <2>4. Closed(names, Encode(n))
    BY <2>3 DEF Closed
  <2>5. new[t].name = IF n \in Range(names) THEN AliasOf(names, n) ELSE n
    BY <2>1, RewriteType
  <2>6. CASE n \in Range(names)
    <3> DEFINE i == CHOOSE j \in DOMAIN names : names[j] = n
               k == CHOOSE j \in DOMAIN names : Aliases[j] = Aliases[i]
    <3>1. i \in DOMAIN names /\ names[i] = n
      BY <2>6 DEF Range
    <3>2. AliasOf(names, n) = Aliases[i]
      BY DEF AliasOf
    <3> HIDE DEF i
    <3>3. k \in DOMAIN names /\ Aliases[k] = Aliases[i]
      BY <3>1
    <3>4. k = i
      BY <1>1, <1>3, <3>1, <3>3 DEF IsInjective
    <3>5. Aliases[i] \in Words
      BY <1>1, <1>2, <1>3, <3>1, ElementOfSeq
    <3>6. ReverseNames(names, Encode(Aliases[i])) = Encode(names[k])
      BY <3>1, <3>5, ReverseEncoded
    <3> QED BY <2>2, <2>4, <2>5, <2>6, <3>1, <3>2, <3>4, <3>6
  <2>7. CASE n \notin Range(names)
    <3>1. ~ \E i \in DOMAIN names : Aliases[i] = n
      BY <1>3, <2>1 DEF Range
    <3>2. ReverseNames(names, Encode(n)) = Encode(n)
      BY <2>1, <3>1, ReverseEncoded
    <3> QED BY <2>2, <2>4, <2>5, <2>7, <3>2
  <2> QED BY <2>6, <2>7
<1>5. CASE item.tool = 0 /\ item.word = NewLine
  <2> DEFINE s == [of |-> NewLine, half |-> 1]
  <2>1. Symbols(item, tools) = <<s>> /\ Symbols(item, new) = <<s>>
    BY <1>5 DEF Symbols, LineEnd
  <2>2. s \in Symbol
    BY <1>1 DEF Symbol
  <2>3. Last(<<s>>) = s /\ \A i \in DOMAIN names : Aliases[i] # NewLine
    BY <1>1, <1>3 DEF Last, Range
  <2>4. Closed(names, <<s>>)
    BY <2>3 DEF Closed
  <2> HIDE DEF s
  <2> QED BY <2>1, <2>2, <2>4, ReverseOne
<1>6. CASE item.tool = 0 /\ item.word # NewLine
  <2>1. Symbols(item, tools) = Encode(item.word) /\ Symbols(item, new) = Encode(item.word)
    BY <1>6 DEF Symbols
  <2>2. ~ \E i \in DOMAIN names : Aliases[i] = item.word
    BY <1>2
  <2>3. Last(Encode(item.word)).half = 2
    BY DEF Last, Encode
  <2>4. Closed(names, Encode(item.word))
    BY <2>3 DEF Closed
  <2> QED BY <2>1, <2>2, <2>4, ReverseEncoded
<1> QED BY <1>4, <1>5, <1>6

\* What an answer says, for these tools.
Items(tools) == [tool : 0..Len(tools), word : Words]

\* An answer is written one item after the other.
LEMMA WrittenSteps ==
    ASSUME NEW tools \in Seq(ToolEntry), NEW items \in Seq(Items(tools))
    PROVE  \E c \in [0..Len(items) -> Seq(Symbol)] :
              /\ c[0] = <<>> /\ c[Len(items)] = Written(items, tools)
              /\ \A k \in 1..Len(items) : c[k] = c[k - 1] \o Symbols(items[k], tools)
<1> DEFINE seqs == [i \in DOMAIN items |-> Symbols(items[i], tools)]
<1>1. \A i \in DOMAIN items : Symbols(items[i], tools) \in Seq(Symbol)
  <2> TAKE i \in DOMAIN items
  <2>1. items[i] \in Items(tools)
    BY ElementOfSeq
  <2> QED BY <2>1, SymbolsType DEF Items
<1>2. seqs \in Seq(Seq(Symbol)) /\ Len(seqs) = Len(items) /\ DOMAIN seqs = 1..Len(items)
  BY <1>1
<1>3. \A k \in 1..Len(items) : seqs[k] = Symbols(items[k], tools)
  OBVIOUS
<1>4. Written(items, tools) = FlattenSeq(seqs)
  BY DEF Written
<1> HIDE DEF seqs
<1>5. PICK c \in [0..Len(seqs) -> Seq(Symbol)] :
        /\ c[0] = <<>> /\ c[Len(seqs)] = FlattenSeq(seqs)
        /\ \A k \in 1..Len(seqs) : c[k] = c[k - 1] \o seqs[k]
  BY <1>2, FlattenSteps
<1>6. \A k \in 1..Len(items) : c[k] = c[k - 1] \o Symbols(items[k], tools)
  BY <1>2, <1>3, <1>5
<1>7. c \in [0..Len(items) -> Seq(Symbol)] /\ c[0] = <<>> /\ c[Len(items)] = Written(items, tools)
  BY <1>2, <1>4, <1>5
<1> QED BY <1>6, <1>7

\* The answer upstream wrote, reversed, is the answer the caller is meant to see.
LEMMA AnswerReversed ==
    ASSUME NEW r, WellTyped(r), AliasesUnwritten(r)
    PROVE  /\ Written(r.reply, RewriteTools(r.tools, Registered(r.tools))) \in Seq(Symbol)
           /\ Written(r.reply, r.tools) \in Seq(Symbol)
           /\ ReverseNames(Registered(r.tools), Written(r.reply, RewriteTools(r.tools, Registered(r.tools))))
                = Written(r.reply, r.tools)
<1> DEFINE tools == r.tools
           names == Registered(tools)
           new == RewriteTools(tools, names)
           items == r.reply
           n == Len(items)
<1>1. tools \in Seq(ToolEntry) /\ items \in Seq(Items(tools))
  BY DEF WellTyped, Items
<1>2. /\ names \in Seq(Words) /\ IsInjective(names) /\ Len(names) <= Len(tools)
      /\ Len(names) = Cardinality({tools[k].name : k \in DOMAIN tools} \cap ToolTriggers)
  BY <1>1, RegisteredNames
<1>3. Len(names) <= Len(Aliases)
  <2>1. Len(tools) <= Len(Aliases) /\ Len(names) <= Len(tools)
    BY <1>2 DEF AliasesUnwritten
  <2>2. Aliases \in Seq(Words)
    BY DictionaryAssumption
  <2>3. Len(tools) \in Nat /\ Len(names) \in Nat /\ Len(Aliases) \in Nat
    BY <1>1, <1>2, <2>2
  <2> HIDE DEF tools, names
  <2> QED BY <2>1, <2>3
<1>4. \A i \in DOMAIN tools : tools[i].name \notin Range(Aliases)
  BY DEF AliasesUnwritten
<1>5. \A k \in 1..n : items[k].word \notin {Aliases[j] : j \in 1..Len(names)}
  <2>1. DOMAIN items = 1..n
    BY <1>1
  <2> QED BY <1>2, <2>1 DEF AliasesUnwritten
<1>6. n \in Nat /\ \A k \in 1..n : items[k] \in Items(tools)
  BY <1>1, ElementOfSeq
<1> HIDE DEF tools, items, names, n
<1>7. new \in Seq(ToolEntry) /\ Len(new) = Len(tools)
  BY <1>1, <1>2, <1>3, RewriteType
<1>8. items \in Seq(Items(new))
  BY <1>1, <1>7 DEF Items
<1> HIDE DEF new
<1>9. PICK c \in [0..n -> Seq(Symbol)] :
        /\ c[0] = <<>> /\ c[n] = Written(items, tools)
        /\ \A k \in 1..n : c[k] = c[k - 1] \o Symbols(items[k], tools)
  BY <1>1, WrittenSteps DEF n
<1>10. PICK d \in [0..n -> Seq(Symbol)] :
        /\ d[0] = <<>> /\ d[n] = Written(items, new)
        /\ \A k \in 1..n : d[k] = d[k - 1] \o Symbols(items[k], new)
  BY <1>7, <1>8, WrittenSteps DEF n
<1> DEFINE S == {k \in 0..n : ReverseNames(names, d[k]) = c[k] /\ Closed(names, c[k])}
<1>11. 0 \in S
  BY <1>2, <1>6, <1>9, <1>10, ReverseEmpty DEF Closed
<1>12. ASSUME NEW k \in 1..n, k - 1 \in S
       PROVE  k \in S
  <2> DEFINE was == Symbols(items[k], tools)
             is  == Symbols(items[k], new)
  <2>1. k \in 0..n /\ k - 1 \in 0..n /\ c[k - 1] \in Seq(Symbol) /\ d[k - 1] \in Seq(Symbol)
    BY <1>6, <1>9, <1>10
  <2>2. was \in Seq(Symbol) /\ was # <<>>
    BY <1>1, <1>6, SymbolsType DEF Items
  <2>3. is \in Seq(Symbol)
    BY <1>6, <1>7, SymbolsType DEF Items
  <2>4. ReverseNames(names, is) = was /\ Closed(names, was)
    BY <1>1, <1>2, <1>3, <1>4, <1>5, <1>6, ItemReversed DEF Items, new
  <2> HIDE DEF was, is
  <2>5. ReverseNames(names, d[k - 1]) = c[k - 1] /\ Closed(names, c[k - 1])
    BY <1>12
  <2>6. ReverseNames(names, d[k - 1] \o is) = c[k - 1] \o was
    BY <1>2, <2>1, <2>3, <2>4, <2>5, ReverseConcat
  <2>7. Closed(names, c[k - 1] \o was)
    <3>1. Last(c[k - 1] \o was) = Last(was)
      <4>1. Len(c[k - 1]) \in Nat /\ Len(was) \in Nat \ {0} /\ Len(c[k - 1] \o was) = Len(c[k - 1]) + Len(was)
        BY <2>1, <2>2, EmptySeq, ConcatProperties
      <4> QED BY <2>1, <2>2, <4>1, ConcatProperties DEF Last
    <3> QED BY <2>2, <2>4, <3>1 DEF Closed
  <2>8. c[k] = c[k - 1] \o was /\ d[k] = d[k - 1] \o is
    BY <1>9, <1>10 DEF was, is
  <2> QED BY <2>1, <2>6, <2>7, <2>8
<1>13. n \in S
  <2> HIDE DEF S
  <2> QED BY <1>6, <1>11, <1>12, UpTo
<1>14. c[n] \in Seq(Symbol) /\ d[n] \in Seq(Symbol)
  BY <1>6, <1>9, <1>10
<1> QED BY <1>9, <1>10, <1>13, <1>14 DEF new, names, items, tools

-----------------------------------------------------------------------------
(* The caller reads its own tools' names.                                  *)

\* For texts the prover meets as state variables.
LEMMA SymbolsAssociative ==
    \A a, b, c \in Seq(Symbol) : (a \o b) \o c = a \o (b \o c)
BY ConcatAssociative

\* What a chunk passes on is closed: complete lines, or all there is when no
\* alias was given out.
LEMMA HeldBackIs ==
    ASSUME NEW names \in Seq(Words), Len(names) <= Len(Aliases), NEW text \in Seq(Symbol)
    PROVE  LET end == IF names # <<>> THEN HeldBack(text) ELSE Len(text)
           IN end \in 0..Len(text) /\ Closed(names, ReverseNames(names, SubSeq(text, 1, end)))
<1>1. CASE names = <<>>
  BY <1>1 DEF Closed
<1>2. CASE names # <<>>
  <2> DEFINE ends == {i \in DOMAIN text : text[i].of = NewLine}
             end == HeldBack(text)
  <2>1. CASE ends = {}
    <3>1. end = 0
      BY <2>1 DEF HeldBack
    <3>2. SubSeq(text, 1, 0) = <<>> /\ <<>> \in Seq(Symbol)
      OBVIOUS
    <3>3. Closed(names, ReverseNames(names, <<>>))
      BY <3>2, LinesAreClosed
    <3>4. 0 \in 0..Len(text)
      OBVIOUS
    <3> HIDE DEF end
    <3> QED BY <1>2, <3>1, <3>2, <3>3, <3>4 DEF end
  <2>2. CASE ends # {}
    <3>1. ends \in SUBSET (1..Len(text)) /\ Len(text) \in Nat
      OBVIOUS
    <3>2. Max(ends) \in ends /\ \A j \in ends : j <= Max(ends)
      <4> HIDE DEF ends
      <4>1. Max(ends) \in ends /\ \A j \in ends : Max(ends) >= j
        BY <2>2, <3>1, MaxOf
      <4> QED BY <3>1, <4>1
    <3>3. end \in ends
      BY <2>2, <3>2 DEF HeldBack
    <3>4. end \in 1..Len(text) /\ text[end].of = NewLine
      BY <3>3
    <3> HIDE DEF end
    <3> DEFINE a == SubSeq(text, 1, end)
    <3>5. a \in Seq(Symbol) /\ Len(a) = end /\ a[end] = text[end]
      BY <3>4, CutInTwo
    <3>6. Last(a).of = NewLine
      BY <3>4, <3>5 DEF Last
    <3>7. Closed(names, ReverseNames(names, a))
      BY <3>5, <3>6, LinesAreClosed
    <3> QED BY <1>2, <3>4, <3>7 DEF end
  <2> QED BY <2>1, <2>2
<1> QED BY <1>1, <1>2

\* What a caller has of the answer, at every stage: a prefix of it, and with
\* what is held back and still to come, reversed, the whole.
Relayed ==
    /\ stage \in {"new", "known", "changed", "sent", "relaying", "done", "refused"} /\ gone \in BOOLEAN
    /\ WellTyped(request) /\ AliasesUnwritten(request)
    /\ stage \in {"new", "known", "changed", "sent", "refused"} => seen = <<>> /\ buffer = <<>> /\ ~gone
    /\ stage \in {"sent", "relaying", "done"} =>
        aliases = Registered(request.tools) /\ out.tools = RewriteTools(request.tools, aliases)
    /\ stage = "relaying" =>
        /\ buffer \in Seq(Symbol) /\ wire \in Seq(Symbol) /\ seen \in Seq(Symbol)
        /\ ~gone => seen \o ReverseNames(aliases, buffer \o wire) = Meant
    /\ IsPrefix(seen, Meant)
    /\ stage = "done" /\ ~gone => seen = Meant

\* What the caller is meant to read is text.
LEMMA MeantType ==
    ASSUME WellTyped(request), AliasesUnwritten(request)
    PROVE  /\ Meant \in Seq(Symbol) /\ IsPrefix(<<>>, Meant) /\ IsPrefix(Meant, Meant)
           /\ Registered(request.tools) \in Seq(Words) /\ Len(Registered(request.tools)) <= Len(Aliases)
<1>1. Meant \in Seq(Symbol)
  BY AnswerReversed DEF Meant
<1>2. <<>> \in Seq(Symbol) /\ <<>> \o Meant = Meant /\ Meant \o <<>> = Meant
  BY <1>1, ConcatEmptySeq, EmptySeq
<1>3. IsPrefix(<<>>, Meant) /\ IsPrefix(Meant, Meant)
  BY <1>1, <1>2, PrefixOfConcat
<1>4. request.tools \in Seq(ToolEntry) /\ Len(request.tools) <= Len(Aliases)
  BY DEF WellTyped, AliasesUnwritten
<1>5. Registered(request.tools) \in Seq(Words) /\ Len(Registered(request.tools)) <= Len(request.tools)
  BY <1>4, RegisteredNames
<1>6. Aliases \in Seq(Words)
  BY DictionaryAssumption
<1>7. Len(request.tools) \in Nat /\ Len(Registered(request.tools)) \in Nat /\ Len(Aliases) \in Nat
  BY <1>4, <1>5, <1>6
<1> QED BY <1>1, <1>3, <1>4, <1>5, <1>7

\* It holds at the start.
LEMMA RelayedStart == ExchangeInit => Relayed
<1> SUFFICES ASSUME ExchangeInit PROVE Relayed
  OBVIOUS
<1>1. WellTyped(request) /\ AliasesUnwritten(request)
  BY ExchangeAssumption DEF ExchangeInit
<1> QED BY <1>1, MeantType DEF ExchangeInit, Relayed

\* A chunk keeps it.
LEMMA RelayedChunk ==
    ASSUME Relayed, NEW n \in 1..Len(wire), Chunk(n)
    PROVE  Relayed'
<1> DEFINE chunk == SubSeq(wire, 1, n)
           rest == SubSeq(wire, n + 1, Len(wire))
           text == buffer \o chunk
           end == IF HasMappings THEN HeldBack(text) ELSE Len(text)
           lines == SubSeq(text, 1, end)
           held == SubSeq(text, end + 1, Len(text))
           R(t) == ReverseNames(aliases, t)
<1>1. stage = "relaying" /\ buffer \in Seq(Symbol) /\ wire \in Seq(Symbol) /\ seen \in Seq(Symbol)
      /\ gone \in BOOLEAN /\ WellTyped(request) /\ AliasesUnwritten(request)
  BY DEF Relayed, Chunk
<1>2. /\ stage' = stage /\ request' = request /\ out' = out /\ aliases' = aliases /\ gone' = gone
      /\ wire' = rest /\ buffer' = held /\ seen' = IF gone THEN seen ELSE seen \o R(lines)
  BY DEF Chunk, Enqueue
<1>3. aliases \in Seq(Words) /\ Len(aliases) <= Len(Aliases)
  BY <1>1, MeantType DEF Relayed
<1>4. chunk \in Seq(Symbol) /\ rest \in Seq(Symbol) /\ chunk \o rest = wire
  BY <1>1, CutInTwo
<1> HIDE DEF chunk, rest
<1>5. text \in Seq(Symbol)
  BY <1>1, <1>4
<1> HIDE DEF text
<1>6. end \in 0..Len(text) /\ Closed(aliases, R(lines))
  BY <1>3, <1>5, HeldBackIs DEF HasMappings
<1> HIDE DEF end
<1>7. lines \in Seq(Symbol) /\ held \in Seq(Symbol) /\ lines \o held = text
  BY <1>5, <1>6, CutInTwo
<1> HIDE DEF lines, held
<1>8. buffer \o wire = lines \o (held \o rest)
  <2>1. buffer \o (chunk \o rest) = (buffer \o chunk) \o rest
    BY <1>1, <1>4, SymbolsAssociative, Zenon
  <2>2. (lines \o held) \o rest = lines \o (held \o rest)
    BY <1>4, <1>7, SymbolsAssociative, Zenon
  <2> QED BY <1>4, <1>7, <2>1, <2>2 DEF text
<1>9. held \o rest \in Seq(Symbol) /\ R(lines) \in Seq(Symbol) /\ R(held \o rest) \in Seq(Symbol)
  <2>1. held \o rest \in Seq(Symbol)
    BY <1>4, <1>7
  <2> QED BY <1>3, <1>7, <2>1, ReverseType
<1>10. R(buffer \o wire) = R(lines) \o R(held \o rest)
  BY <1>3, <1>6, <1>7, <1>8, <1>9, ReverseConcat
<1>11. Meant' = Meant
  BY <1>2 DEF Meant
<1>12. CASE gone
  BY <1>1, <1>2, <1>4, <1>7, <1>11, <1>12 DEF Relayed
<1>13. CASE ~gone
  <2>1. (seen \o R(lines)) \o R(held \o rest) = Meant
    <3>1. seen \o (R(lines) \o R(held \o rest)) = (seen \o R(lines)) \o R(held \o rest)
      BY <1>1, <1>9, SymbolsAssociative, Zenon
    <3> QED BY <1>1, <1>10, <1>13, <3>1 DEF Relayed
  <2>2. seen \o R(lines) \in Seq(Symbol)
    BY <1>1, <1>9
  <2>3. IsPrefix(seen \o R(lines), Meant)
    BY <1>9, <2>1, <2>2, PrefixOfConcat
  <2> HIDE DEF R
  <2>4. seen' = seen \o R(lines)
    BY <1>2, <1>13
  <2>5. seen' \o ReverseNames(aliases', buffer' \o wire') = Meant'
    BY <1>2, <1>11, <2>1, <2>4 DEF R
  <2> QED BY <1>1, <1>2, <1>4, <1>7, <1>11, <2>2, <2>3, <2>4, <2>5 DEF Relayed
<1> QED BY <1>1, <1>12, <1>13

\* Every step keeps it.
LEMMA RelayedStep == Relayed /\ [ExchangeNext]_exchangeVars => Relayed'
<1> SUFFICES ASSUME Relayed, [ExchangeNext]_exchangeVars PROVE Relayed'
  OBVIOUS
<1>0. WellTyped(request) /\ AliasesUnwritten(request) /\ Meant \in Seq(Symbol)
      /\ IsPrefix(<<>>, Meant) /\ IsPrefix(Meant, Meant)
  BY MeantType DEF Relayed
<1>1. CASE UNCHANGED exchangeVars
  BY <1>1 DEF Relayed, exchangeVars, Meant
<1>2. ASSUME Unauthenticated \/ AdministerRefused \/ SendRefused PROVE Relayed'
  BY <1>2 DEF Relayed, Unauthenticated, AdministerRefused, SendRefused, Refuse, Meant
<1>3. ASSUME Authenticate \/ Administer PROVE Relayed'
  BY <1>3 DEF Relayed, Authenticate, Administer, Meant
<1>4. CASE Send
  <2>1. out'.tools = RewriteTools(request.tools, aliases')
    BY <1>4 DEF Send, Apply
  <2> QED BY <1>4, <2>1 DEF Relayed, Send, Meant
<1>5. CASE ReplyWhole
  <2>1. seen' = Meant /\ Meant' = Meant
    BY <1>0, <1>5, AnswerReversed DEF ReplyWhole, Relayed, Meant
  <2> QED BY <1>0, <1>5, <2>1 DEF ReplyWhole, Relayed
<1>6. CASE ReplyStream
  <2>1. wire' \in Seq(Symbol) /\ ReverseNames(aliases, wire') = Meant /\ Meant' = Meant
    BY <1>0, <1>6, AnswerReversed DEF ReplyStream, Relayed, Meant
  <2>2. buffer' = <<>> /\ seen' = <<>> /\ aliases' = aliases /\ <<>> \in Seq(Symbol)
    BY <1>6, EmptySeq DEF ReplyStream, Relayed
  <2>3. buffer' \o wire' = wire'
    BY <2>1, <2>2, ConcatEmptySeq
  <2>4. seen' \o ReverseNames(aliases', buffer' \o wire') = Meant'
    BY <1>0, <2>1, <2>2, <2>3, ConcatEmptySeq
  <2> QED BY <1>0, <1>6, <2>1, <2>2, <2>4 DEF ReplyStream, Relayed
<1>7. ASSUME NEW n \in 1..Len(wire), Chunk(n) PROVE Relayed'
  BY <1>7, RelayedChunk
<1>8. CASE Flush
  <2>1. Meant' = Meant /\ buffer \o wire = buffer /\ stage = "relaying"
    <3>1. wire = <<>> /\ buffer \in Seq(Symbol)
      BY <1>8 DEF Flush, Relayed
    <3>2. buffer \o wire = buffer
      BY <3>1, ConcatEmptySeq
    <3> QED BY <1>8, <3>2 DEF Flush, Meant
  <2>2. seen' = IF gone THEN seen ELSE seen \o ReverseNames(aliases, buffer)
    BY <1>8 DEF Flush, Enqueue
  <2>3. ~gone => seen' = Meant
    BY <2>1, <2>2 DEF Relayed
  <2>4. gone => seen' = seen
    BY <2>2
  <2> QED BY <1>0, <1>8, <2>1, <2>3, <2>4 DEF Flush, Relayed
<1>9. CASE HangUp
  BY <1>9 DEF Relayed, HangUp, Meant
<1> QED BY <1>1, <1>2, <1>3, <1>4, <1>5, <1>6, <1>7, <1>8, <1>9 DEF ExchangeNext

\* However the stream is cut and the answer reversed, the caller reads its own
\* tools' names (src/proxy/tool-name-mapping.ts:127-205).
THEOREM CallersReadTheirNames == ExchangeSpec => []CallersSeeTheirNames
<1>1. Relayed => CallersSeeTheirNames
  BY DEF Relayed, CallersSeeTheirNames
<1> QED BY RelayedStart, RelayedStep, <1>1, PTL DEF ExchangeSpec

-----------------------------------------------------------------------------
(* What leaves: the identity.                                              *)

\* What the handler has sent, as the request decides it.
Leaving ==
    /\ out.system = Sanitize(EnsureSystem(request))
    /\ out.tools = RewriteTools(request.tools, Registered(request.tools))
    /\ out.anchors = request.anchors
    /\ out.keys = Reorder(request.template, KeysOf(request))
    /\ out.headers = BuildHeaders(request.template, request)

\* Sanitize changes texts and nothing else.
LEMMA TextsOf ==
    ASSUME NEW s \in Seq(SystemBlock)
    PROVE  /\ Len(Sanitize(s)) = Len(s) /\ Len(s) \in Nat
           /\ DOMAIN Sanitize(s) = 1..Len(s) /\ DOMAIN s = 1..Len(s)
           /\ \A i \in 1..Len(s) : /\ s[i] \in SystemBlock
                                   /\ Sanitize(s)[i].anchor = s[i].anchor
                                   /\ Sanitize(s)[i].text = ApplyTriggers(s[i].text)
<1>1. DOMAIN s = 1..Len(s) /\ Len(s) \in Nat
  OBVIOUS
<1>2. \A i \in 1..Len(s) : s[i] \in SystemBlock
  BY ElementOfSeq
<1>3. ASSUME NEW i \in 1..Len(s)
      PROVE  Sanitize(s)[i].anchor = s[i].anchor /\ Sanitize(s)[i].text = ApplyTriggers(s[i].text)
  <2>1. Sanitize(s)[i] = [s[i] EXCEPT !.text = ApplyTriggers(@)]
    BY <1>1 DEF Sanitize
  <2> QED BY <1>2, <2>1 DEF SystemBlock
<1>4. DOMAIN Sanitize(s) = 1..Len(s)
  BY <1>1 DEF Sanitize
<1>5. Len(Sanitize(s)) = Len(s)
  BY <1>1 DEF Sanitize
<1> QED BY <1>1, <1>2, <1>3, <1>4, <1>5

\* The system upstream reads: the caller's, or the identity before it.
LEMMA SystemOf ==
    ASSUME WellTyped(request)
    PROVE  /\ EnsureSystem(request) \in Seq(SystemBlock)
           /\ \/ /\ EnsureSystem(request) = request.system
                 /\ \E i \in DOMAIN request.system : IsCanonical(request.system[i])
              \/ EnsureSystem(request) = <<PickPrependBlock(request)>> \o request.system
           /\ PickPrependBlock(request) \in SystemBlock /\ PickPrependBlock(request).text = CCText
<1>1. request.system \in Seq(SystemBlock)
  BY DEF WellTyped
<1>2. PickPrependBlock(request) \in SystemBlock /\ PickPrependBlock(request).text = CCText
  BY DictionaryAssumption DEF PickPrependBlock, CCBlock, SystemBlock
<1>3. <<PickPrependBlock(request)>> \o request.system \in Seq(SystemBlock)
  BY <1>1, <1>2
<1> QED BY <1>1, <1>2, <1>3 DEF EnsureSystem

\* The identity has no trigger.
LEMMA CCTextKept == ApplyTriggers(CCText) = CCText /\ CCText \in Seq(Words)
<1>1. CCText \in Seq(Words) /\ \A d \in Range(Dictionary) : ~Occurs(d.pattern, CCText)
  BY DictionaryAssumption
<1> QED BY <1>1, TriggersApplied

\* What leaves has the identity, once where the caller had none.
LEMMA IdentityIsKept ==
    ASSUME WellTyped(request), Leaving
    PROVE  IdentityKept
<1> DEFINE old == request.system
           new == EnsureSystem(request)
           first == PickPrependBlock(request)
           Says(i, k) == /\ out.system[i].anchor = old[k].anchor
                         /\ (\A d \in Range(Dictionary) : ~Occurs(d.pattern, old[k].text)) =>
                                out.system[i].text = old[k].text
<1>1. old \in Seq(SystemBlock) /\ new \in Seq(SystemBlock) /\ out.system = Sanitize(new)
  BY SystemOf DEF WellTyped, Leaving
<1>2. Len(out.system) = Len(new) /\ DOMAIN out.system = 1..Len(new) /\ Len(new) \in Nat
      /\ \A i \in 1..Len(new) : /\ new[i] \in SystemBlock /\ out.system[i].anchor = new[i].anchor
                                /\ out.system[i].text = ApplyTriggers(new[i].text)
  BY <1>1, TextsOf
<1>3. Len(old) \in Nat /\ DOMAIN old = 1..Len(old)
  BY <1>1
<1>4. ASSUME NEW i \in 1..Len(new), NEW k \in 1..Len(old), new[i] = old[k] PROVE Says(i, k)
  <2>1. old[k].text \in Seq(Words)
    BY <1>2, <1>4 DEF SystemBlock
  <2> QED BY <1>2, <1>4, <2>1, TriggersApplied
<1>5. CASE new = old /\ \E i \in DOMAIN old : IsCanonical(old[i])
  <2>1. PICK i \in 1..Len(old) : IsCanonical(old[i])
    BY <1>3, <1>5
  <2>2. out.system[i].text = CCText /\ i \in DOMAIN out.system
    BY <1>2, <1>5, <2>1, CCTextKept DEF IsCanonical
  <2>3. Added = 0
    BY <1>2, <1>3, <1>5 DEF Added
  <2>4. \A k \in 1..Len(old) : k + Added = k
    BY <2>3
  <2>5. \A k \in 1..Len(old) : Says(k, k)
    BY <1>4, <1>5
  <2> QED BY <1>3, <2>2, <2>3, <2>4, <2>5 DEF IdentityKept
<1>6. CASE new = <<first>> \o old
  <2>1. first \in SystemBlock /\ first.text = CCText
    BY SystemOf
  <2>2. Len(new) = Len(old) + 1 /\ new[1] = first /\ \A i \in 1..Len(old) : new[i + 1] = old[i]
    BY <1>1, <1>6, <2>1, Prepended
  <2> HIDE DEF new, first
  <2>3. Added = 1 /\ 1 \in 1..Len(new)
    BY <1>2, <1>3, <2>2 DEF Added
  <2>4. out.system[1].text = CCText /\ 1 \in DOMAIN out.system
    BY <1>2, <2>1, <2>2, <2>3, CCTextKept
  <2>5. ASSUME NEW k \in 1..Len(old) PROVE Says(k + Added, k)
    <3>1. k + 1 \in 1..Len(new) /\ k + Added = k + 1
      BY <1>3, <2>2, <2>3
    <3> QED BY <1>4, <2>2, <3>1
  <2> QED BY <1>3, <2>3, <2>4, <2>5 DEF IdentityKept
<1> QED BY <1>5, <1>6, SystemOf

-----------------------------------------------------------------------------
(* What leaves: anchors, triggers, keys and headers.                       *)

\* An anchor is counted wherever its entry stands.
LEMMA AnchoredType ==
    ASSUME NEW X, NEW s \in Seq(X)
    PROVE  IsFiniteSet({i \in DOMAIN s : s[i].anchor # "no"}) /\ Anchored(s) \in Nat
<1>1. IsFiniteSet(DOMAIN s)
  BY FS_Interval
<1>2. IsFiniteSet({i \in DOMAIN s : s[i].anchor # "no"})
  BY <1>1, FS_Subset
<1> QED BY <1>2, FS_CardinalityType DEF Anchored

\* Texts do not count as anchors.
LEMMA AnchoredSame ==
    ASSUME NEW s, NEW t, DOMAIN s = DOMAIN t, \A i \in DOMAIN s : s[i].anchor = t[i].anchor
    PROVE  Anchored(s) = Anchored(t)
BY DEF Anchored

\* A block put first counts if it has one.
LEMMA AnchoredPrepended ==
    ASSUME NEW b \in SystemBlock, NEW s \in Seq(SystemBlock)
    PROVE  Anchored(<<b>> \o s) = Anchored(s) + (IF b.anchor # "no" THEN 1 ELSE 0)
<1> DEFINE t == <<b>> \o s
           A == {i \in DOMAIN s : s[i].anchor # "no"}
           B == {i + 1 : i \in A}
           T == {i \in DOMAIN t : t[i].anchor # "no"}
<1>1. t \in Seq(SystemBlock) /\ Len(t) = Len(s) + 1 /\ t[1] = b /\ \A i \in 1..Len(s) : t[i + 1] = s[i]
  BY Prepended
<1>2. DOMAIN s = 1..Len(s) /\ DOMAIN t = 1..(Len(s) + 1) /\ Len(s) \in Nat
  BY <1>1
<1>3. IsFiniteSet(A) /\ Anchored(s) = Cardinality(A) /\ A \in SUBSET (1..Len(s))
  BY <1>2, AnchoredType DEF Anchored
<1>4. Anchored(t) = Cardinality(T)
  BY DEF Anchored
<1> HIDE DEF t
<1>5. T = B \cup (IF b.anchor # "no" THEN {1} ELSE {})
  <2>1. ASSUME NEW i \in T PROVE i \in B \/ (i = 1 /\ b.anchor # "no")
    <3>1. CASE i = 1
      BY <1>1, <3>1
    <3>2. CASE i # 1
      <4>1. i - 1 \in 1..Len(s) /\ (i - 1) + 1 = i
        BY <1>2, <3>2
      <4>2. t[i] = s[i - 1]
        BY <1>1, <4>1
      <4>3. i - 1 \in A
        BY <1>2, <4>1, <4>2
      <4> QED BY <4>1, <4>3
    <3> QED BY <3>1, <3>2
  <2>2. ASSUME NEW i \in A PROVE i + 1 \in T
    <3>1. i \in 1..Len(s) /\ i + 1 \in DOMAIN t
      BY <1>2
    <3>2. t[i + 1] = s[i]
      BY <1>1, <3>1
    <3> QED BY <3>1, <3>2
  <2>3. b.anchor # "no" => 1 \in T
    BY <1>1, <1>2
  <2> HIDE DEF A, T
  <2> QED BY <2>1, <2>2, <2>3
<1>6. 1 \notin B
  BY <1>2
<1> HIDE DEF A, T
<1>7. IsFiniteSet(B) /\ Cardinality(B) = Cardinality(A)
  <2> DEFINE f == [i \in A |-> i + 1]
  <2>1. f \in Injection(A, B)
    BY <1>2, <1>3 DEF Injection, IsInjective
  <2>2. f \in Surjection(A, B)
    BY DEF Surjection
  <2>3. f \in Bijection(A, B)
    BY <2>1, <2>2 DEF Bijection
  <2> HIDE DEF f, B
  <2>4. ExistsBijection(A, B)
    BY <2>3 DEF ExistsBijection
  <2> QED BY <1>3, <2>4, FS_Bijection
<1> HIDE DEF B
<1>8. CASE b.anchor # "no"
  <2>1. T = B \cup {1}
    BY <1>5, <1>8
  <2>2. Cardinality(T) = Cardinality(B) + 1
    BY <1>6, <1>7, <2>1, FS_AddElement
  <2> QED BY <1>3, <1>4, <1>7, <1>8, <2>2 DEF t
<1>9. CASE b.anchor = "no"
  <2>1. T = B
    BY <1>5, <1>9
  <2>2. Cardinality(A) \in Nat
    BY <1>3, FS_CardinalityType
  <2> QED BY <1>3, <1>4, <1>7, <1>9, <2>1, <2>2 DEF t
<1> QED BY <1>8, <1>9

\* What the proofs below need of the aliased names.
LEMMA NamesFit ==
    ASSUME WellTyped(request), AliasesUnwritten(request)
    PROVE  LET names == Registered(request.tools) IN
           /\ request.tools \in Seq(ToolEntry) /\ names \in Seq(Words) /\ IsInjective(names)
           /\ Range(names) = {request.tools[k].name : k \in DOMAIN request.tools} \cap ToolTriggers
           /\ Len(names) <= Len(Aliases)
<1>1. request.tools \in Seq(ToolEntry)
  BY DEF WellTyped
<1> QED BY <1>1, RegisteredNames, MeantType

\* What leaves has no more anchors than the API takes.
LEMMA AnchorsStayWithin ==
    ASSUME WellTyped(request), AliasesUnwritten(request), Leaving
    PROVE  AnchorsFit
<1> DEFINE old == request.system
           new == EnsureSystem(request)
           first == PickPrependBlock(request)
<1>1. old \in Seq(SystemBlock) /\ new \in Seq(SystemBlock) /\ request.tools \in Seq(ToolEntry) /\ request.anchors \in Nat
  BY SystemOf DEF WellTyped
<1>2. Anchored(out.system) = Anchored(new)
  <2>1. out.system = Sanitize(new)
    BY DEF Leaving
  <2> HIDE DEF new
  <2>2. DOMAIN Sanitize(new) = DOMAIN new /\ \A i \in DOMAIN new : Sanitize(new)[i].anchor = new[i].anchor
    BY <1>1, TextsOf
  <2> QED BY <2>1, <2>2, AnchoredSame
<1>3. Anchored(out.tools) = Anchored(request.tools)
  <2> DEFINE tools == request.tools
             names == Registered(tools)
  <2>1. names \in Seq(Words) /\ Len(names) <= Len(Aliases) /\ out.tools = RewriteTools(tools, names)
    BY NamesFit DEF Leaving
  <2>2. DOMAIN RewriteTools(tools, names) = DOMAIN tools
        /\ \A i \in DOMAIN tools : RewriteTools(tools, names)[i].anchor = tools[i].anchor
    BY <1>1, <2>1, RewriteType
  <2> QED BY <2>1, <2>2, AnchoredSame
<1>4. out.anchors = request.anchors
  BY DEF Leaving
<1>5. Anchored(old) \in Nat /\ Anchored(request.tools) \in Nat /\ AnchorsOf(request) \in Nat
  <2>1. Anchored(old) \in Nat /\ Anchored(request.tools) \in Nat
    BY <1>1, AnchoredType
  <2> QED BY <1>1, <2>1 DEF AnchorsOf
<1>6. CASE new = old
  BY <1>2, <1>3, <1>4, <1>6 DEF AnchorsFit, AnchorsOf
<1>7. CASE new = <<first>> \o old
  <2>1. first \in SystemBlock
    BY SystemOf
  <2>2. Anchored(new) = Anchored(old) + (IF first.anchor # "no" THEN 1 ELSE 0)
    BY <1>1, <1>7, <2>1, AnchoredPrepended
  <2>3. first.anchor = IF AnchorsOf(request) + 1 > MaxAnchors THEN "no" ELSE "ephemeral"
    BY DEF PickPrependBlock, CCBlock
  <2> HIDE DEF new, first
  <2>4. AnchorsOf(out) = AnchorsOf(request) + (IF first.anchor # "no" THEN 1 ELSE 0)
    BY <1>1, <1>2, <1>3, <1>4, <1>5, <2>2 DEF AnchorsOf
  <2>5. CASE AnchorsOf(request) + 1 > MaxAnchors
    BY <1>5, <2>3, <2>4, <2>5 DEF AnchorsFit
  <2>6. CASE ~(AnchorsOf(request) + 1 > MaxAnchors)
    BY <1>5, <2>3, <2>4, <2>6 DEF AnchorsFit, MaxAnchors
  <2> QED BY <2>5, <2>6
<1> QED BY <1>6, <1>7, SystemOf

\* What leaves names no trigger, in its tools or in texts that do not rejoin.
LEMMA TriggersAreHidden ==
    ASSUME WellTyped(request), AliasesUnwritten(request), Leaving
    PROVE  TriggersHidden
<1> DEFINE new == EnsureSystem(request)
           tools == request.tools
           names == Registered(tools)
           sent == out.tools
           Called(i) == tools[i].name
<1>1. ASSUME NEW i \in DOMAIN out.system, NEW d \in Range(Dictionary)
      PROVE  Occurs(d.pattern, out.system[i].text) => i > Added /\ Rejoins(request.system[i - Added].text)
  <2> DEFINE old == request.system
             first == PickPrependBlock(request)
  <2>1. new \in Seq(SystemBlock) /\ out.system = Sanitize(new) /\ old \in Seq(SystemBlock)
    BY SystemOf DEF Leaving, WellTyped
  <2>5. \/ new = old
        \/ first \in SystemBlock /\ first.text = CCText /\ new = <<first>> \o old
    BY SystemOf
  <2> HIDE DEF new, first
  <2>2. /\ i \in 1..Len(new) /\ new[i] \in SystemBlock /\ out.system[i].text = ApplyTriggers(new[i].text)
        /\ Len(out.system) = Len(new) /\ Len(new) \in Nat /\ Len(old) \in Nat
    BY <2>1, TextsOf
  <2>3. new[i].text \in Seq(Words)
    BY <2>2 DEF SystemBlock
  <2>4. Occurs(d.pattern, out.system[i].text) => Rejoins(new[i].text)
    BY <2>2, <2>3, TriggersApplied
  <2>6. CASE new = old
    <3>1. Added = 0
      BY <2>2, <2>6 DEF Added
    <3>2. i - Added = i /\ i > Added
      BY <2>2, <3>1
    <3> QED BY <2>4, <2>6, <3>2
  <2>7. CASE first \in SystemBlock /\ first.text = CCText /\ new = <<first>> \o old
    <3>1. Len(new) = Len(old) + 1 /\ new[1] = first /\ \A k \in 1..Len(old) : new[k + 1] = old[k]
      BY <2>1, <2>7, Prepended
    <3>2. Added = 1
      BY <2>2, <3>1 DEF Added
    <3>3. CASE i = 1
      <4>1. out.system[i].text = CCText
        BY <2>2, <2>7, <3>1, <3>3, CCTextKept
      <4> QED BY <4>1, DictionaryAssumption
    <3>4. CASE i # 1
      <4>1. i - 1 \in 1..Len(old) /\ (i - 1) + 1 = i
        BY <2>2, <3>1, <3>4
      <4>2. new[i] = old[i - 1]
        BY <3>1, <4>1
      <4>3. i > Added /\ i - Added = i - 1
        BY <2>2, <3>2, <3>4
      <4> QED BY <2>4, <4>2, <4>3
    <3> QED BY <3>3, <3>4
  <2> QED BY <2>5, <2>6, <2>7
<1>2. /\ tools \in Seq(ToolEntry) /\ names \in Seq(Words) /\ IsInjective(names) /\ Len(names) <= Len(Aliases)
      /\ Range(names) = {Called(k) : k \in DOMAIN tools} \cap ToolTriggers
  BY NamesFit
<1>3. sent = RewriteTools(tools, names)
  BY DEF Leaving
<1> HIDE DEF names
<1>4. DOMAIN sent = DOMAIN tools /\ \A i \in DOMAIN tools :
        sent[i].name = IF Called(i) \in Range(names) THEN AliasOf(names, Called(i)) ELSE Called(i)
  BY <1>2, <1>3, RewriteType
<1>5. Aliases \in Seq(Words) /\ IsInjective(Aliases) /\ Range(Aliases) \cap ToolTriggers = {}
  BY DictionaryAssumption
<1>6. \A i \in DOMAIN tools : Called(i) \notin Range(Aliases)
  BY DEF AliasesUnwritten
<1> DEFINE Place(n) == CHOOSE j \in DOMAIN names : names[j] = n
<1>7. \A n \in Range(names) : Place(n) \in DOMAIN names /\ names[Place(n)] = n
  BY DEF Range
<1>8. \A n \in Range(names) : AliasOf(names, n) = Aliases[Place(n)] /\ Place(n) \in DOMAIN Aliases
  <2> TAKE n \in Range(names)
  <2>1. AliasOf(names, n) = Aliases[Place(n)]
    BY DEF AliasOf
  <2>2. DOMAIN names \subseteq DOMAIN Aliases
    BY <1>2, <1>5
  <2> QED BY <1>7, <2>1, <2>2
<1> HIDE DEF Place, sent, tools, Called
<1>9. \A n \in Range(names) : AliasOf(names, n) \in Range(Aliases)
  BY <1>8 DEF Range
<1>10. \A i \in DOMAIN sent : sent[i].name \notin ToolTriggers
  <2> TAKE i \in DOMAIN sent
  <2>1. CASE Called(i) \in Range(names)
    BY <1>4, <1>5, <1>9, <2>1
  <2>2. CASE Called(i) \notin Range(names)
    BY <1>2, <1>4, <2>2
  <2> QED BY <2>1, <2>2
<1>11. ASSUME NEW i \in DOMAIN sent, NEW j \in DOMAIN sent
       PROVE  (sent[i].name = sent[j].name) <=> (Called(i) = Called(j))
  <2>1. CASE Called(i) \in Range(names) /\ Called(j) \in Range(names)
    <3>1. sent[i].name = Aliases[Place(Called(i))] /\ sent[j].name = Aliases[Place(Called(j))]
      BY <1>4, <1>8, <2>1
    <3>2. sent[i].name = sent[j].name => Place(Called(i)) = Place(Called(j))
      BY <1>5, <1>8, <2>1, <3>1 DEF IsInjective
    <3> QED BY <1>7, <2>1, <3>1, <3>2
  <2>2. CASE Called(i) \notin Range(names) /\ Called(j) \notin Range(names)
    BY <1>4, <2>2
  <2>3. CASE Called(i) \in Range(names) /\ Called(j) \notin Range(names)
    BY <1>4, <1>6, <1>9, <2>3
  <2>4. CASE Called(i) \notin Range(names) /\ Called(j) \in Range(names)
    BY <1>4, <1>6, <1>9, <2>4
  <2> QED BY <2>1, <2>2, <2>3, <2>4
<1> QED BY <1>1, <1>10, <1>11 DEF TriggersHidden, sent, tools, Called

\* The body's keys are the caller's and the template's, each once.
LEMMA KeysAreKept ==
    ASSUME WellTyped(request), Leaving
    PROVE  KeysKept
<1> DEFINE keys == KeysOf(request)
           order == request.template.bodyOrder
<1>1. keys \in Seq(Words) /\ Range(keys) = Range(request.keys) \cup {"system"}
  <2>1. request.keys \in Seq(Words) /\ "system" \in Words
    BY DictionaryAssumption DEF WellTyped
  <2>2. DOMAIN request.keys = 1..Len(request.keys) /\ Len(request.keys) \in Nat
    BY <2>1
  <2>3. CASE Contains(request.keys, "system")
    BY <2>1, <2>2, <2>3 DEF Contains, KeysOf, Range
  <2>4. CASE ~Contains(request.keys, "system")
    <3> DEFINE u == Append(request.keys, "system")
    <3>1. u \in Seq(Words) /\ DOMAIN u = 1..(Len(request.keys) + 1) /\ u[Len(request.keys) + 1] = "system"
          /\ \A i \in 1..Len(request.keys) : u[i] = request.keys[i]
      BY <2>1
    <3>2. keys = u
      BY <2>4 DEF KeysOf
    <3> HIDE DEF u, keys
    <3>3. Range(u) = Range(request.keys) \cup {"system"}
      BY <2>2, <3>1 DEF Range
    <3> QED BY <3>1, <3>2, <3>3
  <2> QED BY <2>3, <2>4
<1>2. order \in Seq(Words)
  BY DEF WellTyped
<1>3. out.keys = Filled(order \o keys, ToSet(keys))
  BY DEF Leaving, Reorder
<1> HIDE DEF keys, order
<1>4. order \o keys \in Seq(Words) /\ Range(order \o keys) = Range(order) \cup Range(keys)
  BY <1>1, <1>2, RangeConcatenation
<1>5. IsInjective(out.keys) /\ Range(out.keys) = Range(order \o keys) \cap ToSet(keys)
  BY <1>3, <1>4, KeysFilled
<1>6. ToSet(keys) = Range(keys) /\ ToSet(out.keys) = Range(out.keys) /\ ToSet(request.keys) = Range(request.keys)
  BY DEF ToSet, Range
<1> QED BY <1>1, <1>4, <1>5, <1>6 DEF KeysKept

\* Versions are compared strictly.
LEMMA NewerIsStrict ==
    ASSUME NEW v \in [1..3 -> Nat], NEW w \in [1..3 -> Nat]
    PROVE  ~Newer(v, v) /\ (Newer(v, w) => ~Newer(w, v))
<1>1. ~Newer(v, v)
  BY DEF Newer
<1>2. ASSUME Newer(v, w), Newer(w, v) PROVE FALSE
  <2>1. PICK i \in 1..3 : v[i] > w[i] /\ \A j \in 1..(i - 1) : v[j] = w[j]
    BY <1>2 DEF Newer
  <2>2. PICK k \in 1..3 : w[k] > v[k] /\ \A j \in 1..(k - 1) : w[j] = v[j]
    BY <1>2 DEF Newer
  <2>3. CASE i < k
    <3>1. i \in 1..(k - 1)
      BY <2>3
    <3> QED BY <2>1, <2>2, <3>1
  <2>4. CASE k < i
    <3>1. k \in 1..(i - 1)
      BY <2>4
    <3> QED BY <2>1, <2>2, <3>1
  <2>5. CASE i = k
    BY <2>1, <2>2, <2>5
  <2> QED BY <2>3, <2>4, <2>5
<1> QED BY <1>1, <1>2

\* The user agent is no older than the snapshot's or the caller's.
LEMMA AgentIsNewest ==
    ASSUME NEW snapshot \in Agents, NEW client \in Agents
    PROVE  LET agent == ResolveUserAgent(snapshot, client) IN
           /\ snapshot.shape = "cli" => agent.shape = "cli" /\ ~Newer(snapshot.version, agent.version)
           /\ client.shape = "cli" => agent.shape = "cli" /\ ~Newer(client.version, agent.version)
<1>1. \A a \in Agents : a.shape = "cli" => a.version \in [1..3 -> Nat]
  BY DEF Agents
<1>2. CASE client.shape # "cli"
  BY <1>1, <1>2, NewerIsStrict DEF ResolveUserAgent
<1>3. CASE client.shape = "cli" /\ snapshot.shape # "cli"
  BY <1>1, <1>3, NewerIsStrict DEF ResolveUserAgent
<1>4. CASE client.shape = "cli" /\ snapshot.shape = "cli"
  <2>1. client.version \in [1..3 -> Nat] /\ snapshot.version \in [1..3 -> Nat]
    BY <1>1, <1>4
  <2> QED BY <1>4, <2>1, NewerIsStrict DEF ResolveUserAgent
<1> QED BY <1>2, <1>3, <1>4

\* The headers are the template's, with the newest agent and the union of the flags.
LEMMA HeadersAreKept ==
    ASSUME WellTyped(request), Leaving
    PROVE  HeadersKept
<1> DEFINE t == request.template
           h == out.headers
           slot(n) == Contains(t.headerOrder, n)
           snapshot == IF slot("user-agent") THEN t.agent ELSE NoAgent
<1>1. h = BuildHeaders(t, request)
  BY DEF Leaving
<1>2. t.agent \in Agents /\ request.agent \in Agents /\ snapshot \in Agents
  BY DEF WellTyped, NoAgent, Agents
<1>3. h.agent = ResolveUserAgent(snapshot, request.agent)
  BY <1>1 DEF BuildHeaders
<1>4. slot("anthropic-beta") => h.betas = t.betas \cup request.betas
  BY <1>1 DEF BuildHeaders, MergeBetas
<1>5. request.session # None /\ slot("x-claude-code-session-id") => h.session = request.session
  BY <1>1 DEF BuildHeaders
<1>6. /\ slot("user-agent") /\ t.agent.shape = "cli" => h.agent.shape = "cli" /\ ~Newer(t.agent.version, h.agent.version)
      /\ request.agent.shape = "cli" => h.agent.shape = "cli" /\ ~Newer(request.agent.version, h.agent.version)
  BY <1>2, <1>3, AgentIsNewest
<1> QED BY <1>4, <1>5, <1>6 DEF HeadersKept

-----------------------------------------------------------------------------
(* What leaves, and what an admin's page may change.                       *)

\* A page whose change passes the layers of csrfGuard is one of ours, typed in,
\* no page at all or one its browser tells nothing of, and our page in a modern
\* browser passes.
LEMMA PagesAreMeant ==
    ASSUME NEW page, page.from \in Pages, page.modern \in BOOLEAN
    PROVE  /\ CsrfPasses(page) => page.from \in {"ours", "typed", "script"} \/ TellsNothing(page)
           /\ page.from = "ours" /\ page.modern => CsrfPasses(page)
<1>1. page.from \in {"ours", "sibling", "foreign", "typed", "script"}
  BY DEF Pages
<1>2. None \notin {"same-origin", "same-site", "cross-site", "none"} /\ None \notin Pages
  BY NoneAssumption
<1>3. CASE page.modern
  <2>1. FetchSite(page) = CASE page.from = "ours" -> "same-origin" [] page.from = "sibling" -> "same-site"
                            [] page.from = "foreign" -> "cross-site" [] OTHER -> "none"
    BY <1>3 DEF FetchSite
  <2>2. FetchSite(page) # None
    BY <1>1, <1>2, <2>1
  <2>3. CsrfPasses(page) <=> FetchSite(page) \in {"same-origin", "none"}
    BY <2>2 DEF CsrfPasses
  <2> QED BY <1>1, <2>1, <2>3
<1>4. CASE ~page.modern
  <2>1. FetchSite(page) = None
    BY <1>4 DEF FetchSite
  <2> SUFFICES ASSUME CsrfPasses(page), page.from \in {"sibling", "foreign"}, page.origin # "absent"
               PROVE  FALSE
    BY <1>1, <1>4 DEF TellsNothing
  <2>2. OriginOf(page) \in {OpaqueOrigin, [scheme |-> "https", host |-> page.from]}
    BY DEF OriginOf
  <2>3. OpaqueOrigin \in [scheme : {"https", "null"}, host : Pages \cup {"null"}]
        /\ [scheme |-> "https", host |-> page.from] \in [scheme : {"https", "null"}, host : Pages \cup {"null"}]
    BY DEF OpaqueOrigin
  <2>4. OriginOf(page) # None
    BY <2>2, <2>3, NoneAssumption
  <2>5. RefererHost(page) # "ours"
    BY <1>2 DEF RefererHost, Pages
  <2>6. OriginOf(page) = ExpectedOrigin(page)
    BY <2>1, <2>4, <2>5 DEF CsrfPasses
  <2>7. OriginOf(page).host # "ours" /\ ExpectedOrigin(page).host = "ours"
    BY <2>2 DEF OpaqueOrigin, ExpectedOrigin
  <2> QED BY <2>6, <2>7
<1> QED BY <1>3, <1>4

\* What has been decided of the request, at every stage.
Decided ==
    /\ stage \in {"new", "known", "changed", "sent", "relaying", "done", "refused"}
    /\ WellTyped(request) /\ AliasesUnwritten(request)
    /\ stage = "new" => user = None
    /\ stage = "changed" => RequireAdmin(user) /\ CsrfPasses(request.page)
    /\ stage \in {"sent", "relaying", "done"} => request.kind = "messages" /\ Leaving
    /\ stage = "refused" /\ user # None /\ request.kind = "admin" =>
        ~(RequireAdmin(user) /\ CsrfPasses(request.page))

\* It holds at the start.
LEMMA DecidedStart == ExchangeInit => Decided
<1> SUFFICES ASSUME ExchangeInit PROVE Decided
  OBVIOUS
<1>1. WellTyped(request) /\ AliasesUnwritten(request)
  BY ExchangeAssumption DEF ExchangeInit
<1> QED BY <1>1 DEF ExchangeInit, Decided

\* Every step keeps it.
LEMMA DecidedStep == Decided /\ [ExchangeNext]_exchangeVars => Decided'
<1> SUFFICES ASSUME Decided, [ExchangeNext]_exchangeVars PROVE Decided'
  OBVIOUS
<1>1. CASE UNCHANGED exchangeVars
  BY <1>1 DEF Decided, exchangeVars, Leaving
<1>2. CASE Unauthenticated
  BY <1>2 DEF Decided, Unauthenticated, Refuse
<1>3. CASE Authenticate
  BY <1>3 DEF Decided, Authenticate
<1>4. CASE Administer
  BY <1>4 DEF Decided, Administer
<1>5. CASE AdministerRefused
  BY <1>5 DEF Decided, AdministerRefused, Refuse
<1>6. CASE SendRefused
  BY <1>6 DEF Decided, SendRefused, Refuse
<1>7. CASE Send
  <2>1. Leaving'
    BY <1>7 DEF Send, Apply, Leaving
  <2> QED BY <1>7, <2>1 DEF Decided, Send
<1>8. ASSUME ReplyWhole \/ ReplyStream PROVE Decided'
  BY <1>8 DEF Decided, ReplyWhole, ReplyStream, Leaving
<1>9. ASSUME NEW n \in 1..Len(wire), Chunk(n) PROVE Decided'
  BY <1>9 DEF Decided, Chunk, Leaving
<1>10. ASSUME Flush \/ HangUp PROVE Decided'
  BY <1>10 DEF Decided, Flush, HangUp, Leaving
<1> QED BY <1>1, <1>2, <1>3, <1>4, <1>5, <1>6, <1>7, <1>8, <1>9, <1>10 DEF ExchangeNext

\* What leaves the gateway keeps the caller's request, its identity and its
\* anchors, hides every trigger, and what changes the gateway was meant by an
\* admin (src/proxy/messages.ts:139-365, src/template/extracted.ts:117-336,
\* src/admin/csrf.ts:4-37).
THEOREM WhatLeavesIsAcceptable == ExchangeSpec => []OnlyAcceptableLeaves
<1>1. Decided => OnlyAcceptableLeaves
  <2> SUFFICES ASSUME Decided PROVE OnlyAcceptableLeaves
    OBVIOUS
  <2>1. ChangesAreMeant
    <3>1. request.page.from \in Pages /\ request.page.modern \in BOOLEAN
      BY DEF Decided, WellTyped
    <3> QED BY <3>1, PagesAreMeant DEF Decided, ChangesAreMeant, RequireAdmin
  <2>2. stage \in {"sent", "relaying", "done"} =>
          IdentityKept /\ AnchorsFit /\ TriggersHidden /\ KeysKept /\ HeadersKept
    BY IdentityIsKept, AnchorsStayWithin, TriggersAreHidden, KeysAreKept, HeadersAreKept DEF Decided
  <2> QED BY <2>1, <2>2 DEF OnlyAcceptableLeaves
<1> QED BY DecidedStart, DecidedStep, <1>1, PTL DEF ExchangeSpec

=============================================================================
