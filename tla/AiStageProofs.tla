--------------------------- MODULE AiStageProofs ---------------------------
(***************************************************************************)
(* Proofs about AiStage, for every transcript, every limit and any number  *)
(* of workers.                                                             *)
(*                                                                         *)
(* What the batches, chunks and reduce groups of a transcript are is       *)
(* decided by loops, so the first part is about induction: on the natural  *)
(* numbers, stated of sets of them, because the library's schemes take an  *)
(* operator, which no prover instantiates.                                 *)
(***************************************************************************)
EXTENDS AiStage, SequenceTheorems, FiniteSetTheorems, WellFoundedInduction, TLAPS

-----------------------------------------------------------------------------
(* Induction and recursion *)

LEMMA LeastNatural ==
    ASSUME NEW S \in SUBSET Nat, S # {}
    PROVE  \E n \in S : \A m \in S : n <= m
  <1> DEFINE R == {ss \in Nat \X Nat : ss[1] < ss[2]}
  <1>1. IsWellFoundedOn(R, Nat)
    BY NatLessThanWellFounded DEF OpToRel
  <1> HIDE DEF R
  <1>2. PICK n \in S : \A m \in S : ~(<<m, n>> \in R)
    BY <1>1, WFMin
  <1>3. \A m \in S : ~(m < n)
    BY <1>2 DEF R
  <1>4. QED BY <1>2, <1>3

\* A set with 0 that is closed under successor has all natural numbers.
LEMMA Induction ==
    ASSUME NEW S \in SUBSET Nat, 0 \in S, \A n \in S : n + 1 \in S
    PROVE  S = Nat
  <1> SUFFICES ASSUME S # Nat PROVE FALSE
    OBVIOUS
  <1> DEFINE T == Nat \ S
  <1>1. PICK n \in T : \A m \in T : n <= m
    BY LeastNatural
  <1>2. n # 0 /\ n - 1 \in Nat /\ n - 1 \notin T
    BY <1>1
  <1>3. (n - 1) + 1 \in S
    BY <1>2
  <1>4. QED BY <1>1, <1>3

\* The values of a loop of n rounds that starts with b and does F[k] in round k.
LoopBody(S, b, n, F) == b \in S /\ n \in Nat /\ F \in [1..n -> [S -> S]]
LoopOf(S, b, n, F, f) ==
    f \in [0..n -> S] /\ f[0] = b /\ \A k \in 1..n : f[k] = F[k][f[k - 1]]

LEMMA Recursion ==
    ASSUME NEW S, NEW b, NEW n, NEW F, LoopBody(S, b, n, F)
    PROVE  \E f : LoopOf(S, b, n, F, f)
  <1> SUFFICES \E f \in [0..n -> S] : f[0] = b /\ \A k \in 1..n : f[k] = F[k][f[k - 1]]
    BY DEF LoopOf
  <1> b \in S /\ n \in Nat /\ F \in [1..n -> [S -> S]]
    BY DEF LoopBody
  <1> DEFINE Good(m, f) == f[0] = b /\ \A k \in 1..m : f[k] = F[k][f[k - 1]]
             T == {m \in Nat : m <= n => \E f \in [0..m -> S] : Good(m, f)}
  <1>1. 0 \in T
    <2>1. [k \in 0..0 |-> b] \in [0..0 -> S] /\ Good(0, [k \in 0..0 |-> b])
      OBVIOUS
    <2>2. QED BY <2>1
  <1>2. ASSUME NEW m \in T PROVE m + 1 \in T
    <2>0. m \in Nat /\ m + 1 \in Nat
      OBVIOUS
    <2>1. ASSUME m + 1 <= n PROVE \E f \in [0..(m + 1) -> S] : Good(m + 1, f)
      <3> m \in Nat /\ m <= n
        BY <2>1
      <3>1. PICK f \in [0..m -> S] : Good(m, f)
        BY <1>2
      <3> DEFINE g == [k \in 0..(m + 1) |-> IF k = m + 1 THEN F[m + 1][f[m]] ELSE f[k]]
      <3>2. g \in [0..(m + 1) -> S]
        <4>1. \A k \in 0..(m + 1) : k # m + 1 => k \in 0..m
          OBVIOUS
        <4>2. F[m + 1] \in [S -> S] /\ f[m] \in S
          BY <2>1
        <4>3. QED BY <4>1, <4>2
      <3>3. ASSUME NEW k \in 1..(m + 1) PROVE g[k] = F[k][g[k - 1]]
        <4>1. CASE k = m + 1
          BY <4>1
        <4>2. CASE k # m + 1
          <5>1. /\ k \in 1..m /\ k - 1 \in 0..m /\ k \in 0..(m + 1)
                /\ k - 1 \in 0..(m + 1) /\ k - 1 # m + 1
            BY <4>2
          <5>2. g[k] = f[k] /\ g[k - 1] = f[k - 1]
            BY <4>2, <5>1
          <5>3. QED BY <3>1, <5>1, <5>2
        <4>3. QED BY <4>1, <4>2
      <3>4. g[0] = b
        BY <3>1
      <3> HIDE DEF g
      <3>5. QED BY <3>2, <3>3, <3>4
    <2>2. QED BY <2>0, <2>1
  <1> HIDE DEF T
  <1>3. T = Nat
    <2>1. T \in SUBSET Nat
      BY DEF T
    <2>2. QED BY <1>1, <1>2, <2>1, Induction
  <1>4. n \in T
    BY <1>3
  <1>5. QED BY <1>4 DEF T

\* The same for numbers up to n.
LEMMA BoundedInduction ==
    ASSUME NEW n \in Nat, NEW S, 0 \in S, \A k \in 1..n : k - 1 \in S => k \in S
    PROVE  0..n \subseteq S
  <1> DEFINE T == {k \in Nat : k <= n => k \in S}
  <1>1. 0 \in T /\ T \in SUBSET Nat
    OBVIOUS
  <1>2. ASSUME NEW k \in T PROVE k + 1 \in T
    <2>1. ASSUME k + 1 <= n PROVE k + 1 \in S
      <3>1. k \in S /\ k + 1 \in 1..n /\ (k + 1) - 1 = k
        BY <2>1
      <3>2. QED BY <3>1
    <2>2. QED BY <2>1
  <1> HIDE DEF T
  <1>3. T = Nat
    BY <1>1, <1>2, Induction
  <1>4. QED BY <1>3 DEF T

-----------------------------------------------------------------------------
(* FlattenSeq *)

\* The library's fact in the form of one formula.
LEMMA ConcatIsAssociative ==
    \A S : \A s, t, u \in Seq(S) : (s \o t) \o u = s \o (t \o u)
  BY ConcatAssociative

\* FlattenSeq is what a loop that appends the parts one by one ends with.
LEMMA FlattenSeqIs ==
    ASSUME NEW T, NEW ss \in Seq(Seq(T)), NEW f \in [0..Len(ss) -> Seq(T)],
           f[0] = <<>>, \A k \in 1..Len(ss) : f[k] = f[k - 1] \o ss[k]
    PROVE  FlattenSeq(ss) = f[Len(ss)]
  <1> DEFINE n == Len(ss)
             D(g) == [i \in 1..n |-> IF i = 1 THEN ss[i] ELSE g[i - 1] \o ss[i]]
             h == CHOOSE g : g = D(g)
  <1>1. n \in Nat /\ \A i \in 1..n : ss[i] \in Seq(T)
    BY LenProperties
  <1>2. CASE n = 0
    <2>1. ss = <<>>
      BY <1>2, EmptySeq
    <2>2. QED BY <1>2, <2>1 DEF FlattenSeq
  <1>3. CASE n # 0
    <2> DEFINE g == [i \in 1..n |-> f[i]]
    <2>1. g = D(g)
      <3>1. ASSUME NEW i \in 1..n PROVE f[i] = D(g)[i]
        <4>1. CASE i = 1
          <5>1. 1 \in 1..n /\ 1 - 1 = 0
            BY <1>1, <4>1
          <5>3. f[1] = f[1 - 1] \o ss[1]
            BY <5>1, Zenon
          <5>4. f[0] \o ss[1] = ss[1]
            BY <1>1, <5>1, ConcatEmptySeq
          <5>2. QED BY <4>1, <5>1, <5>3, <5>4
        <4>2. CASE i # 1
          <5>1. i - 1 \in 1..n
            BY <1>1, <4>2
          <5>2. QED BY <1>1, <4>2, <5>1
        <4>3. QED BY <4>1, <4>2
      <3>2. QED BY <3>1
    <2> HIDE DEF g
    <2>2. h = D(h)
      BY <2>1
    <2>3. FlattenSeq(ss) = h[n]
      BY <1>3 DEF FlattenSeq
    <2> HIDE DEF h
    <2> DEFINE S == {0} \cup {k \in 1..n : h[k] = f[k]}
    <2>4. ASSUME NEW k \in 1..n, k - 1 \in S PROVE k \in S
      <3>1. h[k] = IF k = 1 THEN ss[k] ELSE h[k - 1] \o ss[k]
        BY <2>2
      <3>2. CASE k = 1
        <4>1. g[1] = f[1] /\ g[1] = ss[1]
          BY <1>1, <2>1, <3>2 DEF g
        <4>2. QED BY <3>1, <3>2, <4>1
      <3>3. CASE k # 1
        <4>1. h[k - 1] = f[k - 1] /\ k - 1 \in 1..n
          BY <1>1, <2>4, <3>3
        <4>2. f[k] = f[k - 1] \o ss[k]
          BY Zenon
        <4>3. QED BY <3>1, <3>3, <4>1, <4>2
      <3>4. QED BY <3>2, <3>3
    <2>5. 0..n \subseteq S
      <3> 0 \in S
        OBVIOUS
      <3> HIDE DEF S
      <3>1. QED BY <1>1, <2>4, BoundedInduction
    <2>6. QED BY <1>1, <1>3, <2>3, <2>5
  <1>4. QED BY <1>2, <1>3

LEMMA FlattenSeqLoop ==
    ASSUME NEW T, NEW ss \in Seq(Seq(T))
    PROVE  \E f \in [0..Len(ss) -> Seq(T)] :
             /\ f[0] = <<>> /\ FlattenSeq(ss) = f[Len(ss)]
             /\ \A k \in 1..Len(ss) : f[k] = f[k - 1] \o ss[k]
  <1> DEFINE F == [k \in 1..Len(ss) |-> [t \in Seq(T) |-> t \o ss[k]]]
  <1>1. Len(ss) \in Nat /\ \A k \in 1..Len(ss) : ss[k] \in Seq(T)
    BY LenProperties
  <1>2. F \in [1..Len(ss) -> [Seq(T) -> Seq(T)]]
    BY <1>1, ConcatProperties
  <1>3. <<>> \in Seq(T)
    BY EmptySeq
  <1>4. PICK f \in [0..Len(ss) -> Seq(T)] :
               f[0] = <<>> /\ \A k \in 1..Len(ss) : f[k] = F[k][f[k - 1]]
    <2>1. LoopBody(Seq(T), <<>>, Len(ss), F)
      BY <1>1, <1>2, <1>3 DEF LoopBody
    <2>2. PICK f : LoopOf(Seq(T), <<>>, Len(ss), F, f)
      BY <2>1, Recursion
    <2>3. QED BY <2>2 DEF LoopOf
  <1>5. ASSUME NEW k \in 1..Len(ss) PROVE f[k] = f[k - 1] \o ss[k]
    <2>1. k - 1 \in 0..Len(ss)
      BY <1>1
    <2>2. QED BY <1>4, <2>1
  <1>6. FlattenSeq(ss) = f[Len(ss)]
    BY <1>4, <1>5, FlattenSeqIs
  <1>7. QED BY <1>4, <1>5, <1>6

LEMMA FlattenSeqType ==
    ASSUME NEW T, NEW ss \in Seq(Seq(T))
    PROVE  FlattenSeq(ss) \in Seq(T)
  <1>1. PICK f \in [0..Len(ss) -> Seq(T)] : FlattenSeq(ss) = f[Len(ss)]
    BY FlattenSeqLoop
  <1>2. Len(ss) \in 0..Len(ss)
    <2>1. Len(ss) \in Nat
      BY LenProperties
    <2>2. QED BY <2>1
  <1>3. QED BY <1>1, <1>2

LEMMA FlattenSeqEmpty == FlattenSeq(<<>>) = <<>>
  BY DEF FlattenSeq

\* The parts of two sequences of parts, one after the other.
LEMMA FlattenSeqConcat ==
    ASSUME NEW T, NEW a \in Seq(Seq(T)), NEW b \in Seq(Seq(T))
    PROVE  FlattenSeq(a \o b) = FlattenSeq(a) \o FlattenSeq(b)
  <1> DEFINE m == Len(a)
             n == Len(b)
             c == a \o b
  <1>1. m \in Nat /\ n \in Nat /\ c \in Seq(Seq(T)) /\ Len(c) = m + n
    BY LenProperties, ConcatProperties
  <1>2. PICK f \in [0..m -> Seq(T)] :
               /\ f[0] = <<>> /\ FlattenSeq(a) = f[m]
               /\ \A k \in 1..m : f[k] = f[k - 1] \o a[k]
    BY FlattenSeqLoop
  <1>3. PICK g \in [0..n -> Seq(T)] :
               /\ g[0] = <<>> /\ FlattenSeq(b) = g[n]
               /\ \A k \in 1..n : g[k] = g[k - 1] \o b[k]
    BY FlattenSeqLoop
  <1> DEFINE h == [k \in 0..(m + n) |-> IF k <= m THEN f[k] ELSE f[m] \o g[k - m]]
  <1>4. h \in [0..Len(c) -> Seq(T)]
    <2>1. ASSUME NEW k \in 0..(m + n) PROVE h[k] \in Seq(T)
      <3>1. CASE k <= m
        <4>1. k \in 0..m
          BY <1>1, <3>1
        <4>2. QED BY <3>1, <4>1
      <3>2. CASE ~(k <= m)
        <4>1. k - m \in 0..n /\ m \in 0..m
          BY <1>1, <3>2
        <4>2. QED BY <3>2, <4>1, ConcatProperties
      <3>3. QED BY <3>1, <3>2
    <2>2. QED BY <1>1, <2>1
  <1>5. h[0] = <<>>
    BY <1>1, <1>2
  <1>6. ASSUME NEW k \in 1..Len(c) PROVE h[k] = h[k - 1] \o c[k]
    <2>1. k \in 1..(m + n) /\ k - 1 \in 0..(m + n) /\ c[k] = IF k <= m THEN a[k] ELSE b[k - m]
      BY <1>1, ConcatProperties
    <2>2. CASE k <= m
      <3>1. k \in 1..m /\ k - 1 <= m
        BY <1>1, <2>1, <2>2
      <3>2. h[k] = f[k] /\ h[k - 1] = f[k - 1]
        BY <2>1, <2>2, <3>1
      <3>3. QED BY <1>2, <2>1, <2>2, <3>1, <3>2
    <2>3. CASE ~(k <= m)
      <3>1. k - m \in 1..n /\ m \in 0..m /\ (k - m) - 1 \in 0..n /\ (k - m) - 1 = (k - 1) - m
        BY <1>1, <2>1, <2>3
      <3>2. h[k] = f[m] \o g[k - m] /\ g[k - m] = g[(k - m) - 1] \o b[k - m]
        <4>1. g[k - m] = g[(k - m) - 1] \o b[k - m]
          BY <1>3, <3>1, Zenon
        <4>2. k \in 0..(m + n)
          BY <1>1, <2>1
        <4>3. QED BY <2>3, <4>1, <4>2
      <3>3. h[k - 1] = f[m] \o g[(k - m) - 1]
        <4>1. CASE k - 1 <= m
          <5>1. k - 1 = m /\ (k - m) - 1 = 0
            BY <1>1, <2>1, <2>3, <4>1
          <5>2. h[k - 1] = f[m]
            BY <2>1, <4>1, <5>1
          <5>3. f[m] \o g[0] = f[m]
            BY <1>3, <3>1, ConcatEmptySeq
          <5>4. QED BY <5>1, <5>2, <5>3
        <4>2. CASE ~(k - 1 <= m)
          BY <2>1, <3>1, <4>2
        <4>3. QED BY <4>1, <4>2
      <3>4. f[m] \in Seq(T) /\ g[(k - m) - 1] \in Seq(T) /\ b[k - m] \in Seq(T)
        BY <3>1, ElementOfSeq
      <3>5. f[m] \o (g[(k - m) - 1] \o b[k - m]) = (f[m] \o g[(k - m) - 1]) \o b[k - m]
        <4> DEFINE x == f[m]
                   y == g[(k - m) - 1]
                   z == b[k - m]
        <4>1. x \in Seq(T) /\ y \in Seq(T) /\ z \in Seq(T)
          BY <3>4
        <4> HIDE DEF x, y, z
        <4>2. (x \o y) \o z = x \o (y \o z)
          BY <4>1, ConcatIsAssociative, SMTT(60)
        <4>3. QED BY <4>2 DEF x, y, z
      <3>6. c[k] = b[k - m]
        BY <2>1, <2>3
      <3> HIDE DEF h, c
      <3>7. QED BY <3>2, <3>3, <3>5, <3>6
    <2>4. QED BY <2>2, <2>3
  <1>7. FlattenSeq(c) = h[m + n]
    <2> HIDE DEF h, c
    <2>1. QED BY <1>1, <1>4, <1>5, <1>6, FlattenSeqIs
  <1>8. h[m + n] = f[m] \o g[n]
    <2>1. CASE n = 0
      <3>1. f[m] \in Seq(T) /\ h[m + n] = f[m]
        BY <1>1, <2>1
      <3>2. QED BY <1>3, <2>1, <3>1, ConcatEmptySeq
    <2>2. CASE n # 0
      <3>1. m + n \in 0..(m + n) /\ ~(m + n <= m) /\ (m + n) - m = n
        BY <1>1, <2>2
      <3>2. QED BY <3>1
    <2>3. QED BY <2>1, <2>2
  <1>9. QED BY <1>2, <1>3, <1>7, <1>8

LEMMA FlattenSeqOne ==
    ASSUME NEW T, NEW s \in Seq(T)
    PROVE  FlattenSeq(<<s>>) = s
  <1> DEFINE f == [k \in 0..1 |-> IF k = 0 THEN <<>> ELSE s]
  <1>1. <<s>> \in Seq(Seq(T)) /\ Len(<<s>>) = 1 /\ <<s>>[1] = s
    OBVIOUS
  <1>2. f \in [0..1 -> Seq(T)] /\ f[0] = <<>> /\ f[1] = s
    BY EmptySeq
  <1>3. \A k \in 1..1 : f[k] = f[k - 1] \o <<s>>[k]
    BY <1>1, <1>2, ConcatEmptySeq
  <1> HIDE DEF f
  <1>4. QED BY <1>1, <1>2, <1>3, FlattenSeqIs

LEMMA FlattenSeqAppend ==
    ASSUME NEW T, NEW ss \in Seq(Seq(T)), NEW s \in Seq(T)
    PROVE  FlattenSeq(Append(ss, s)) = FlattenSeq(ss) \o s
  <1>1. <<s>> \in Seq(Seq(T)) /\ Append(ss, s) = ss \o <<s>>
    BY AppendIsConcat
  <1>2. FlattenSeq(ss \o <<s>>) = FlattenSeq(ss) \o FlattenSeq(<<s>>)
    BY <1>1, FlattenSeqConcat, Zenon
  <1>3. QED BY <1>1, <1>2, FlattenSeqOne

LEMMA FlattenSeqHeadTail ==
    ASSUME NEW T, NEW ss \in Seq(Seq(T)), ss # <<>>
    PROVE  FlattenSeq(ss) = Head(ss) \o FlattenSeq(Tail(ss))
  <1>1. Head(ss) \in Seq(T) /\ Tail(ss) \in Seq(Seq(T)) /\ <<Head(ss)>> \in Seq(Seq(T))
    BY HeadTailProperties
  <1>2. ss = <<Head(ss)>> \o Tail(ss)
    <2> DEFINE u == <<Head(ss)>> \o Tail(ss)
    <2>1. /\ Len(Tail(ss)) = Len(ss) - 1 /\ Len(ss) \in Nat /\ Len(ss) # 0
          /\ \A i \in 1..Len(Tail(ss)) : Tail(ss)[i] = ss[i + 1]
      BY HeadTailProperties, EmptySeq
    <2>2. /\ u \in Seq(Seq(T)) /\ Len(u) = 1 + Len(Tail(ss))
          /\ \A i \in 1..(1 + Len(Tail(ss))) :
               u[i] = IF i <= 1 THEN <<Head(ss)>>[i] ELSE Tail(ss)[i - 1]
      BY <1>1, ConcatProperties
    <2>3. ASSUME NEW i \in 1..Len(ss) PROVE ss[i] = u[i]
      BY <2>1, <2>2
    <2> HIDE DEF u
    <2>4. QED BY <2>1, <2>2, <2>3, SeqEqual DEF u
  <1>3. FlattenSeq(ss) = FlattenSeq(<<Head(ss)>>) \o FlattenSeq(Tail(ss))
    <2>1. FlattenSeq(<<Head(ss)>> \o Tail(ss)) = FlattenSeq(<<Head(ss)>>) \o FlattenSeq(Tail(ss))
      BY <1>1, FlattenSeqConcat, Zenon
    <2>2. QED BY <1>2, <2>1, Zenon
  <1>4. FlattenSeq(<<Head(ss)>>) = Head(ss)
    BY <1>1, FlattenSeqOne, Zenon
  <1>5. QED BY <1>3, <1>4, Zenon

-----------------------------------------------------------------------------
(* Pack: what is done and what is current are the elements seen so far *)

Sofar(T) == [done : Seq(Seq(T)), current : Seq(T)]
Seen(acc) == FlattenSeq(acc.done) \o acc.current

LEMMA FlushKeeps ==
    ASSUME NEW T, NEW acc \in Sofar(T)
    PROVE  Flush(acc) \in Seq(Seq(T)) /\ FlattenSeq(Flush(acc)) = Seen(acc)
  <1>1. acc.done \in Seq(Seq(T)) /\ acc.current \in Seq(T)
    BY DEF Sofar
  <1>2. CASE acc.current = <<>>
    <2>1. FlattenSeq(acc.done) \o <<>> = FlattenSeq(acc.done)
      BY <1>1, FlattenSeqType, ConcatEmptySeq
    <2>2. QED BY <1>1, <1>2, <2>1 DEF Flush, Seen
  <1>3. CASE acc.current # <<>>
    <2>1. Append(acc.done, acc.current) \in Seq(Seq(T))
      BY <1>1, AppendProperties
    <2>2. QED BY <1>1, <1>3, <2>1, FlattenSeqAppend DEF Flush, Seen
  <1>4. QED BY <1>2, <1>3

LEMMA ExtendKeeps ==
    ASSUME NEW T, NEW acc \in Sofar(T), NEW x \in T, NEW fits
    PROVE  /\ Extend(acc, x, fits) \in Sofar(T)
           /\ Seen(Extend(acc, x, fits)) = Seen(acc) \o <<x>>
  <1>1. acc.done \in Seq(Seq(T)) /\ acc.current \in Seq(T) /\ <<x>> \in Seq(T)
    BY DEF Sofar
  <1>2. CASE fits
    <2> DEFINE a == [acc EXCEPT !.current = Append(@, x)]
    <2>1. Extend(acc, x, fits) = a
      BY <1>2 DEF Extend
    <2>2. a \in Sofar(T) /\ a.done = acc.done /\ a.current = acc.current \o <<x>>
      <3>1. Append(acc.current, x) \in Seq(T) /\ Append(acc.current, x) = acc.current \o <<x>>
        BY <1>1, AppendProperties, AppendIsConcat
      <3>2. QED BY <1>1, <3>1 DEF Sofar
    <2> HIDE DEF a
    <2>3. FlattenSeq(acc.done) \in Seq(T)
      BY <1>1, FlattenSeqType
    <2>4. FlattenSeq(acc.done) \o (acc.current \o <<x>>) = (FlattenSeq(acc.done) \o acc.current) \o <<x>>
      <3> DEFINE u == FlattenSeq(acc.done)
                 v == acc.current
                 y == <<x>>
      <3>1. u \in Seq(T) /\ v \in Seq(T) /\ y \in Seq(T)
        BY <1>1, <2>3
      <3> HIDE DEF u, v, y
      <3>2. (u \o v) \o y = u \o (v \o y)
        BY <3>1, ConcatIsAssociative
      <3>3. QED BY <3>2 DEF u, v, y
    <2>5. QED BY <2>1, <2>2, <2>4 DEF Seen
  <1>3. CASE ~fits
    <2> DEFINE a == [done |-> Flush(acc), current |-> <<x>>]
    <2>1. Extend(acc, x, fits) = a
      BY <1>3 DEF Extend
    <2>2. a \in Sofar(T) /\ Seen(a) = FlattenSeq(Flush(acc)) \o <<x>>
      BY <1>1, FlushKeeps DEF Sofar, Seen
    <2> HIDE DEF a
    <2>3. QED BY <2>1, <2>2, FlushKeeps
  <1>4. QED BY <1>2, <1>3

\* The value of the loop in Pack after n elements.
Packing(T, s, Fitting, acc) ==
    /\ acc \in [0..Len(s) -> Sofar(T)]
    /\ acc[0] = [done |-> <<>>, current |-> <<>>]
    /\ \A n \in 1..Len(s) :
         acc[n] = Extend(acc[n - 1], s[n], Append(acc[n - 1].current, s[n]) \in Fitting)
    /\ Pack(s, Fitting) = Flush(acc[Len(s)])

LEMMA PackLoop ==
    ASSUME NEW T, NEW s \in Seq(T), NEW Fitting
    PROVE  \E acc : Packing(T, s, Fitting, acc)
  <1> DEFINE N == Len(s)
             St == Sofar(T)
             b == [done |-> <<>>, current |-> <<>>]
             G(a, n) == Extend(a, s[n], Append(a.current, s[n]) \in Fitting)
             F == [n \in 1..N |-> [a \in St |-> G(a, n)]]
             D(g) == [n \in 0..N |-> IF n = 0 THEN b ELSE G(g[n - 1], n)]
             h == CHOOSE g : g = D(g)
  <1>1. N \in Nat /\ \A n \in 1..N : s[n] \in T
    BY LenProperties
  <1>2. b \in St
    BY EmptySeq DEF Sofar
  <1>3. ASSUME NEW n \in 1..N, NEW a \in St PROVE G(a, n) \in St
    BY <1>1, ExtendKeeps
  <1>4. PICK f : LoopOf(St, b, N, F, f)
    <2>1. F \in [1..N -> [St -> St]]
      <3> HIDE DEF G, N, St
      <3>1. QED BY <1>3
    <2>2. LoopBody(St, b, N, F)
      <3> HIDE DEF F, St, b, N
      <3>1. QED BY <1>1, <1>2, <2>1 DEF LoopBody
    <2> HIDE DEF F, St, b, N
    <2>3. QED BY <2>2, Recursion
  <1>5. f \in [0..N -> St] /\ f[0] = b /\ \A n \in 1..N : f[n] = G(f[n - 1], n)
    <2>1. f \in [0..N -> St] /\ f[0] = b /\ \A n \in 1..N : f[n] = F[n][f[n - 1]]
      <3> HIDE DEF F, St, b, N
      <3>1. QED BY <1>4 DEF LoopOf
    <2>2. ASSUME NEW n \in 1..N PROVE F[n][f[n - 1]] = G(f[n - 1], n)
      <3>1. n - 1 \in 0..N
        BY <1>1
      <3>2. f[n - 1] \in St
        BY <2>1, <3>1
      <3> HIDE DEF G, St, b, N
      <3>3. QED BY <3>2
    <2> HIDE DEF G, F, St, b, N
    <2>3. QED BY <2>1, <2>2
  <1>6. f = D(f)
    <2> HIDE DEF G, St, b
    <2>1. ASSUME NEW n \in 0..N PROVE f[n] = D(f)[n]
      BY <1>1, <1>5
    <2>2. f \in [0..N -> St] /\ D(f) = [n \in 0..N |-> D(f)[n]]
      BY <1>5
    <2> HIDE DEF D
    <2>3. QED BY <2>1, <2>2
  <1>7. h = D(h)
    <2> HIDE DEF D
    <2>1. QED BY <1>6
  <1>8. Pack(s, Fitting) = Flush(h[N])
    BY DEF Pack
  <1> HIDE DEF h
  <1>9. 0..N \subseteq {n \in 0..N : h[n] = f[n]}
    <2> DEFINE S == {n \in 0..N : h[n] = f[n]}
    <2>1. 0 \in S
      <3> HIDE DEF G, b
      <3>1. QED BY <1>1, <1>5, <1>7
    <2>2. ASSUME NEW n \in 1..N, n - 1 \in S PROVE n \in S
      <3> HIDE DEF G, b
      <3>1. n \in 0..N /\ n # 0 /\ h[n - 1] = f[n - 1]
        BY <1>1, <2>2
      <3>2. h[n] = G(h[n - 1], n)
        BY <1>7, <3>1
      <3>3. f[n] = G(f[n - 1], n)
        BY <1>5
      <3>4. QED BY <3>1, <3>2, <3>3
    <2> HIDE DEF S
    <2>3. QED BY <1>1, <2>1, <2>2, BoundedInduction DEF S
  <1>10. h[N] = f[N]
    <2>1. N \in 0..N
      BY <1>1
    <2>2. QED BY <1>9, <2>1
  <1>11. Packing(T, s, Fitting, f)
    <2>1. Pack(s, Fitting) = Flush(f[N])
      BY <1>8, <1>10
    <2>2. QED BY <1>5, <2>1 DEF Packing
  <1>12. QED BY <1>11

\* The groups of Pack, one after the other, are the sequence.
LEMMA PackIsAll ==
    ASSUME NEW T, NEW s \in Seq(T), NEW Fitting
    PROVE  Pack(s, Fitting) \in Seq(Seq(T)) /\ FlattenSeq(Pack(s, Fitting)) = s
  <1>1. PICK acc : Packing(T, s, Fitting, acc)
    BY PackLoop
  <1> DEFINE N == Len(s)
             S == {n \in 0..N : Seen(acc[n]) = SubSeq(s, 1, n)}
  <1>2. N \in Nat /\ \A n \in 1..N : s[n] \in T
    BY LenProperties
  <1>3. /\ \A n \in 0..N : acc[n] \in Sofar(T)
        /\ acc[0] = [done |-> <<>>, current |-> <<>>]
        /\ \A n \in 1..N :
             acc[n] = Extend(acc[n - 1], s[n], Append(acc[n - 1].current, s[n]) \in Fitting)
        /\ Pack(s, Fitting) = Flush(acc[N])
    BY <1>1 DEF Packing
  <1>4. 0 \in S
    <2>1. Seen(acc[0]) = <<>> \o <<>>
      BY <1>3, FlattenSeqEmpty DEF Seen
    <2>2. SubSeq(s, 1, 0) = <<>>
      BY SubSeqEmpty
    <2>3. <<>> \o <<>> = <<>>
      OBVIOUS
    <2>4. 0 \in 0..N
      BY <1>2
    <2>5. QED BY <2>1, <2>2, <2>3, <2>4
  <1>5. ASSUME NEW n \in 1..N, n - 1 \in S PROVE n \in S
    <2>1. n \in 0..N /\ n - 1 \in 0..N /\ Seen(acc[n - 1]) = SubSeq(s, 1, n - 1)
      BY <1>2, <1>5
    <2>2. Seen(acc[n]) = SubSeq(s, 1, n - 1) \o <<s[n]>>
      <3> DEFINE a == acc[n - 1]
                 x == s[n]
                 fits == Append(a.current, x) \in Fitting
      <3>1. a \in Sofar(T) /\ x \in T /\ acc[n] = Extend(a, x, fits)
        BY <1>2, <1>3, <2>1
      <3> HIDE DEF a, x, fits
      <3>2. Seen(Extend(a, x, fits)) = Seen(a) \o <<x>>
        BY <3>1, ExtendKeeps
      <3>3. QED BY <2>1, <3>1, <3>2 DEF a, x
    <2>3. SubSeq(s, 1, n) = SubSeq(s, 1, n - 1) \o <<s[n]>>
      <3>1. 1 \in 1..Len(s) /\ n \in 1..Len(s)
        BY <1>2
      <3>2. QED BY <3>1, SubSeqRecursiveSecond
    <2>4. QED BY <2>1, <2>2, <2>3
  <1>6. N \in S
    <2> HIDE DEF S
    <2>1. 0..N \subseteq S
      BY <1>2, <1>4, <1>5, BoundedInduction
    <2>2. QED BY <1>2, <2>1
  <1>7. acc[N] \in Sofar(T) /\ Seen(acc[N]) = s
    BY <1>2, <1>3, <1>6, SubSeqFull
  <1>8. QED BY <1>3, <1>7, FlushKeeps

-----------------------------------------------------------------------------
(* RetryBatches *)

LEMMA CeilingDivision ==
    ASSUME NEW L \in Nat, NEW R \in Nat \ {0}
    PROVE  LET n == (L + R - 1) \div R
           IN  n \in Nat /\ n * R <= L + R - 1 /\ L <= n * R
  <1> DEFINE m == L + R - 1
             n == m \div R
             r == m % R
  <1>1. m \in Nat
    OBVIOUS
  <1>2. n \in Nat /\ r \in 0..(R - 1) /\ m = R * n + r
    <2> HIDE DEF m
    <2>1. QED BY <1>1
  <1>3. R * n = n * R /\ n * R \in Nat
    <2> HIDE DEF n
    <2>1. QED BY <1>2
  <1> DEFINE q == n * R
  <1>4. q \in Nat /\ m = q + r
    BY <1>2, <1>3
  <1> HIDE DEF q, r, n
  <1>5. q <= L + R - 1 /\ L <= q
    BY <1>2, <1>4
  <1>6. QED BY <1>2, <1>5 DEF q, n

LEMMA ProductsGrow ==
    ASSUME NEW R \in Nat, NEW i \in Nat, NEW n \in Nat, i <= n
    PROVE  i * R \in Nat /\ i * R <= n * R
  <1>1. (n - i) * R \in Nat /\ n * R = i * R + (n - i) * R /\ i * R \in Nat
    OBVIOUS
  <1>2. QED BY <1>1

LEMMA MinOfTwo ==
    ASSUME NEW a \in Nat, NEW b \in Nat
    PROVE  Min({a, b}) = IF a <= b THEN a ELSE b
  <1> DEFINE c == IF a <= b THEN a ELSE b
             M == CHOOSE x \in {a, b} : \A y \in {a, b} : x <= y
  <1>1. c \in {a, b} /\ \A y \in {a, b} : c <= y
    OBVIOUS
  <1>2. M \in {a, b} /\ \A y \in {a, b} : M <= y
    <2> HIDE DEF c
    <2>1. QED BY <1>1
  <1>3. Min({a, b}) = M
    BY DEF Min
  <1> HIDE DEF M
  <1>4. QED BY <1>2, <1>3

\* u is a stretch of s.
Stretch(u, s) == \E p, q \in Nat : 1 <= p /\ p <= q + 1 /\ q <= Len(s) /\ u = SubSeq(s, p, q)

\* The parts of a batch sent again are stretches of it, and together the batch.
LEMMA RetryBatchesAreAll ==
    ASSUME NEW T, NEW cues \in Seq(T)
    PROVE  /\ RetryBatches(cues) \in Seq(Seq(T))
           /\ FlattenSeq(RetryBatches(cues)) = cues
           /\ \A i \in 1..Len(RetryBatches(cues)) :
                Stretch(RetryBatches(cues)[i], cues) /\ RetryBatches(cues)[i] # <<>>
  <1> DEFINE R == RetryCues
             L == Len(cues)
             n == (L + R - 1) \div R
             upto(i) == IF i * R <= L THEN i * R ELSE L
             f == [i \in 0..n |-> SubSeq(cues, 1, upto(i))]
             rb == RetryBatches(cues)
  <1>1. R \in Nat \ {0} /\ L \in Nat
    BY AiAssumption, LenProperties
  <1>2. n \in Nat /\ n * R <= L + R - 1 /\ L <= n * R
    <2> HIDE DEF R, L
    <2>1. QED BY <1>1, CeilingDivision
  <1>3. \A i \in 0..n : i * R \in Nat /\ i * R <= n * R /\ upto(i) \in 0..L
    <2> HIDE DEF R, L, n
    <2>1. ASSUME NEW i \in 0..n PROVE i * R \in Nat /\ i * R <= n * R
      BY <1>1, <1>2, ProductsGrow
    <2>2. QED BY <1>1, <2>1
  <1>4. \A i \in 1..n : /\ i \in 0..n /\ i - 1 \in 0..n
                        /\ i * R = (i - 1) * R + R /\ (i - 1) * R + 1 <= L
                        /\ upto(i - 1) = (i - 1) * R
    <2> SUFFICES ASSUME NEW i \in 1..n
                 PROVE  /\ i \in 0..n /\ i - 1 \in 0..n
                        /\ i * R = (i - 1) * R + R /\ (i - 1) * R + 1 <= L
                        /\ upto(i - 1) = (i - 1) * R
      OBVIOUS
    <2> HIDE DEF R, L, n
    <2>1. i \in 0..n /\ i - 1 \in 0..n
      BY <1>2
    <2>2. i * R = (i - 1) * R + R
      BY <1>1, <1>2
    <2>3. i * R <= n * R /\ (i - 1) * R \in Nat
      BY <1>3, <2>1
    <2> DEFINE p == (i - 1) * R
               q == n * R
    <2>4. p \in Nat /\ p + R <= q /\ q <= L + R - 1
      BY <1>2, <2>2, <2>3
    <2> HIDE DEF p
    <2>5. p + 1 <= L
      <3> q \in Nat
        BY <1>1, <1>2
      <3> HIDE DEF q
      <3>1. QED BY <1>1, <2>4
    <2>6. QED BY <1>1, <2>1, <2>2, <2>4, <2>5 DEF p
  <1>5. rb = [i \in 1..n |-> SubSeq(cues, (i - 1) * R + 1, upto(i))]
    <2>1. ASSUME NEW i \in 1..n PROVE Min({i * R, L}) = upto(i)
      <3> HIDE DEF R, L, n
      <3>1. i * R \in Nat
        BY <1>3, <1>4
      <3>2. QED BY <1>1, <3>1, MinOfTwo
    <2>2. rb = [i \in 1..n |-> SubSeq(cues, (i - 1) * R + 1, Min({i * R, L}))]
      BY DEF RetryBatches
    <2> HIDE DEF R, L, n, rb
    <2>3. QED BY <2>1, <2>2
  <1>6. ASSUME NEW i \in 1..n PROVE rb[i] \in Seq(T)
    <2>1. rb[i] = SubSeq(cues, (i - 1) * R + 1, upto(i))
      <3> HIDE DEF R, L, rb, n
      <3>1. QED BY <1>5
    <2> DEFINE p == (i - 1) * R + 1
               q == upto(i)
    <2>2. p \in Int /\ q \in Int /\ 1 <= p /\ q <= L
      <3> HIDE DEF R, L, n
      <3>1. (i - 1) * R \in Nat /\ upto(i) \in 0..L
        BY <1>3, <1>4
      <3>2. QED BY <1>1, <3>1
    <2> HIDE DEF p, q
    <2>3. \A j \in p..q : cues[j] \in T
      <3>1. \A j \in p..q : j \in 1..L
        BY <1>1, <2>2
      <3>2. QED BY <3>1, ElementOfSeq
    <2>4. SubSeq(cues, p, q) \in Seq(T)
      BY <2>2, <2>3, SubSeqProperties
    <2>5. QED BY <2>1, <2>4 DEF p, q
  <1>7. rb \in Seq(Seq(T)) /\ Len(rb) = n
    <2>1. rb \in [1..n -> Seq(T)]
      <3>1. \E e : rb = [i \in 1..n |-> e[i]]
        <4>1. rb = [i \in 1..n |-> rb[i]]
          <5> HIDE DEF R, L, n, rb
          <5>1. QED BY <1>5
        <4>2. QED BY <4>1
      <3> HIDE DEF rb, n
      <3>2. QED BY <1>6, <3>1
    <2> HIDE DEF rb, n
    <2>2. QED BY <1>2, <2>1, SeqDef
  <1>8. f \in [0..n -> Seq(T)]
    <2>1. ASSUME NEW i \in 0..n PROVE SubSeq(cues, 1, upto(i)) \in Seq(T)
      <3> DEFINE q == upto(i)
      <3>1. q \in Int /\ q <= L
        <4> HIDE DEF R, L, n
        <4>1. QED BY <1>1, <1>3
      <3> HIDE DEF q
      <3>2. \A j \in 1..q : cues[j] \in T
        <4>1. \A j \in 1..q : j \in 1..L
          BY <1>1, <3>1
        <4>2. QED BY <4>1, ElementOfSeq
      <3>3. SubSeq(cues, 1, q) \in Seq(T)
        BY <3>1, <3>2, SubSeqProperties
      <3>4. QED BY <3>3 DEF q
    <2> HIDE DEF R, L, n
    <2>2. QED BY <2>1
  <1>9. f[0] = <<>>
    <2>1. 0 \in 0..n
      <3> HIDE DEF n
      <3>1. QED BY <1>2
    <2>2. upto(0) = 0
      BY <1>1
    <2>3. f[0] = SubSeq(cues, 1, 0)
      <3> HIDE DEF R, L, n
      <3>1. QED BY <2>1, <2>2
    <2>4. SubSeq(cues, 1, 0) = <<>>
      BY SubSeqEmpty
    <2> HIDE DEF f
    <2>5. QED BY <2>3, <2>4
  <1>10. ASSUME NEW i \in 1..n PROVE f[i] = f[i - 1] \o rb[i]
    <2> DEFINE k == (i - 1) * R
               q == upto(i)
    <2>1. 1 \in 1..(Len(cues) + 1) /\ k \in (1 - 1)..Len(cues) /\ q \in k..Len(cues)
      <3>1. k \in Nat /\ k + 1 <= L /\ q \in 0..L /\ i * R = k + R
        <4> HIDE DEF R, L, n
        <4>1. QED BY <1>3, <1>4
      <3>2. k <= q
        <4> HIDE DEF k, L, n
        <4>1. QED BY <1>1, <3>1
      <3> HIDE DEF k, q
      <3>3. QED BY <1>1, <3>1, <3>2
    <2>2. SubSeq(cues, 1, k) \o SubSeq(cues, k + 1, q) = SubSeq(cues, 1, q)
      <3> HIDE DEF k, q
      <3>1. QED BY <2>1, ConcatAdjacentSubSeq
    <2>3. f[i] = SubSeq(cues, 1, q) /\ f[i - 1] = SubSeq(cues, 1, k)
      <3> HIDE DEF R, L, n
      <3>1. QED BY <1>4
    <2>4. rb[i] = SubSeq(cues, k + 1, q)
      <3> HIDE DEF R, L, n, rb
      <3>1. QED BY <1>5
    <2> HIDE DEF f, rb, k, q
    <2>5. QED BY <2>2, <2>3, <2>4
  <1>11. f[n] = cues
    <2>1. n \in 0..n /\ upto(n) = L
      <3> HIDE DEF R, L, n
      <3>1. n * R \in Nat
        BY <1>1, <1>2
      <3>2. QED BY <1>1, <1>2, <3>1
    <2>2. f[n] = SubSeq(cues, 1, L)
      <3> HIDE DEF R, L, n
      <3>1. QED BY <2>1
    <2>3. QED BY <2>2, SubSeqFull
  <1>12. ASSUME NEW i \in 1..n PROVE Stretch(rb[i], cues) /\ rb[i] # <<>>
    <2> DEFINE p == (i - 1) * R
               q == upto(i)
    <2>1. p \in Nat /\ p + 1 <= L /\ q \in 0..L /\ i * R = p + R
      <3> HIDE DEF R, L, n
      <3>1. QED BY <1>3, <1>4
    <2>2. p + 1 <= q
      <3> HIDE DEF p, L, n
      <3>1. QED BY <1>1, <2>1
    <2>3. rb[i] = SubSeq(cues, p + 1, q)
      <3> HIDE DEF R, L, n, rb
      <3>1. QED BY <1>5
    <2> HIDE DEF rb, p, q
    <2>4. p + 1 \in Nat /\ q \in Nat /\ 1 <= p + 1 /\ p + 1 <= q + 1 /\ q <= Len(cues)
      BY <1>1, <2>1, <2>2
    <2>5. rb[i] # <<>>
      <3>1. \A j \in (p + 1)..q : cues[j] \in T
        <4>1. \A j \in (p + 1)..q : j \in 1..Len(cues)
          BY <1>1, <2>4
        <4>2. QED BY <4>1, ElementOfSeq
      <3>2. Len(SubSeq(cues, p + 1, q)) = q - (p + 1) + 1
        BY <2>2, <2>4, <3>1, SubSeqProperties
      <3>3. Len(rb[i]) # 0
        BY <2>2, <2>3, <2>4, <3>2
      <3>4. QED BY <3>3
    <2>6. QED BY <2>3, <2>4, <2>5 DEF Stretch
  <1>13. QED
    <2> HIDE DEF f, rb, n
    <2>1. FlattenSeq(rb) = f[n]
      BY <1>7, <1>8, <1>9, <1>10, FlattenSeqIs
    <2>2. QED BY <1>7, <1>11, <1>12, <2>1 DEF rb

-----------------------------------------------------------------------------
(* Total *)

\* Total is what a loop that adds the numbers one by one ends with.
LEMMA TotalIs ==
    ASSUME NEW s \in Seq(Nat), NEW f \in [0..Len(s) -> Int],
           f[0] = 0, \A k \in 1..Len(s) : f[k] = f[k - 1] + s[k]
    PROVE  Total(s) = f[Len(s)]
  <1> DEFINE n == Len(s)
             D(g) == [k \in 0..n |-> IF k = 0 THEN 0 ELSE g[k - 1] + s[k]]
             h == CHOOSE g : g = D(g)
  <1>1. n \in Nat
    BY LenProperties
  <1>2. f = D(f)
    <2>1. ASSUME NEW k \in 0..n PROVE f[k] = D(f)[k]
      BY <1>1
    <2>2. f \in [0..n -> Int] /\ D(f) = [k \in 0..n |-> D(f)[k]]
      OBVIOUS
    <2> HIDE DEF D
    <2>3. QED BY <2>1, <2>2
  <1>3. h = D(h)
    <2> HIDE DEF D
    <2>1. QED BY <1>2
  <1>4. Total(s) = h[n]
    BY DEF Total
  <1> HIDE DEF h
  <1>5. 0..n \subseteq {k \in 0..n : h[k] = f[k]}
    <2> DEFINE S == {k \in 0..n : h[k] = f[k]}
    <2>1. 0 \in S
      BY <1>1, <1>3
    <2>2. ASSUME NEW k \in 1..n, k - 1 \in S PROVE k \in S
      <3>1. k \in 0..n /\ k # 0 /\ h[k - 1] = f[k - 1]
        BY <1>1, <2>2
      <3>2. h[k] = h[k - 1] + s[k]
        BY <1>3, <3>1
      <3>3. QED BY <3>1, <3>2
    <2> HIDE DEF S
    <2>3. QED BY <1>1, <2>1, <2>2, BoundedInduction DEF S
  <1>6. n \in 0..n
    BY <1>1
  <1>7. QED BY <1>4, <1>5, <1>6

LEMMA TotalLoop ==
    ASSUME NEW s \in Seq(Nat)
    PROVE  \E f \in [0..Len(s) -> Nat] :
             /\ f[0] = 0 /\ Total(s) = f[Len(s)]
             /\ \A k \in 1..Len(s) : f[k] = f[k - 1] + s[k]
  <1> DEFINE n == Len(s)
             F == [k \in 1..n |-> [t \in Nat |-> t + s[k]]]
  <1>1. n \in Nat /\ \A k \in 1..n : s[k] \in Nat
    BY LenProperties
  <1>2. F \in [1..n -> [Nat -> Nat]]
    BY <1>1
  <1>3. PICK f \in [0..n -> Nat] : f[0] = 0 /\ \A k \in 1..n : f[k] = F[k][f[k - 1]]
    <2> HIDE DEF F, n
    <2>1. LoopBody(Nat, 0, n, F)
      BY <1>1, <1>2 DEF LoopBody
    <2>2. PICK f : LoopOf(Nat, 0, n, F, f)
      BY <2>1, Recursion
    <2>3. QED BY <2>2 DEF LoopOf
  <1>4. ASSUME NEW k \in 1..n PROVE f[k] = f[k - 1] + s[k]
    <2>1. k - 1 \in 0..n
      BY <1>1
    <2>2. f[k - 1] \in Nat
      BY <2>1
    <2>3. QED BY <1>3, <2>2
  <1>5. f \in [0..n -> Int]
    OBVIOUS
  <1>6. Total(s) = f[n]
    BY <1>3, <1>4, <1>5, TotalIs
  <1>7. QED BY <1>3, <1>4, <1>6

\* A stretch of a sequence of sizes is no larger than the whole.
LEMMA StretchIsSmaller ==
    ASSUME NEW s \in Seq(Nat), NEW u, Stretch(u, s)
    PROVE  u \in Seq(Nat) /\ Total(u) <= Total(s) /\ Total(s) \in Nat
  <1>1. PICK p \in Nat, q \in Nat : 1 <= p /\ p <= q + 1 /\ q <= Len(s) /\ u = SubSeq(s, p, q)
    BY DEF Stretch
  <1> DEFINE n == Len(s)
             m == q - p + 1
  <1>2. n \in Nat /\ m \in Nat /\ \A k \in 1..n : s[k] \in Nat
    BY <1>1, LenProperties
  <1>3. /\ u \in Seq(Nat) /\ Len(u) = m
        /\ \A i \in 1..m : u[i] = s[p + i - 1]
    <2>1. \A i \in p..q : s[i] \in Nat
      BY <1>1, <1>2
    <2>2. /\ SubSeq(s, p, q) \in Seq(Nat)
          /\ Len(SubSeq(s, p, q)) = IF p <= q THEN q - p + 1 ELSE 0
          /\ \A i \in 1..(q - p + 1) : SubSeq(s, p, q)[i] = s[p + i - 1]
      BY <2>1, SubSeqProperties
    <2>3. QED BY <1>1, <2>2
  <1>4. PICK f \in [0..n -> Nat] :
              f[0] = 0 /\ Total(s) = f[n] /\ \A k \in 1..n : f[k] = f[k - 1] + s[k]
    BY TotalLoop
  <1>5. \A k \in 0..n : f[k] \in Nat
    OBVIOUS
  <1>6. \A j \in 0..n : \A i \in 0..j : f[i] <= f[j]
    <2> DEFINE S == {j \in 0..n : \A i \in 0..j : f[i] <= f[j]}
    <2>1. 0 \in S
      BY <1>2, <1>4
    <2>2. ASSUME NEW k \in 1..n, k - 1 \in S PROVE k \in S
      <3>1. k \in 0..n /\ k - 1 \in 0..n /\ \A i \in 0..(k - 1) : f[i] <= f[k - 1]
        BY <1>2, <2>2
      <3>2. f[k] = f[k - 1] + s[k] /\ s[k] \in Nat /\ f[k - 1] \in Nat
        BY <1>2, <1>4, <3>1
      <3>3. ASSUME NEW i \in 0..k PROVE f[i] <= f[k]
        <4>1. CASE i = k
          BY <3>1, <4>1, <1>5
        <4>2. CASE i # k
          <5>1. i \in 0..(k - 1) /\ i \in 0..n
            BY <1>2, <4>2
          <5>2. f[i] <= f[k - 1] /\ f[i] \in Nat
            BY <1>5, <3>1, <5>1
          <5>3. QED BY <3>2, <5>2
        <4>3. QED BY <4>1, <4>2
      <3>4. QED BY <3>1, <3>3
    <2> HIDE DEF S
    <2>3. 0..n \subseteq S
      BY <1>2, <2>1, <2>2, BoundedInduction
    <2>4. QED BY <2>3 DEF S
  <1> DEFINE g == [k \in 0..m |-> f[p - 1 + k] - f[p - 1]]
  <1>7. \A k \in 0..m : p - 1 + k \in 0..n /\ p - 1 \in 0..n
    BY <1>1, <1>2
  <1>8. g \in [0..Len(u) -> Int] /\ g[0] = 0
    <2>1. ASSUME NEW k \in 0..m PROVE f[p - 1 + k] - f[p - 1] \in Int
      <3>1. f[p - 1 + k] \in Nat /\ f[p - 1] \in Nat
        BY <1>5, <1>7
      <3>2. QED BY <3>1
    <2>2. g \in [0..m -> Int]
      BY <2>1
    <2>3. 0 \in 0..m /\ p - 1 + 0 = p - 1 /\ f[p - 1] \in Nat
      BY <1>1, <1>2, <1>5, <1>7
    <2>4. f[p - 1] - f[p - 1] = 0
      BY <2>3
    <2>5. QED BY <1>3, <2>2, <2>3, <2>4
  <1>9. ASSUME NEW k \in 1..Len(u) PROVE g[k] = g[k - 1] + u[k]
    <2>1. /\ k \in 1..m /\ k \in 0..m /\ k - 1 \in 0..m
          /\ p - 1 + k \in 1..n /\ p - 1 + (k - 1) = (p - 1 + k) - 1 /\ p + k - 1 = p - 1 + k
      BY <1>1, <1>2, <1>3
    <2>2. f[p - 1 + k] = f[(p - 1 + k) - 1] + s[p - 1 + k]
      BY <1>4, <2>1, Zenon
    <2>3. u[k] = s[p - 1 + k]
      BY <1>3, <2>1
    <2>4. f[p - 1 + k] \in Nat /\ f[(p - 1 + k) - 1] \in Nat /\ f[p - 1] \in Nat /\ s[p - 1 + k] \in Nat
      BY <1>2, <1>5, <1>7, <2>1
    <2>5. g[k] = f[p - 1 + k] - f[p - 1] /\ g[k - 1] = f[(p - 1 + k) - 1] - f[p - 1]
      BY <2>1
    <2> HIDE DEF g, m, n
    <2>6. QED BY <2>2, <2>3, <2>4, <2>5
  <1>10. Total(u) = g[m]
    <2> HIDE DEF g, m
    <2>1. Total(u) = g[Len(u)]
      BY <1>3, <1>8, <1>9, TotalIs
    <2>2. QED BY <1>3, <2>1
  <1>11. g[m] <= f[n]
    <2>1. m \in 0..m /\ p - 1 + m = q /\ q \in 0..n /\ p - 1 \in 0..n /\ n \in 0..n /\ q \in 0..n
      BY <1>1, <1>2
    <2>2. g[m] = f[q] - f[p - 1]
      BY <2>1
    <2>3. f[q] <= f[n] /\ f[q] \in Nat /\ f[p - 1] \in Nat /\ f[n] \in Nat
      BY <1>5, <1>6, <2>1
    <2> HIDE DEF g, m, n
    <2>4. QED BY <2>2, <2>3
  <1>12. f[n] \in Nat
    BY <1>2, <1>5
  <1>13. QED BY <1>3, <1>4, <1>10, <1>11, <1>12

-----------------------------------------------------------------------------
(* What Pack lets into a group *)

\* A group that was fitting when its last element joined, or that has only one element.
FittingOrAlone(T, Fitting, g) == g # <<>> /\ (g \in Fitting \/ \E x \in T : g = <<x>>)

GoodGroups(T, Fitting, acc) ==
    /\ \A i \in 1..Len(acc.done) : FittingOrAlone(T, Fitting, acc.done[i])
    /\ acc.current # <<>> => FittingOrAlone(T, Fitting, acc.current)

LEMMA FlushFits ==
    ASSUME NEW T, NEW Fitting, NEW acc \in Sofar(T), GoodGroups(T, Fitting, acc)
    PROVE  \A i \in 1..Len(Flush(acc)) : FittingOrAlone(T, Fitting, Flush(acc)[i])
  <1>1. acc.done \in Seq(Seq(T)) /\ acc.current \in Seq(T)
    BY DEF Sofar
  <1>2. CASE acc.current = <<>>
    BY <1>2 DEF Flush, GoodGroups
  <1>3. CASE acc.current # <<>>
    <2> DEFINE a == Append(acc.done, acc.current)
               n == Len(acc.done)
    <2>1. n \in Nat /\ Len(a) = n + 1 /\ a[n + 1] = acc.current /\ \A i \in 1..n : a[i] = acc.done[i]
      BY <1>1, AppendProperties, LenProperties
    <2>2. Flush(acc) = a
      BY <1>3 DEF Flush
    <2>3. FittingOrAlone(T, Fitting, acc.current)
      BY <1>3 DEF GoodGroups
    <2>4. \A i \in 1..n : FittingOrAlone(T, Fitting, acc.done[i])
      BY DEF GoodGroups
    <2> HIDE DEF a, n
    <2>5. ASSUME NEW i \in 1..(n + 1) PROVE FittingOrAlone(T, Fitting, a[i])
      <3>1. CASE i = n + 1
        BY <2>1, <2>3, <3>1
      <3>2. CASE i # n + 1
        <4>1. i \in 1..n
          BY <2>1, <3>2
        <4>2. QED BY <2>1, <2>4, <4>1
      <3>3. QED BY <3>1, <3>2
    <2>6. QED BY <2>1, <2>2, <2>5
  <1>4. QED BY <1>2, <1>3

LEMMA ExtendFits ==
    ASSUME NEW T, NEW Fitting, NEW acc \in Sofar(T), NEW x \in T, GoodGroups(T, Fitting, acc)
    PROVE  GoodGroups(T, Fitting, Extend(acc, x, Append(acc.current, x) \in Fitting))
  <1> DEFINE fits == Append(acc.current, x) \in Fitting
  <1>1. CASE fits
    <2> DEFINE a == [acc EXCEPT !.current = Append(@, x)]
    <2>1. Extend(acc, x, fits) = a
      BY <1>1 DEF Extend
    <2>2. a.done = acc.done /\ a.current = Append(acc.current, x)
      BY DEF Sofar
    <2>3. acc.current \in Seq(T)
      BY DEF Sofar
    <2>4. Append(acc.current, x) # <<>>
      BY <2>3, AppendProperties
    <2>5. FittingOrAlone(T, Fitting, a.current)
      BY <1>1, <2>2, <2>4 DEF FittingOrAlone
    <2> HIDE DEF a
    <2>6. GoodGroups(T, Fitting, a)
      BY <2>2, <2>5 DEF GoodGroups
    <2>7. QED BY <2>1, <2>6
  <1>2. CASE ~fits
    <2> DEFINE a == [done |-> Flush(acc), current |-> <<x>>]
    <2>1. Extend(acc, x, fits) = a
      BY <1>2 DEF Extend
    <2>2. a.done = Flush(acc) /\ a.current = <<x>>
      OBVIOUS
    <2>3. FittingOrAlone(T, Fitting, <<x>>)
      BY DEF FittingOrAlone
    <2> HIDE DEF a
    <2>4. GoodGroups(T, Fitting, a)
      BY <2>2, <2>3, FlushFits DEF GoodGroups
    <2>5. QED BY <2>1, <2>4
  <1>3. QED BY <1>1, <1>2

\* Every group of Pack is fitting or has one element.
LEMMA PackFits ==
    ASSUME NEW T, NEW s \in Seq(T), NEW Fitting
    PROVE  \A i \in 1..Len(Pack(s, Fitting)) : FittingOrAlone(T, Fitting, Pack(s, Fitting)[i])
  <1>1. PICK acc : Packing(T, s, Fitting, acc)
    BY PackLoop
  <1> DEFINE N == Len(s)
             S == {n \in 0..N : GoodGroups(T, Fitting, acc[n])}
  <1>2. N \in Nat /\ \A n \in 1..N : s[n] \in T
    BY LenProperties
  <1>3. /\ \A n \in 0..N : acc[n] \in Sofar(T)
        /\ acc[0] = [done |-> <<>>, current |-> <<>>]
        /\ \A n \in 1..N :
             acc[n] = Extend(acc[n - 1], s[n], Append(acc[n - 1].current, s[n]) \in Fitting)
        /\ Pack(s, Fitting) = Flush(acc[N])
    BY <1>1 DEF Packing
  <1>4. 0 \in S
    <2>1. acc[0].current = <<>> /\ Len(acc[0].done) = 0
      BY <1>3
    <2>2. GoodGroups(T, Fitting, acc[0])
      BY <2>1 DEF GoodGroups
    <2>3. QED BY <1>2, <2>2
  <1>5. ASSUME NEW n \in 1..N, n - 1 \in S PROVE n \in S
    <2>1. n \in 0..N /\ n - 1 \in 0..N /\ GoodGroups(T, Fitting, acc[n - 1])
      BY <1>2, <1>5
    <2> DEFINE a == acc[n - 1]
               x == s[n]
    <2>2. a \in Sofar(T) /\ x \in T /\ acc[n] = Extend(a, x, Append(a.current, x) \in Fitting)
      BY <1>2, <1>3, <2>1
    <2>3. GoodGroups(T, Fitting, a)
      BY <2>1
    <2> HIDE DEF a, x
    <2>4. GoodGroups(T, Fitting, Extend(a, x, Append(a.current, x) \in Fitting))
      BY <2>2, <2>3, ExtendFits
    <2>5. QED BY <2>1, <2>2, <2>4
  <1>6. N \in S
    <2> HIDE DEF S
    <2>1. 0..N \subseteq S
      BY <1>2, <1>4, <1>5, BoundedInduction
    <2>2. QED BY <1>2, <2>1
  <1>7. acc[N] \in Sofar(T) /\ GoodGroups(T, Fitting, acc[N])
    BY <1>2, <1>3, <1>6
  <1>8. QED BY <1>3, <1>7, FlushFits

-----------------------------------------------------------------------------
(* What a worker holds, place by place *)

\* A note whose cited cues are all behind it.
Sound == {n \in Nodes : n.cites \subseteq n.evidence}

TranslateParts == [op : {"translate", "again"}, of : Seq(Cues)]
NotesParts == [op : {"map"}, of : Seq(Cues)] \cup [op : {"reduce"}, of : Seq(Sound)]

Of(parts) == [i \in DOMAIN parts |-> parts[i].of]

\* A translation at place p, with the parts t to send and the entries o.
TranslateJob(p, t, o) ==
    /\ t \in Seq(TranslateParts)
    /\ o \in Seq(Cues)
    /\ p \in {"before", "sending", "after", "finishing", "writing"}
         => o \o FlattenSeq(Of(t)) = Transcript
    /\ p \in {"off", "idle", "dead", "loading", "reusing", "planning"} => o = <<>>
    /\ p \in {"sending", "after"} => t # <<>>
    /\ p \in {"finishing", "writing"} => t = <<>>

\* Notes at place p, with the nodes o of this level and the answer r.
NotesJob(p, t, o, r) ==
    /\ t \in Seq(NotesParts)
    /\ o \in Seq(Sound)
    /\ p \in {"sending", "after"} => t # <<>>
    /\ p = "after" => r \in [cites : SUBSET Cues, size : {note}]
    /\ p \in {"finishing", "writing"} => Len(o) = 1

Job(p, t, o, r) ==
    /\ kind = "translate" => TranslateJob(p, t, o)
    /\ kind = "notes" => NotesJob(p, t, o, r)

\* What an artifact that is read back or written may be.
GoodFile(d) ==
    /\ kind = "translate" => d = Transcript
    /\ kind = "notes" => Len(d) = 1 /\ d[1].cites \subseteq d[1].evidence

InputInv ==
    /\ kind \in {"translate", "notes"}
    /\ size \in Seq(Nat \ {0})

FunctionsInv ==
    /\ pc \in [Workers -> Places]
    /\ DOMAIN todo = Workers /\ todo = [w \in Workers |-> todo[w]]
    /\ DOMAIN out = Workers /\ out = [w \in Workers |-> out[w]]
    /\ DOMAIN reply = Workers /\ reply = [w \in Workers |-> reply[w]]

JobsInv == \A w \in Workers : Job(pc[w], todo[w], out[w], reply[w])
FilesInv == \A k \in DOMAIN file : file[k] # NoDoc => GoodFile(file[k])

JInv == InputInv /\ FunctionsInv /\ JobsInv /\ FilesInv

-----------------------------------------------------------------------------
(* The parts of a job *)

LEMMA TranscriptType ==
    ASSUME InputInv
    PROVE  Transcript \in Seq(Cues) /\ Len(size) \in Nat
  <1>1. Len(size) \in Nat
    BY LenProperties DEF InputInv
  <1>2. Transcript \in [1..Len(size) -> Cues]
    BY DEF Transcript, Cues
  <1> DEFINE n == Len(size)
             C == Cues
  <1>3. n \in Nat /\ Transcript \in [1..n -> C]
    BY <1>1, <1>2
  <1> HIDE DEF n, C
  <1>4. Transcript \in Seq(C)
    <2>1. Seq(C) = UNION {[1..m -> C] : m \in Nat}
      BY SeqDef
    <2>2. QED BY <1>3, <2>1
  <1>5. QED BY <1>1, <1>4 DEF C

\* Parts of an operation, group by group.
LEMMA PartsAreGroups ==
    ASSUME NEW T, NEW op, NEW groups \in Seq(Seq(T))
    PROVE  /\ Parts(op, groups) \in Seq([op : {op}, of : Seq(T)])
           /\ Of(Parts(op, groups)) = groups
  <1> DEFINE n == Len(groups)
  <1>1. n \in Nat /\ groups \in [1..n -> Seq(T)] /\ DOMAIN groups = 1..n
    BY LenProperties
  <1> HIDE DEF n
  <1>2. Parts(op, groups) \in [1..n -> [op : {op}, of : Seq(T)]]
    BY <1>1 DEF Parts, Part
  <1>3. Parts(op, groups) \in Seq([op : {op}, of : Seq(T)])
    <2> DEFINE P == [op : {op}, of : Seq(T)]
               q == Parts(op, groups)
    <2>1. q \in [1..n -> P]
      BY <1>2
    <2> HIDE DEF P, q
    <2>2. q \in Seq(P)
      BY <1>1, <2>1, SeqDef
    <2>3. QED BY <2>2 DEF P, q
  <1>4. Of(Parts(op, groups)) = [i \in 1..n |-> groups[i]]
    BY <1>1, <1>2 DEF Of, Parts, Part
  <1>5. QED BY <1>1, <1>3, <1>4

\* What the parts are of, for parts of sequences.
LEMMA OfParts ==
    ASSUME NEW T, NEW Op, NEW t \in Seq([op : Op, of : Seq(T)])
    PROVE  /\ Of(t) \in Seq(Seq(T)) /\ Len(Of(t)) = Len(t)
           /\ \A i \in 1..Len(t) : Of(t)[i] = t[i].of
  <1> DEFINE n == Len(t)
  <1>1. n \in Nat /\ t \in [1..n -> [op : Op, of : Seq(T)]] /\ DOMAIN t = 1..n
    BY LenProperties
  <1> HIDE DEF n
  <1>2. Of(t) \in [1..n -> Seq(T)]
    BY <1>1 DEF Of
  <1>3. Of(t) \in Seq(Seq(T)) /\ Len(Of(t)) = n
    BY <1>1, <1>2, SeqDef
  <1>4. QED BY <1>1, <1>3 DEF Of, n

LEMMA OfHeadTail ==
    ASSUME NEW T, NEW Op, NEW t \in Seq([op : Op, of : Seq(T)]), t # <<>>
    PROVE  /\ Head(t).of \in Seq(T)
           /\ FlattenSeq(Of(t)) = Head(t).of \o FlattenSeq(Of(Tail(t)))
  <1> DEFINE P == [op : Op, of : Seq(T)]
  <1>1. /\ Head(t) \in P /\ Head(t) = t[1] /\ Tail(t) \in Seq(P)
        /\ Len(t) \in Nat \ {0} /\ Len(Tail(t)) = Len(t) - 1
        /\ \A i \in 1..Len(Tail(t)) : Tail(t)[i] = t[i + 1]
    <2>0. t \in Seq(P)
      OBVIOUS
    <2> HIDE DEF P
    <2>1. Head(t) \in P /\ Tail(t) \in Seq(P)
      BY <2>0, HeadTailProperties
    <2>2. Len(Tail(t)) = Len(t) - 1 /\ \A i \in 1..Len(Tail(t)) : Tail(t)[i] = t[i + 1]
      BY <2>0, HeadTailProperties
    <2>3. Len(t) \in Nat \ {0}
      BY <2>0, EmptySeq
    <2>4. Head(t) = t[1]
      BY <2>0
    <2>5. QED BY <2>1, <2>2, <2>3, <2>4
  <1>2. Of(t) \in Seq(Seq(T)) /\ Len(Of(t)) = Len(t) /\ \A i \in 1..Len(t) : Of(t)[i] = t[i].of
    BY OfParts
  <1>3. /\ Of(Tail(t)) \in Seq(Seq(T)) /\ Len(Of(Tail(t))) = Len(Tail(t))
        /\ \A i \in 1..Len(Tail(t)) : Of(Tail(t))[i] = Tail(t)[i].of
    BY <1>1, OfParts
  <1>4. Of(t) # <<>> /\ Head(Of(t)) = Head(t).of
    BY <1>1, <1>2, EmptySeq
  <1>5. Tail(Of(t)) = Of(Tail(t))
    <2>1. /\ Tail(Of(t)) \in Seq(Seq(T)) /\ Len(Tail(Of(t))) = Len(Of(t)) - 1
          /\ \A i \in 1..Len(Tail(Of(t))) : Tail(Of(t))[i] = Of(t)[i + 1]
      BY <1>2, <1>4, HeadTailProperties
    <2> DEFINE a == Tail(Of(t))
               b == Of(Tail(t))
    <2>2. a \in Seq(Seq(T)) /\ b \in Seq(Seq(T)) /\ Len(a) = Len(b)
      BY <1>1, <1>2, <1>3, <2>1
    <2>3. \A i \in 1..Len(a) : a[i] = b[i]
      BY <1>1, <1>2, <1>3, <2>1
    <2> HIDE DEF a, b
    <2>4. a = b
      BY <2>2, <2>3, SeqEqual
    <2>5. QED BY <2>4 DEF a, b
  <1>6. FlattenSeq(Of(t)) = Head(Of(t)) \o FlattenSeq(Tail(Of(t)))
    BY <1>2, <1>4, FlattenSeqHeadTail
  <1>7. QED BY <1>1, <1>4, <1>5, <1>6

LEMMA OfConcat ==
    ASSUME NEW t \in Seq(TranslateParts), NEW u \in Seq(TranslateParts)
    PROVE  FlattenSeq(Of(t \o u)) = FlattenSeq(Of(t)) \o FlattenSeq(Of(u))
  <1> DEFINE P == TranslateParts
             T == Cues
             c == t \o u
  <1>1. /\ c \in Seq(P) /\ Len(t) \in Nat /\ Len(u) \in Nat /\ Len(c) = Len(t) + Len(u)
        /\ \A i \in 1..(Len(t) + Len(u)) : c[i] = IF i <= Len(t) THEN t[i] ELSE u[i - Len(t)]
    BY ConcatProperties, LenProperties
  <1>2. Of(t) \in Seq(Seq(T)) /\ Len(Of(t)) = Len(t) /\ \A i \in 1..Len(t) : Of(t)[i] = t[i].of
    BY OfParts DEF TranslateParts
  <1>3. Of(u) \in Seq(Seq(T)) /\ Len(Of(u)) = Len(u) /\ \A i \in 1..Len(u) : Of(u)[i] = u[i].of
    BY OfParts DEF TranslateParts
  <1>4. Of(c) \in Seq(Seq(T)) /\ Len(Of(c)) = Len(c) /\ \A i \in 1..Len(c) : Of(c)[i] = c[i].of
    <2> HIDE DEF c
    <2>1. c \in Seq(TranslateParts)
      BY <1>1
    <2>2. QED BY <2>1, OfParts DEF TranslateParts
  <1> DEFINE a == Of(t)
             b == Of(u)
             d == Of(c)
  <1>5. /\ a \o b \in Seq(Seq(T)) /\ Len(a \o b) = Len(a) + Len(b)
        /\ \A i \in 1..(Len(a) + Len(b)) : (a \o b)[i] = IF i <= Len(a) THEN a[i] ELSE b[i - Len(a)]
    <2> HIDE DEF a, b
    <2>1. a \in Seq(Seq(T)) /\ b \in Seq(Seq(T))
      BY <1>2, <1>3 DEF a, b
    <2>2. QED BY <2>1, ConcatProperties
  <1>6. d = a \o b
    <2> DEFINE e == a \o b
    <2>1. d \in Seq(Seq(T)) /\ e \in Seq(Seq(T)) /\ Len(d) = Len(e) /\ Len(d) = Len(t) + Len(u)
      BY <1>1, <1>2, <1>3, <1>4, <1>5
    <2>2. ASSUME NEW i \in 1..Len(d) PROVE d[i] = e[i]
      <3> HIDE DEF c
      <3>1. i \in 1..(Len(t) + Len(u))
        BY <2>1
      <3>2. CASE i <= Len(t)
        <4>1. i \in 1..Len(t)
          BY <1>1, <3>1, <3>2
        <4>2. QED BY <1>1, <1>2, <1>3, <1>4, <1>5, <3>1, <3>2, <4>1
      <3>3. CASE ~(i <= Len(t))
        <4>1. i - Len(t) \in 1..Len(u)
          BY <1>1, <3>1, <3>3
        <4>2. QED BY <1>1, <1>2, <1>3, <1>4, <1>5, <3>1, <3>3, <4>1
      <3>4. QED BY <3>2, <3>3
    <2> HIDE DEF d, e
    <2>3. d = e
      BY <2>1, <2>2, SeqEqual
    <2>4. QED BY <2>3 DEF e
  <1>7. FlattenSeq(a \o b) = FlattenSeq(a) \o FlattenSeq(b)
    BY <1>2, <1>3, FlattenSeqConcat
  <1>8. QED BY <1>6, <1>7

-----------------------------------------------------------------------------
(* What happens to a job *)

\* The answer accepted for a part moves its cues from what is to be sent to what is there.
LEMMA TranslateAccepts ==
    ASSUME InputInv, NEW t, NEW o, TranslateJob("after", t, o)
    PROVE  /\ Head(t) \in TranslateParts
           /\ TranslateJob("before", Tail(t), o \o Head(t).of)
  <1>1. t \in Seq(TranslateParts) /\ t # <<>> /\ o \in Seq(Cues)
        /\ o \o FlattenSeq(Of(t)) = Transcript
    BY DEF TranslateJob
  <1>2. /\ Head(t).of \in Seq(Cues)
        /\ FlattenSeq(Of(t)) = Head(t).of \o FlattenSeq(Of(Tail(t)))
    BY <1>1, OfHeadTail DEF TranslateParts
  <1>3. Head(t) \in TranslateParts /\ Tail(t) \in Seq(TranslateParts)
    BY <1>1, HeadTailProperties
  <1>4. FlattenSeq(Of(Tail(t))) \in Seq(Cues)
    <2>1. Of(Tail(t)) \in Seq(Seq(Cues))
      BY <1>3, OfParts DEF TranslateParts
    <2>2. QED BY <2>1, FlattenSeqType
  <1>5. (o \o Head(t).of) \o FlattenSeq(Of(Tail(t))) = o \o (Head(t).of \o FlattenSeq(Of(Tail(t))))
    <2> DEFINE x == o
               y == Head(t).of
               z == FlattenSeq(Of(Tail(t)))
               C == Cues
    <2>1. x \in Seq(C) /\ y \in Seq(C) /\ z \in Seq(C)
      BY <1>1, <1>2, <1>4
    <2> HIDE DEF x, y, z, C
    <2>2. (x \o y) \o z = x \o (y \o z)
      BY <2>1, ConcatIsAssociative
    <2>3. QED BY <2>2 DEF x, y, z
  <1>6. o \o Head(t).of \in Seq(Cues)
    BY <1>1, <1>2, ConcatProperties
  <1>7. (o \o Head(t).of) \o FlattenSeq(Of(Tail(t))) = Transcript
    BY <1>1, <1>2, <1>5
  <1>8. QED BY <1>3, <1>6, <1>7 DEF TranslateJob

\* The parts of a batch that is sent again take its place.
LEMMA TranslateSplits ==
    ASSUME InputInv, NEW t, NEW o, TranslateJob("after", t, o)
    PROVE  TranslateJob("before", Parts("again", RetryBatches(Head(t).of)) \o Tail(t), o)
  <1> DEFINE g == RetryBatches(Head(t).of)
             u == Parts("again", g)
             r == Tail(t)
  <1>1. t \in Seq(TranslateParts) /\ t # <<>> /\ o \in Seq(Cues)
        /\ o \o FlattenSeq(Of(t)) = Transcript
    BY DEF TranslateJob
  <1>2. /\ Head(t).of \in Seq(Cues)
        /\ FlattenSeq(Of(t)) = Head(t).of \o FlattenSeq(Of(r))
    BY <1>1, OfHeadTail DEF TranslateParts
  <1>3. r \in Seq(TranslateParts)
    BY <1>1, HeadTailProperties
  <1>4. g \in Seq(Seq(Cues)) /\ FlattenSeq(g) = Head(t).of
    BY <1>2, RetryBatchesAreAll
  <1>5. u \in Seq(TranslateParts) /\ Of(u) = g
    <2> HIDE DEF g
    <2>1. u \in Seq([op : {"again"}, of : Seq(Cues)]) /\ Of(u) = g
      BY <1>4, PartsAreGroups
    <2>2. [op : {"again"}, of : Seq(Cues)] \subseteq TranslateParts
      BY DEF TranslateParts
    <2> HIDE DEF u
    <2>3. QED BY <2>1, <2>2, SeqMonotonic
  <1>6. u \o r \in Seq(TranslateParts) /\ FlattenSeq(Of(u \o r)) = FlattenSeq(Of(t))
    <2> HIDE DEF u, r, g
    <2>1. u \o r \in Seq(TranslateParts)
      BY <1>3, <1>5, ConcatProperties
    <2>2. FlattenSeq(Of(u \o r)) = FlattenSeq(Of(u)) \o FlattenSeq(Of(r))
      BY <1>3, <1>5, OfConcat
    <2>3. QED BY <1>2, <1>4, <1>5, <2>1, <2>2
  <1> HIDE DEF u, r
  <1>7. TranslateJob("before", u \o r, o)
    BY <1>1, <1>6 DEF TranslateJob
  <1>8. QED BY <1>7 DEF u, r

LEMMA TranslatePlans ==
    ASSUME InputInv, NEW t, NEW o, TranslateJob("planning", t, o)
    PROVE  TranslateJob("before", Parts("translate", Batches), o)
  <1> DEFINE u == Parts("translate", Batches)
  <1>1. Batches \in Seq(Seq(Cues)) /\ FlattenSeq(Batches) = Transcript
    BY TranscriptType, PackIsAll DEF Batches
  <1>2. u \in Seq(TranslateParts) /\ Of(u) = Batches
    <2>1. u \in Seq([op : {"translate"}, of : Seq(Cues)]) /\ Of(u) = Batches
      BY <1>1, PartsAreGroups
    <2>2. [op : {"translate"}, of : Seq(Cues)] \subseteq TranslateParts
      BY DEF TranslateParts
    <2> HIDE DEF u
    <2>3. QED BY <2>1, <2>2, SeqMonotonic
  <1>3. o = <<>> /\ o \in Seq(Cues)
    BY DEF TranslateJob
  <1>4. o \o Transcript = Transcript
    BY <1>3, TranscriptType, ConcatEmptySeq
  <1> HIDE DEF u
  <1>5. TranslateJob("before", u, o)
    BY <1>1, <1>2, <1>3, <1>4 DEF TranslateJob
  <1>6. QED BY <1>5 DEF u

\* Nothing is left to send: the entries are the transcript.
LEMMA TranslateEnds ==
    ASSUME InputInv, NEW o, NEW p, p \in {"before", "finishing", "writing"}, TranslateJob(p, <<>>, o)
    PROVE  o = Transcript
  <1>1. o \in Seq(Cues) /\ o \o FlattenSeq(Of(<<>>)) = Transcript
    BY DEF TranslateJob
  <1>2. Of(<<>>) = <<>>
    BY DEF Of
  <1>3. o \o <<>> = o
    BY <1>1, ConcatEmptySeq
  <1>4. QED BY <1>1, <1>2, <1>3, FlattenSeqEmpty

LEMMA NotesPlans ==
    ASSUME InputInv, NEW t, NEW o, NEW r, NotesJob("planning", t, o, r)
    PROVE  NotesJob("before", Parts("map", Chunks), o, r)
  <1> DEFINE u == Parts("map", Chunks)
  <1>1. Chunks \in Seq(Seq(Cues))
    BY TranscriptType, PackIsAll DEF Chunks
  <1>2. u \in Seq(NotesParts)
    <2>1. u \in Seq([op : {"map"}, of : Seq(Cues)])
      BY <1>1, PartsAreGroups
    <2>2. [op : {"map"}, of : Seq(Cues)] \subseteq NotesParts
      BY DEF NotesParts
    <2> HIDE DEF u
    <2>3. QED BY <2>1, <2>2, SeqMonotonic
  <1> HIDE DEF u
  <1>3. NotesJob("before", u, o, r)
    BY <1>2 DEF NotesJob
  <1>4. QED BY <1>3 DEF u

LEMMA NotesReduce ==
    ASSUME NEW t, NEW o, NEW r, NotesJob("before", t, o, r)
    PROVE  NotesJob("before", Parts("reduce", ReduceGroups(o)), <<>>, r)
  <1> DEFINE u == Parts("reduce", ReduceGroups(o))
  <1>1. ReduceGroups(o) \in Seq(Seq(Sound))
    <2>1. o \in Seq(Sound)
      BY DEF NotesJob
    <2>2. QED BY <2>1, PackIsAll DEF ReduceGroups
  <1>2. u \in Seq(NotesParts)
    <2>1. u \in Seq([op : {"reduce"}, of : Seq(Sound)])
      BY <1>1, PartsAreGroups
    <2>2. [op : {"reduce"}, of : Seq(Sound)] \subseteq NotesParts
      BY DEF NotesParts
    <2> HIDE DEF u
    <2>3. QED BY <2>1, <2>2, SeqMonotonic
  <1> HIDE DEF u
  <1>3. NotesJob("before", u, <<>>, r)
    BY <1>2, EmptySeq DEF NotesJob
  <1>4. QED BY <1>3 DEF u

\* A group of one node is passed on as it is.
LEMMA NotesPassOn ==
    ASSUME NEW t, NEW o, NEW r, t # <<>>, NotesJob("before", t, o, r), Head(t).op = "reduce"
    PROVE  NotesJob("before", Tail(t), o \o Head(t).of, r)
  <1>1. t \in Seq(NotesParts) /\ o \in Seq(Sound)
    BY DEF NotesJob
  <1>2. Head(t) \in NotesParts /\ Tail(t) \in Seq(NotesParts)
    BY <1>1, HeadTailProperties
  <1>3. Head(t).of \in Seq(Sound)
    BY <1>2 DEF NotesParts
  <1>4. o \o Head(t).of \in Seq(Sound)
    BY <1>1, <1>3, ConcatProperties
  <1>5. QED BY <1>2, <1>4 DEF NotesJob

\* A note cites what its part allows, and that has its evidence.
LEMMA NotesAccept ==
    ASSUME NEW t, NEW o, NEW r, NEW r2, NotesJob("after", t, o, r), Accepts(Head(t), r)
    PROVE  NotesJob("before", Tail(t),
                    Append(o, [cites |-> r.cites, size |-> r.size,
                               evidence |-> Evidence(Head(t), r.cites)]), r2)
  <1> DEFINE part == Head(t)
             n == [cites |-> r.cites, size |-> r.size, evidence |-> Evidence(part, r.cites)]
  <1>1. t \in Seq(NotesParts) /\ t # <<>> /\ o \in Seq(Sound)
        /\ r \in [cites : SUBSET Cues, size : {note}]
    BY DEF NotesJob
  <1>2. part \in NotesParts /\ Tail(t) \in Seq(NotesParts)
    BY <1>1, HeadTailProperties
  <1>3. r.cites \subseteq AllowedIds(part)
    BY <1>2 DEF Accepts, NotesParts
  <1>4. n.cites \subseteq n.evidence /\ n.evidence \subseteq Cues
    <2>1. CASE part.op = "reduce"
      <3>1. \A m \in ToSet(part.of) : m \in Sound
        <4>1. part.of \in Seq(Sound)
          BY <1>2, <2>1 DEF NotesParts
        <4>2. QED BY <4>1 DEF ToSet
      <3>2. /\ AllowedIds(part) = UNION {m.cites : m \in ToSet(part.of)}
            /\ Evidence(part, r.cites) = UNION {m.evidence : m \in ToSet(part.of)}
        BY <2>1 DEF AllowedIds, Evidence
      <3>3. \A m \in ToSet(part.of) : m.cites \subseteq m.evidence /\ m.evidence \subseteq Cues
        BY <3>1 DEF Sound, Nodes
      <3> HIDE DEF part
      <3>4. QED BY <1>3, <3>2, <3>3
    <2>2. CASE part.op # "reduce"
      BY <1>1, <2>2 DEF Evidence
    <2>3. QED BY <2>1, <2>2
  <1>5. n \in Sound
    BY <1>1, <1>4 DEF Sound, Nodes
  <1> HIDE DEF n, part
  <1>6. Append(o, n) \in Seq(Sound)
    BY <1>1, <1>5, AppendProperties
  <1>7. NotesJob("before", Tail(t), Append(o, n), r2)
    BY <1>2, <1>6 DEF NotesJob
  <1>8. QED BY <1>7 DEF n, part

-----------------------------------------------------------------------------
(* The steps *)

\* A job is good after a step that leaves the input alone if it was good before it.
LEMMA JobsPrimed ==
    ASSUME UNCHANGED inputVars,
           \A v \in Workers : Job(pc'[v], todo'[v], out'[v], reply'[v])
    PROVE  JobsInv'
  <1>1. kind' = kind /\ size' = size /\ note' = note
    BY DEF inputVars
  <1>2. Cues' = Cues /\ Transcript' = Transcript
    BY <1>1 DEF Cues, Transcript
  <1>3. Nodes' = Nodes
    BY <1>1, <1>2 DEF Nodes
  <1>4. Sound' = Sound
    BY <1>3 DEF Sound
  <1>5. TranslateParts' = TranslateParts /\ NotesParts' = NotesParts
    BY <1>2, <1>4 DEF TranslateParts, NotesParts
  <1>6. ASSUME NEW v \in Workers PROVE Job(pc[v], todo[v], out[v], reply[v])'
    <2>1. TranslateJob(pc'[v], todo'[v], out'[v]) => TranslateJob(pc[v], todo[v], out[v])'
      BY <1>2, <1>5 DEF TranslateJob
    <2>2. NotesJob(pc'[v], todo'[v], out'[v], reply'[v]) => NotesJob(pc[v], todo[v], out[v], reply[v])'
      BY <1>1, <1>2, <1>4, <1>5 DEF NotesJob
    <2>3. QED BY <1>1, <2>1, <2>2 DEF Job
  <1>7. QED BY <1>6 DEF JobsInv

\* One worker's step: its place, parts, entries and answer are replaced by others of a good job.
LEMMA OneWorker ==
    ASSUME JInv, NEW w \in Workers, NEW p, NEW t, NEW o, NEW r,
           UNCHANGED inputVars, p \in Places, Job(p, t, o, r),
           pc' = [pc EXCEPT ![w] = p], todo' = [todo EXCEPT ![w] = t],
           out' = [out EXCEPT ![w] = o], reply' = [reply EXCEPT ![w] = r]
    PROVE  InputInv' /\ FunctionsInv' /\ JobsInv'
  <1>1. InputInv'
    BY DEF InputInv, JInv, inputVars
  <1>2. FunctionsInv'
    BY DEF FunctionsInv, JInv
  <1>3. ASSUME NEW v \in Workers PROVE Job(pc'[v], todo'[v], out'[v], reply'[v])
    <2>1. CASE v = w
      <3>1. pc'[v] = p /\ todo'[v] = t /\ out'[v] = o /\ reply'[v] = r
        BY <2>1 DEF FunctionsInv, JInv
      <3>2. QED BY <3>1
    <2>2. CASE v # w
      <3>1. pc'[v] = pc[v] /\ todo'[v] = todo[v] /\ out'[v] = out[v] /\ reply'[v] = reply[v]
        BY <2>2 DEF FunctionsInv, JInv
      <3>2. Job(pc[v], todo[v], out[v], reply[v])
        BY DEF JInv, JobsInv
      <3>3. QED BY <3>1, <3>2
    <2>3. QED BY <2>1, <2>2
  <1>4. JobsInv'
    BY <1>3, JobsPrimed
  <1>5. QED BY <1>1, <1>2, <1>4

LEMMA SameFiles ==
    ASSUME FilesInv, UNCHANGED <<inputVars, file>>
    PROVE  FilesInv'
  <1>1. kind' = kind /\ Transcript' = Transcript /\ file' = file
    BY DEF inputVars, Transcript, Cues
  <1>2. QED BY <1>1 DEF FilesInv, GoodFile

LEMMA NothingMoves ==
    ASSUME JInv, UNCHANGED <<inputVars, pc, todo, out, reply, file>>
    PROVE  JInv'
  <1>1. pc' = pc /\ todo' = todo /\ out' = out /\ reply' = reply /\ UNCHANGED inputVars
    OBVIOUS
  <1>2. InputInv' /\ FunctionsInv'
    BY <1>1 DEF JInv, InputInv, FunctionsInv, inputVars
  <1>3. JobsInv'
    BY <1>1, JobsPrimed DEF JInv, JobsInv
  <1>4. FilesInv'
    BY SameFiles DEF JInv
  <1>5. QED BY <1>2, <1>3, <1>4 DEF JInv

\* The worker goes to another place with what it holds.
LEMMA WorkerMoves ==
    ASSUME JInv, NEW w \in Workers, NEW q \in Places,
           UNCHANGED <<inputVars, todo, out, reply>>,
           pc' = [pc EXCEPT ![w] = q], Job(q, todo[w], out[w], reply[w])
    PROVE  InputInv' /\ FunctionsInv' /\ JobsInv'
  <1>1. /\ todo' = [todo EXCEPT ![w] = todo[w]] /\ out' = [out EXCEPT ![w] = out[w]]
        /\ reply' = [reply EXCEPT ![w] = reply[w]]
    BY DEF JInv, FunctionsInv
  <1>2. UNCHANGED inputVars
    OBVIOUS
  <1> DEFINE t == todo[w]
             o == out[w]
             r == reply[w]
  <1>3. /\ Job(q, t, o, r) /\ pc' = [pc EXCEPT ![w] = q] /\ todo' = [todo EXCEPT ![w] = t]
        /\ out' = [out EXCEPT ![w] = o] /\ reply' = [reply EXCEPT ![w] = r]
    BY <1>1
  <1> HIDE DEF t, o, r
  <1>4. QED BY <1>2, <1>3, OneWorker

LEMMA WorkerForgets ==
    ASSUME JInv, NEW w \in Workers, NEW q \in {"idle", "dead"}, UNCHANGED <<inputVars, file>>,
           Forget(w), GoTo(w, q)
    PROVE  JInv'
  <1>1. /\ pc' = [pc EXCEPT ![w] = q] /\ todo' = [todo EXCEPT ![w] = <<>>]
        /\ out' = [out EXCEPT ![w] = <<>>] /\ reply' = [reply EXCEPT ![w] = NoReply]
    BY DEF Forget, GoTo
  <1>2. Job(q, <<>>, <<>>, NoReply)
    <2>1. <<>> \in Seq(TranslateParts) /\ <<>> \in Seq(Cues) /\ <<>> \in Seq(NotesParts)
          /\ <<>> \in Seq(Sound)
      BY EmptySeq
    <2>2. QED BY <2>1 DEF Job, TranslateJob, NotesJob
  <1>3. InputInv' /\ FunctionsInv' /\ JobsInv'
    BY <1>1, <1>2, OneWorker DEF Places
  <1>4. QED BY <1>3, SameFiles DEF JInv

LEMMA JobOf ==
    ASSUME JInv, NEW w \in Workers
    PROVE  /\ InputInv /\ FunctionsInv /\ FilesInv /\ pc[w] \in Places
           /\ Job(pc[w], todo[w], out[w], reply[w])
  BY DEF JInv, JobsInv, FunctionsInv

LEMMA PlanStep ==
    ASSUME JInv, NEW w \in Workers, Plan(w)
    PROVE  JInv'
  <1>1. /\ pc[w] = "planning" /\ Job("planning", todo[w], out[w], reply[w]) /\ InputInv
        /\ UNCHANGED <<inputVars, file, out, reply>>
    BY JobOf DEF Plan, callVars
  <1>2. CASE GoTo(w, "failing") /\ UNCHANGED todo
    <2>1. Job("failing", todo[w], out[w], reply[w])
      BY <1>1 DEF Job, TranslateJob, NotesJob
    <2>2. InputInv' /\ FunctionsInv' /\ JobsInv'
      BY <1>1, <1>2, <2>1, WorkerMoves DEF GoTo, Places
    <2>3. QED BY <1>1, <2>2, SameFiles DEF JInv
  <1>3. CASE /\ todo' = [todo EXCEPT ![w] = IF kind = "translate"
                                            THEN Parts("translate", Batches) ELSE Parts("map", Chunks)]
             /\ GoTo(w, "before")
    <2> DEFINE t == IF kind = "translate" THEN Parts("translate", Batches) ELSE Parts("map", Chunks)
    <2>1. Job("before", t, out[w], reply[w])
      <3>1. CASE kind = "translate"
        <4>1. TranslateJob("before", Parts("translate", Batches), out[w])
          BY <1>1, <3>1, TranslatePlans DEF Job
        <4>2. QED BY <3>1, <4>1 DEF Job
      <3>2. CASE kind = "notes"
        <4>1. NotesJob("before", Parts("map", Chunks), out[w], reply[w])
          BY <1>1, <3>2, NotesPlans DEF Job
        <4>2. QED BY <3>2, <4>1 DEF Job
      <3>3. QED BY <1>1, <3>1, <3>2 DEF InputInv
    <2>2. /\ out' = [out EXCEPT ![w] = out[w]] /\ reply' = [reply EXCEPT ![w] = reply[w]]
          /\ pc' = [pc EXCEPT ![w] = "before"] /\ todo' = [todo EXCEPT ![w] = t]
      BY <1>1, <1>3 DEF JInv, FunctionsInv, GoTo
    <2> HIDE DEF t
    <2>3. UNCHANGED inputVars /\ "before" \in Places
      BY <1>1 DEF Places
    <2>5. InputInv' /\ FunctionsInv' /\ JobsInv'
      BY <2>1, <2>2, <2>3, OneWorker, Zenon
    <2>4. QED BY <1>1, <2>5, SameFiles DEF JInv
  <1>4. QED BY <1>2, <1>3 DEF Plan

LEMMA PassOnStep ==
    ASSUME JInv, NEW w \in Workers, PassOn(w)
    PROVE  JInv'
  <1>1. /\ Job("before", todo[w], out[w], reply[w]) /\ InputInv /\ todo[w] # <<>> /\ pc[w] = "before"
        /\ UNCHANGED <<inputVars, file, pc, reply>> /\ Head(todo[w]).op = "reduce"
        /\ out' = [out EXCEPT ![w] = out[w] \o Head(todo[w]).of]
        /\ todo' = [todo EXCEPT ![w] = Tail(todo[w])]
    BY JobOf DEF PassOn, callVars, Passes
  <1>2. kind = "notes"
    <2>1. SUFFICES ASSUME kind = "translate" PROVE FALSE
      BY <1>1 DEF InputInv
    <2>2. todo[w] \in Seq(TranslateParts)
      BY <1>1, <2>1 DEF Job, TranslateJob
    <2>3. Head(todo[w]) \in TranslateParts
      BY <1>1, <2>2, HeadTailProperties
    <2>4. QED BY <1>1, <2>3 DEF TranslateParts
  <1>3. NotesJob("before", Tail(todo[w]), out[w] \o Head(todo[w]).of, reply[w])
    BY <1>1, <1>2, NotesPassOn DEF Job
  <1>4. Job("before", Tail(todo[w]), out[w] \o Head(todo[w]).of, reply[w])
    BY <1>2, <1>3 DEF Job
  <1>5. pc' = [pc EXCEPT ![w] = "before"] /\ reply' = [reply EXCEPT ![w] = reply[w]]
    BY <1>1 DEF JInv, FunctionsInv
  <1>6. UNCHANGED inputVars /\ "before" \in Places
    BY <1>1 DEF Places
  <1>7. InputInv' /\ FunctionsInv' /\ JobsInv'
    <2> DEFINE t == Tail(todo[w])
               o == out[w] \o Head(todo[w]).of
               r == reply[w]
    <2>1. /\ Job("before", t, o, r) /\ pc' = [pc EXCEPT ![w] = "before"]
          /\ todo' = [todo EXCEPT ![w] = t] /\ out' = [out EXCEPT ![w] = o]
          /\ reply' = [reply EXCEPT ![w] = r]
      BY <1>1, <1>4, <1>5
    <2> HIDE DEF t, o, r
    <2>2. QED BY <1>6, <2>1, OneWorker
  <1>8. QED BY <1>1, <1>7, SameFiles DEF JInv

LEMMA AcceptStep ==
    ASSUME JInv, NEW w \in Workers, Accept(w)
    PROVE  JInv'
  <1> DEFINE part == Head(todo[w])
             r == reply[w]
             n == [cites |-> r.cites, size |-> r.size, evidence |-> Evidence(part, r.cites)]
             o == IF kind = "translate" THEN out[w] \o r ELSE Append(out[w], n)
  <1>1. /\ Job("after", todo[w], out[w], reply[w]) /\ InputInv /\ pc[w] = "after"
        /\ UNCHANGED <<inputVars, file>> /\ Accepts(part, r)
        /\ out' = [out EXCEPT ![w] = o]
        /\ todo' = [todo EXCEPT ![w] = Tail(todo[w])]
        /\ reply' = [reply EXCEPT ![w] = NoReply]
        /\ pc' = [pc EXCEPT ![w] = "before"]
    BY JobOf DEF Accept, GoTo
  <1>2. Job("before", Tail(todo[w]), o, NoReply)
    <2>1. CASE kind = "translate"
      <3>1. /\ Head(todo[w]) \in TranslateParts
            /\ TranslateJob("before", Tail(todo[w]), out[w] \o Head(todo[w]).of)
        BY <1>1, <2>1, TranslateAccepts DEF Job
      <3>2. r = part.of
        BY <1>1, <3>1 DEF Accepts, TranslateParts
      <3>3. QED BY <2>1, <3>1, <3>2 DEF Job
    <2>2. CASE kind = "notes"
      <3>1. NotesJob("before", Tail(todo[w]), Append(out[w], n), NoReply)
        BY <1>1, <2>2, NotesAccept DEF Job
      <3>2. QED BY <2>2, <3>1 DEF Job
    <2>3. QED BY <1>1, <2>1, <2>2 DEF InputInv
  <1> HIDE DEF o
  <1>3. InputInv' /\ FunctionsInv' /\ JobsInv'
    BY <1>1, <1>2, OneWorker DEF Places
  <1>4. QED BY <1>1, <1>3, SameFiles DEF JInv

LEMMA RejectStep ==
    ASSUME JInv, NEW w \in Workers, Reject(w)
    PROVE  JInv'
  <1> DEFINE part == Head(todo[w])
             t == Parts("again", RetryBatches(part.of)) \o Tail(todo[w])
  <1>1. /\ Job("after", todo[w], out[w], reply[w]) /\ InputInv /\ pc[w] = "after"
        /\ UNCHANGED <<inputVars, file, out>>
        /\ reply' = [reply EXCEPT ![w] = NoReply]
        /\ out' = [out EXCEPT ![w] = out[w]]
    BY JobOf DEF Reject, JInv, FunctionsInv
  <1>2. CASE part.op = "translate" /\ todo' = [todo EXCEPT ![w] = t] /\ GoTo(w, "before")
    <2>1. kind = "translate"
      <3>1. SUFFICES ASSUME kind = "notes" PROVE FALSE
        BY <1>1 DEF InputInv
      <3>2. todo[w] \in Seq(NotesParts) /\ todo[w] # <<>>
        BY <1>1, <3>1 DEF Job, NotesJob
      <3>3. part \in NotesParts
        BY <3>2, HeadTailProperties
      <3>4. QED BY <1>2, <3>3 DEF NotesParts
    <2>2. TranslateJob("before", t, out[w])
      BY <1>1, <2>1, TranslateSplits DEF Job
    <2>3. Job("before", t, out[w], NoReply)
      BY <2>1, <2>2 DEF Job
    <2> HIDE DEF t
    <2>4. InputInv' /\ FunctionsInv' /\ JobsInv'
      BY <1>1, <1>2, <2>3, OneWorker DEF Places, GoTo
    <2>5. QED BY <1>1, <2>4, SameFiles DEF JInv
  <1>3. CASE GoTo(w, "failing") /\ UNCHANGED todo
    <2>1. Job("failing", todo[w], out[w], NoReply)
      BY <1>1 DEF Job, TranslateJob, NotesJob
    <2>2. todo' = [todo EXCEPT ![w] = todo[w]]
      BY <1>3 DEF JInv, FunctionsInv
    <2>3. InputInv' /\ FunctionsInv' /\ JobsInv'
      BY <1>1, <1>3, <2>1, <2>2, OneWorker DEF Places, GoTo
    <2>4. QED BY <1>1, <2>3, SameFiles DEF JInv
  <1>4. QED BY <1>2, <1>3 DEF Reject

LEMMA EndLevelStep ==
    ASSUME JInv, NEW w \in Workers, EndLevel(w)
    PROVE  JInv'
  <1>1. /\ Job("before", todo[w], out[w], reply[w]) /\ InputInv /\ pc[w] = "before" /\ todo[w] = <<>>
        /\ UNCHANGED <<inputVars, file, reply>>
    BY JobOf DEF EndLevel, callVars
  <1>2. CASE (kind = "translate" \/ Len(out[w]) = 1) /\ GoTo(w, "finishing") /\ UNCHANGED jobVars
    <2>1. Job("finishing", todo[w], out[w], reply[w])
      BY <1>1, <1>2 DEF Job, TranslateJob, NotesJob
    <2>2. InputInv' /\ FunctionsInv' /\ JobsInv'
      BY <1>1, <1>2, <2>1, WorkerMoves DEF GoTo, Places, jobVars
    <2>3. QED BY <1>1, <2>2, SameFiles DEF JInv
  <1>3. CASE GoTo(w, "failing") /\ UNCHANGED jobVars
    <2>1. Job("failing", todo[w], out[w], reply[w])
      BY <1>1, <1>3 DEF Job, TranslateJob, NotesJob
    <2>2. InputInv' /\ FunctionsInv' /\ JobsInv'
      BY <1>1, <1>3, <2>1, WorkerMoves DEF GoTo, Places, jobVars
    <2>3. QED BY <1>1, <2>2, SameFiles DEF JInv
  <1>4. CASE /\ kind # "translate" /\ UNCHANGED pc
             /\ todo' = [todo EXCEPT ![w] = Parts("reduce", ReduceGroups(out[w]))]
             /\ out' = [out EXCEPT ![w] = <<>>]
    <2>1. kind = "notes"
      BY <1>1, <1>4 DEF InputInv
    <2>2. NotesJob("before", Parts("reduce", ReduceGroups(out[w])), <<>>, reply[w])
      BY <1>1, <2>1, NotesReduce DEF Job
    <2>3. Job("before", Parts("reduce", ReduceGroups(out[w])), <<>>, reply[w])
      BY <2>1, <2>2 DEF Job
    <2>4. pc' = [pc EXCEPT ![w] = "before"] /\ reply' = [reply EXCEPT ![w] = reply[w]]
      BY <1>1, <1>4 DEF JInv, FunctionsInv
    <2>5. InputInv' /\ FunctionsInv' /\ JobsInv'
      BY <1>1, <1>4, <2>3, <2>4, OneWorker DEF Places
    <2>6. QED BY <1>1, <2>5, SameFiles DEF JInv
  <1>5. QED BY <1>2, <1>3, <1>4 DEF EndLevel

LEMMA WriteStep ==
    ASSUME JInv, NEW w \in Workers, Write(w)
    PROVE  JInv'
  <1>1. /\ Job("writing", todo[w], out[w], reply[w]) /\ InputInv /\ pc[w] = "writing"
        /\ UNCHANGED <<inputVars, todo, out, reply>> /\ FilesInv
        /\ file' = [file EXCEPT ![Key(w)] = out[w]]
        /\ pc' = [pc EXCEPT ![w] = "written"]
    BY JobOf DEF Write, jobVars, callVars, GoTo
  <1>2. Job("written", todo[w], out[w], reply[w])
    BY <1>1 DEF Job, TranslateJob, NotesJob
  <1>3. InputInv' /\ FunctionsInv' /\ JobsInv'
    BY <1>1, <1>2, WorkerMoves DEF Places
  <1>4. GoodFile(out[w])
    <2>1. CASE kind = "translate"
      <3>1. TranslateJob("writing", <<>>, out[w])
        BY <1>1, <2>1 DEF Job, TranslateJob
      <3>2. out[w] = Transcript
        BY <1>1, <3>1, TranslateEnds
      <3>3. QED BY <2>1, <3>2 DEF GoodFile
    <2>2. CASE kind = "notes"
      <3>1. out[w] \in Seq(Sound) /\ Len(out[w]) = 1
        BY <1>1, <2>2 DEF Job, NotesJob
      <3>2. out[w][1] \in Sound
        BY <3>1, ElementOfSeq
      <3>3. QED BY <2>2, <3>1, <3>2 DEF GoodFile, Sound
    <2>3. QED BY <1>1, <2>1, <2>2 DEF InputInv
  <1>5. ASSUME NEW k \in DOMAIN file', file'[k] # NoDoc PROVE GoodFile(file'[k])
    BY <1>1, <1>4, <1>5 DEF FilesInv
  <1>6. kind' = kind /\ Transcript' = Transcript
    BY <1>1 DEF inputVars, Transcript, Cues
  <1>7. FilesInv'
    BY <1>5, <1>6 DEF FilesInv, GoodFile
  <1>8. QED BY <1>3, <1>7 DEF JInv

\* The steps that only take the worker from one place to another.
LEMMA PlaceSteps ==
    ASSUME JInv, NEW w \in Workers, Start(w) \/ Claim(w) \/ Load(w) \/ Reuse(w) \/ Ask(w) \/ Finish(w)
    PROVE  JInv'
  <1>1. Job(pc[w], todo[w], out[w], reply[w])
    BY JobOf
  <1>2. UNCHANGED <<inputVars, todo, out, reply>> /\ UNCHANGED <<inputVars, file>>
    BY DEF Start, Claim, Load, Reuse, Ask, Finish, jobVars, callVars
  <1>3. ASSUME NEW q \in Places, pc' = [pc EXCEPT ![w] = q], Job(q, todo[w], out[w], reply[w])
        PROVE  JInv'
    <2>1. InputInv' /\ FunctionsInv' /\ JobsInv'
      BY <1>2, <1>3, WorkerMoves
    <2>2. QED BY <1>2, <2>1, SameFiles DEF JInv
  <1>4. CASE Start(w)
    <2>1. pc' = [pc EXCEPT ![w] = "idle"] /\ pc[w] = "off" /\ "idle" \in Places
      BY <1>4 DEF Start, GoTo, Places
    <2>2. Job("idle", todo[w], out[w], reply[w])
      BY <1>1, <2>1 DEF Job, TranslateJob, NotesJob
    <2>3. QED BY <1>3, <2>1, <2>2
  <1>5. CASE Claim(w)
    <2>1. pc' = [pc EXCEPT ![w] = "loading"] /\ pc[w] = "idle" /\ "loading" \in Places
      BY <1>5 DEF Claim, GoTo, Places
    <2>2. Job("loading", todo[w], out[w], reply[w])
      BY <1>1, <2>1 DEF Job, TranslateJob, NotesJob
    <2>3. QED BY <1>3, <2>1, <2>2
  <1>6. CASE Load(w)
    <2> DEFINE q == IF file[Key(w)] = NoDoc THEN "planning" ELSE "reusing"
    <2>1. pc' = [pc EXCEPT ![w] = q] /\ pc[w] = "loading" /\ q \in Places
      BY <1>6 DEF Load, GoTo, Places
    <2>2. Job(q, todo[w], out[w], reply[w])
      BY <1>1, <2>1 DEF Job, TranslateJob, NotesJob
    <2>3. QED BY <1>3, <2>1, <2>2
  <1>7. CASE Reuse(w)
    <2>1. pc' = [pc EXCEPT ![w] = "written"] /\ pc[w] = "reusing" /\ "written" \in Places
      BY <1>7 DEF Reuse, GoTo, Places
    <2>2. Job("written", todo[w], out[w], reply[w])
      BY <1>1, <2>1 DEF Job, TranslateJob, NotesJob
    <2>3. QED BY <1>3, <2>1, <2>2
  <1>8. CASE Ask(w)
    <2>1. pc' = [pc EXCEPT ![w] = "sending"] /\ pc[w] = "before" /\ "sending" \in Places /\ todo[w] # <<>>
      BY <1>8 DEF Ask, GoTo, Places
    <2>2. Job("sending", todo[w], out[w], reply[w])
      BY <1>1, <2>1 DEF Job, TranslateJob, NotesJob
    <2>3. QED BY <1>3, <2>1, <2>2
  <1>9. CASE Finish(w)
    <2> DEFINE q == IF kind = "translate" /\ out[w] # Transcript THEN "failing" ELSE "writing"
    <2>1. pc' = [pc EXCEPT ![w] = q] /\ pc[w] = "finishing" /\ q \in Places
      BY <1>9 DEF Finish, GoTo, Places
    <2>2. Job(q, todo[w], out[w], reply[w])
      BY <1>1, <2>1 DEF Job, TranslateJob, NotesJob
    <2>3. QED BY <1>3, <2>1, <2>2
  <1>10. QED BY <1>4, <1>5, <1>6, <1>7, <1>8, <1>9

\* A call that ends with an error, or goes on.
LEMMA CallSteps ==
    ASSUME JInv, NEW w \in Workers,
           \/ NotSent(w) \/ StatusLost(w) \/ AnswerLost(w) \/ ServerError(w) \/ RateLimited(w)
           \/ FormatRejected(w) \/ Refused(w) \/ Unusable(w)
    PROVE  JInv'
  <1>1. pc[w] = "sending" /\ UNCHANGED <<inputVars, file, todo, out, reply>>
    BY DEF NotSent, StatusLost, AnswerLost, ServerError, RateLimited, FormatRejected, Refused,
           Unusable, jobVars, callVars
  <1>2. pc' = pc \/ \E q \in {"failing", "in doubt"} : pc' = [pc EXCEPT ![w] = q]
    BY DEF NotSent, StatusLost, AnswerLost, ServerError, RateLimited, FormatRejected, Refused,
           Unusable, NextAddressOr, GoTo
  <1>3. CASE pc' = pc
    <2>1. UNCHANGED <<inputVars, pc, todo, out, reply, file>>
      BY <1>1, <1>3
    <2>2. QED BY <2>1, NothingMoves
  <1>4. ASSUME NEW q \in {"failing", "in doubt"}, pc' = [pc EXCEPT ![w] = q] PROVE JInv'
    <2>1. Job(q, todo[w], out[w], reply[w])
      BY <1>1, JobOf DEF Job, TranslateJob, NotesJob
    <2>2. q \in Places /\ UNCHANGED <<inputVars, todo, out, reply>> /\ UNCHANGED <<inputVars, file>>
      BY <1>1 DEF Places
    <2>3. InputInv' /\ FunctionsInv' /\ JobsInv'
      BY <1>4, <2>1, <2>2, WorkerMoves
    <2>4. QED BY <2>2, <2>3, SameFiles DEF JInv
  <1>5. QED BY <1>2, <1>3, <1>4

LEMMA AnsweredStep ==
    ASSUME JInv, NEW w \in Workers, Answered(w)
    PROVE  JInv'
  <1>1. pc[w] = "sending" /\ UNCHANGED <<inputVars, file, todo, out>> /\ pc' = [pc EXCEPT ![w] = "after"]
    BY DEF Answered, jobVars, GoTo
  <1>2. PICK r \in Replies(Head(todo[w])) : reply' = [reply EXCEPT ![w] = r]
    BY DEF Answered
  <1>3. Job("sending", todo[w], out[w], reply[w]) /\ InputInv
    BY <1>1, JobOf
  <1>4. Job("after", todo[w], out[w], r)
    <2>1. CASE kind = "translate"
      BY <1>3, <2>1 DEF Job, TranslateJob
    <2>2. CASE kind = "notes"
      <3>1. todo[w] \in Seq(NotesParts) /\ todo[w] # <<>>
        BY <1>3, <2>2 DEF Job, NotesJob
      <3>2. Head(todo[w]) \in NotesParts
        BY <3>1, HeadTailProperties
      <3>3. r \in [cites : {{c} : c \in Cues}, size : {note}]
        BY <1>2, <3>2 DEF Replies, NotesParts
      <3>4. r \in [cites : SUBSET Cues, size : {note}]
        BY <3>3
      <3>5. QED BY <1>3, <2>2, <3>4 DEF Job, NotesJob
    <2>3. QED BY <1>3, <2>1, <2>2 DEF InputInv
  <1>5. todo' = [todo EXCEPT ![w] = todo[w]] /\ out' = [out EXCEPT ![w] = out[w]]
    BY <1>1 DEF JInv, FunctionsInv
  <1>6. InputInv' /\ FunctionsInv' /\ JobsInv'
    <2>1. UNCHANGED inputVars /\ "after" \in Places
      BY <1>1 DEF Places
    <2> DEFINE t == todo[w]
               o == out[w]
    <2>2. /\ Job("after", t, o, r) /\ todo' = [todo EXCEPT ![w] = t]
          /\ out' = [out EXCEPT ![w] = o]
      BY <1>4, <1>5
    <2> HIDE DEF t, o
    <2>3. QED BY <1>1, <1>2, <2>1, <2>2, OneWorker
  <1>7. QED BY <1>1, <1>6, SameFiles DEF JInv

LEMMA JobsInit == Init => JInv
  <1> SUFFICES ASSUME Init PROVE JInv
    OBVIOUS
  <1>1. InputInv
    BY AiAssumption DEF Init, InputInv
  <1>2. FunctionsInv
    BY DEF Init, FunctionsInv, Places
  <1>3. JobsInv
    <2>1. ASSUME NEW w \in Workers PROVE Job(pc[w], todo[w], out[w], reply[w])
      <3>1. pc[w] = "off" /\ todo[w] = <<>> /\ out[w] = <<>> /\ reply[w] = NoReply
        BY DEF Init
      <3>2. /\ <<>> \in Seq(TranslateParts) /\ <<>> \in Seq(Cues) /\ <<>> \in Seq(NotesParts)
            /\ <<>> \in Seq(Sound)
        BY EmptySeq
      <3>3. QED BY <3>1, <3>2 DEF Job, TranslateJob, NotesJob
    <2>2. QED BY <2>1 DEF JobsInv
  <1>4. FilesInv
    BY DEF Init, FilesInv
  <1>5. QED BY <1>1, <1>2, <1>3, <1>4 DEF JInv

LEMMA JobsStep == JInv /\ [Next]_vars => JInv'
  <1> SUFFICES ASSUME JInv, [Next]_vars PROVE JInv'
    OBVIOUS
  <1>1. CASE UNCHANGED vars
    BY <1>1, NothingMoves DEF vars, jobVars, callVars
  <1>2. CASE Cancel \/ LeaseExpires \/ \E ack \in BOOLEAN : Retry(ack)
    BY <1>2, NothingMoves DEF Cancel, LeaseExpires, Retry, jobVars, callVars
  <1>3. ASSUME NEW w \in Workers, Start(w) \/ Die(w) \/ Claim(w) \/ Handle(w) \/ Exchange(w)
        PROVE  JInv'
    <2>1. CASE Die(w) \/ Complete(w) \/ Fail(w) \/ Stop(w)
      <3>1. UNCHANGED <<inputVars, file>> /\ Forget(w) /\ (GoTo(w, "idle") \/ GoTo(w, "dead"))
        BY <2>1 DEF Die, Complete, Fail, Stop, Conclude
      <3>2. QED BY <3>1, WorkerForgets
    <2>2. CASE Start(w) \/ Claim(w) \/ Load(w) \/ Reuse(w) \/ Ask(w) \/ Finish(w)
      BY <2>2, PlaceSteps
    <2>3. CASE Exchange(w)
      BY <2>3, CallSteps, AnsweredStep DEF Exchange
    <2>4. CASE Plan(w) \/ PassOn(w) \/ Accept(w) \/ Reject(w) \/ EndLevel(w) \/ Write(w)
      BY <2>4, PlanStep, PassOnStep, AcceptStep, RejectStep, EndLevelStep, WriteStep
    <2>5. QED BY <1>3, <2>1, <2>2, <2>3, <2>4 DEF Handle
  <1>4. QED BY <1>1, <1>2, <1>3 DEF Next

LEMMA JobsHold == Spec => []JInv
  BY JobsInit, JobsStep, PTL DEF Spec

\* Whatever the transcript, the limits and the sizes, and however many workers run the stage: the
\* entries and the cues still to be sent are the transcript, each cue once and in order, and so is
\* the artifact (translation.py).
THEOREM TranslationKeepsEveryCue == Spec => []EveryCueOnce
  <1>1. JInv => EveryCueOnce
    <2> SUFFICES ASSUME JInv, kind = "translate" PROVE EveryCueOnce
      BY DEF EveryCueOnce
    <2>1. ASSUME NEW w \in Workers,
                 pc[w] \in {"before", "sending", "after", "finishing", "writing"}
          PROVE  out[w] \o FlattenSeq([i \in DOMAIN todo[w] |-> todo[w][i].of]) = Transcript
      BY <2>1, JobOf DEF Job, TranslateJob, Of
    <2>2. ASSUME NEW k \in DOMAIN file, file[k] # NoDoc PROVE file[k] = Transcript
      BY <2>2 DEF JInv, FilesInv, GoodFile
    <2>3. QED BY <2>1, <2>2 DEF EveryCueOnce
  <1>2. QED BY <1>1, JobsHold, PTL

\* At every reduce level, for any packing of the notes: a note cites only cues that the notes taken
\* from the transcript cited, in the handler and in the artifact (notes.py, allowed_ids).
THEOREM NotesCiteEvidence == Spec => []CitesEvidence
  <1>1. JInv => CitesEvidence
    <2> SUFFICES ASSUME JInv, kind = "notes" PROVE CitesEvidence
      BY DEF CitesEvidence
    <2>1. ASSUME NEW w \in Workers, NEW n \in ToSet(out[w]) PROVE n.cites \subseteq n.evidence
      <3>1. out[w] \in Seq(Sound)
        BY JobOf DEF Job, NotesJob
      <3>2. n \in Sound
        BY <3>1 DEF ToSet
      <3>3. QED BY <3>2 DEF Sound
    <2>2. ASSUME NEW k \in DOMAIN file, file[k] # NoDoc
          PROVE  Len(file[k]) = 1 /\ file[k][1].cites \subseteq file[k][1].evidence
      BY <2>2 DEF JInv, FilesInv, GoodFile
    <2>3. QED BY <2>1, <2>2 DEF CitesEvidence
  <1>2. QED BY <1>1, JobsHold, PTL

-----------------------------------------------------------------------------
(* The requests *)

\* What a part may be when it is planned.  Merged notes may be too large alone: they are not sent.
PartFits(part) ==
    /\ part.of # <<>>
    /\ part.op = "reduce" => FitsReduce(part.of) \/ Len(part.of) = 1
    /\ part.op # "reduce" => FitsRequest(part.of)
    /\ part.op \in {"translate", "again"} => Len(part.of) <= BatchCues

PartsFit(t) == \A i \in 1..Len(t) : PartFits(t[i])

FitInv ==
    /\ \A w \in Workers : PartsFit(todo[w])
    /\ \A w \in Workers : pc[w] = "sending" => ~Passes(Head(todo[w]))

AnyPart == [op : {"translate", "again", "map", "reduce"}, of : Seq(Cues) \cup Seq(Sound)]

\* The parts of a job, whatever its kind.
LEMMA TodoType ==
    ASSUME JInv, NEW w \in Workers
    PROVE  todo[w] \in Seq(AnyPart) /\ (pc[w] \in {"sending", "after"} => todo[w] # <<>>)
  <1>1. Job(pc[w], todo[w], out[w], reply[w]) /\ InputInv
    BY JobOf
  <1>2. TranslateParts \subseteq AnyPart /\ NotesParts \subseteq AnyPart
    BY DEF AnyPart, TranslateParts, NotesParts
  <1>3. CASE kind = "translate"
    <2>1. todo[w] \in Seq(TranslateParts) /\ (pc[w] \in {"sending", "after"} => todo[w] # <<>>)
      BY <1>1, <1>3 DEF Job, TranslateJob
    <2>2. QED BY <1>2, <2>1, SeqMonotonic
  <1>4. CASE kind = "notes"
    <2>1. todo[w] \in Seq(NotesParts) /\ (pc[w] \in {"sending", "after"} => todo[w] # <<>>)
      BY <1>1, <1>4 DEF Job, NotesJob
    <2>2. QED BY <1>2, <2>1, SeqMonotonic
  <1>5. QED BY <1>1, <1>3, <1>4 DEF InputInv

\* Parts of groups that fit, fit.
LEMMA PartsOfGroups ==
    ASSUME NEW T, NEW op, NEW groups \in Seq(Seq(T)),
           \A i \in 1..Len(groups) : PartFits(Part(op, groups[i]))
    PROVE  PartsFit(Parts(op, groups))
  <1> DEFINE n == Len(groups)
             q == Parts(op, groups)
  <1>1. n \in Nat /\ DOMAIN groups = 1..n
    BY LenProperties
  <1>2. q = [i \in 1..n |-> Part(op, groups[i])]
    BY <1>1 DEF Parts
  <1>3. q \in Seq([op : {op}, of : Seq(T)])
    BY PartsAreGroups
  <1>4. DOMAIN q = 1..n /\ DOMAIN q = 1..Len(q) /\ Len(q) \in Nat
    <2>1. DOMAIN q = 1..n
      <3> HIDE DEF n, q
      <3>1. QED BY <1>2
    <2>2. DOMAIN q = 1..Len(q) /\ Len(q) \in Nat
      <3> HIDE DEF q
      <3>1. QED BY <1>3, LenProperties
    <2>3. QED BY <2>1, <2>2
  <1> HIDE DEF q
  <1>5. ASSUME NEW i \in 1..Len(q) PROVE PartFits(q[i])
    <2>1. i \in 1..n
      BY <1>4
    <2>2. q[i] = Part(op, groups[i])
      BY <1>2, <2>1
    <2>3. QED BY <2>1, <2>2
  <1>6. QED BY <1>5 DEF PartsFit, q

\* The sizes of cues.
LEMMA SizesOfCues ==
    ASSUME InputInv, NEW g \in Seq(Cues)
    PROVE  LET s == [i \in DOMAIN g |-> size[g[i]]]
           IN  s \in Seq(Nat) /\ Len(s) = Len(g) /\ \A i \in 1..Len(g) : s[i] = size[g[i]]
  <1> DEFINE n == Len(g)
             s == [i \in DOMAIN g |-> size[g[i]]]
  <1>1. n \in Nat /\ DOMAIN g = 1..n /\ \A i \in 1..n : g[i] \in 1..Len(size)
    BY LenProperties, ElementOfSeq DEF Cues
  <1>2. \A c \in 1..Len(size) : size[c] \in Nat
    BY ElementOfSeq DEF InputInv
  <1>3. s \in [1..n -> Nat] /\ \A i \in 1..n : s[i] = size[g[i]]
    <2> HIDE DEF n
    <2>1. QED BY <1>1, <1>2
  <1> HIDE DEF s, n
  <1>4. s \in Seq(Nat)
    BY <1>1, <1>3, SeqDef
  <1>5. Len(s) = n
    BY <1>1, <1>3, <1>4, LenProperties
  <1>6. QED BY <1>3, <1>4, <1>5 DEF s, n

LEMMA StretchFits ==
    ASSUME InputInv, NEW g \in Seq(Cues), NEW u \in Seq(Cues), Stretch(u, g)
    PROVE  Len(u) <= Len(g) /\ (FitsRequest(g) => FitsRequest(u))
  <1>1. PICK p \in Nat, q \in Nat : 1 <= p /\ p <= q + 1 /\ q <= Len(g) /\ u = SubSeq(g, p, q)
    BY DEF Stretch
  <1> DEFINE s == [i \in DOMAIN g |-> size[g[i]]]
             v == [i \in DOMAIN u |-> size[u[i]]]
             m == q - p + 1
  <1>2. s \in Seq(Nat) /\ Len(s) = Len(g) /\ \A i \in 1..Len(g) : s[i] = size[g[i]]
    BY SizesOfCues
  <1>3. v \in Seq(Nat) /\ Len(v) = Len(u) /\ \A i \in 1..Len(u) : v[i] = size[u[i]]
    BY SizesOfCues
  <1>4. Len(g) \in Nat /\ m \in Nat /\ \A i \in p..q : i \in 1..Len(g)
    BY <1>1, LenProperties
  <1>5. Len(u) = m /\ \A i \in 1..m : u[i] = g[p + i - 1]
    <2>1. \A i \in p..q : g[i] \in Cues
      BY <1>4, ElementOfSeq
    <2>2. /\ Len(SubSeq(g, p, q)) = IF p <= q THEN q - p + 1 ELSE 0
          /\ \A i \in 1..(q - p + 1) : SubSeq(g, p, q)[i] = g[p + i - 1]
      BY <2>1, SubSeqProperties
    <2>3. QED BY <1>1, <2>2
  <1> HIDE DEF s, v
  <1>6. v = SubSeq(s, p, q)
    <2> DEFINE x == SubSeq(s, p, q)
    <2>1. x \in Seq(Nat) /\ Len(x) = m /\ \A i \in 1..m : x[i] = s[p + i - 1]
      <3>1. \A i \in p..q : s[i] \in Nat
        BY <1>2, <1>4, ElementOfSeq
      <3>2. /\ SubSeq(s, p, q) \in Seq(Nat)
            /\ Len(SubSeq(s, p, q)) = IF p <= q THEN q - p + 1 ELSE 0
            /\ \A i \in 1..(q - p + 1) : SubSeq(s, p, q)[i] = s[p + i - 1]
        BY <3>1, SubSeqProperties
      <3>3. QED BY <1>1, <3>2
    <2> HIDE DEF x
    <2>2. ASSUME NEW i \in 1..m PROVE v[i] = x[i]
      <3>1. p + i - 1 \in 1..Len(g)
        BY <1>1, <1>4
      <3>2. v[i] = size[g[p + i - 1]]
        BY <1>3, <1>5
      <3>3. x[i] = size[g[p + i - 1]]
        BY <1>2, <2>1, <3>1
      <3>4. QED BY <3>2, <3>3
    <2>3. v = x
      BY <1>3, <1>5, <2>1, <2>2, SeqEqual
    <2>4. QED BY <2>3 DEF x
  <1>7. Stretch(v, s)
    BY <1>1, <1>2, <1>6 DEF Stretch
  <1>8. v \in Seq(Nat) /\ Total(v) <= Total(s) /\ Total(s) \in Nat
    BY <1>2, <1>7, StretchIsSmaller
  <1>9. Total(v) \in Nat
    <2>1. PICK f \in [0..Len(v) -> Nat] : Total(v) = f[Len(v)]
      BY <1>8, TotalLoop
    <2>2. Len(v) \in 0..Len(v)
      BY <1>3, <1>4, <1>5
    <2>3. QED BY <2>1, <2>2
  <1>10. Budget \in Nat
    BY AiAssumption
  <1>11. FitsRequest(g) <=> Total(s) <= Budget
    BY DEF FitsRequest, s
  <1>12. FitsRequest(u) <=> Total(v) <= Budget
    BY DEF FitsRequest, v
  <1>13. QED BY <1>1, <1>4, <1>5, <1>8, <1>9, <1>10, <1>11, <1>12

\* What is planned when every cue fits alone.
LEMMA BatchesFit ==
    ASSUME InputInv, ~CueOversize
    PROVE  PartsFit(Parts("translate", Batches)) /\ PartsFit(Parts("map", Chunks))
  <1>1. \A c \in Cues : FitsRequest(<<c>>) /\ Len(<<c>>) = 1
    BY DEF CueOversize
  <1>2. BatchCues \in Nat /\ 1 <= BatchCues
    BY AiAssumption
  <1> DEFINE F == {g \in Seq(Cues) : Len(g) <= BatchCues /\ FitsRequest(g)}
             G == {g \in Seq(Cues) : FitsRequest(g)}
  <1>3. /\ Batches = Pack(Transcript, F) /\ Batches \in Seq(Seq(Cues))
        /\ Chunks = Pack(Transcript, G) /\ Chunks \in Seq(Seq(Cues))
    BY TranscriptType, PackIsAll DEF Batches, Chunks
  <1>4. ASSUME NEW i \in 1..Len(Batches) PROVE PartFits(Part("translate", Batches[i]))
    <2>1. FittingOrAlone(Cues, F, Batches[i])
      <3> HIDE DEF F
      <3>1. QED BY <1>3, <1>4, TranscriptType, PackFits
    <2>2. Len(Batches[i]) <= BatchCues /\ FitsRequest(Batches[i]) /\ Batches[i] # <<>>
      BY <1>1, <1>2, <2>1 DEF FittingOrAlone
    <2>3. QED BY <2>2 DEF PartFits, Part
  <1>5. ASSUME NEW i \in 1..Len(Chunks) PROVE PartFits(Part("map", Chunks[i]))
    <2>1. FittingOrAlone(Cues, G, Chunks[i])
      <3> HIDE DEF G
      <3>1. QED BY <1>3, <1>5, TranscriptType, PackFits
    <2>2. FitsRequest(Chunks[i]) /\ Chunks[i] # <<>>
      BY <1>1, <2>1 DEF FittingOrAlone
    <2>3. QED BY <2>2 DEF PartFits, Part
  <1>6. QED BY <1>3, <1>4, <1>5, PartsOfGroups

LEMMA ReduceGroupsFit ==
    ASSUME NEW o \in Seq(Sound)
    PROVE  PartsFit(Parts("reduce", ReduceGroups(o)))
  <1> DEFINE F == {g \in Seq(Nodes) : FitsReduce(g)}
  <1>1. ReduceGroups(o) = Pack(o, F) /\ ReduceGroups(o) \in Seq(Seq(Sound))
    BY PackIsAll DEF ReduceGroups
  <1>2. ASSUME NEW i \in 1..Len(ReduceGroups(o)) PROVE PartFits(Part("reduce", ReduceGroups(o)[i]))
    <2>1. FittingOrAlone(Sound, F, ReduceGroups(o)[i])
      <3> HIDE DEF F
      <3>1. QED BY <1>1, <1>2, PackFits
    <2>2. \A x : Len(<<x>>) = 1
      OBVIOUS
    <2> DEFINE g == ReduceGroups(o)[i]
    <2> HIDE DEF g
    <2>3. g # <<>> /\ (g \in F \/ \E x \in Sound : g = <<x>>)
      BY <2>1 DEF FittingOrAlone, g
    <2>4. g # <<>> /\ (FitsReduce(g) \/ Len(g) = 1)
      BY <2>2, <2>3
    <2>5. QED BY <2>4 DEF PartFits, Part, g
  <1>3. QED BY <1>1, <1>2, PartsOfGroups

LEMMA TailFits ==
    ASSUME NEW t \in Seq(AnyPart), t # <<>>, PartsFit(t)
    PROVE  PartsFit(Tail(t)) /\ PartFits(Head(t)) /\ Head(t) \in AnyPart
  <1>1. /\ Len(t) \in Nat /\ Len(t) # 0 /\ Len(Tail(t)) = Len(t) - 1
        /\ \A i \in 1..Len(Tail(t)) : Tail(t)[i] = t[i + 1]
    BY HeadTailProperties, EmptySeq, LenProperties
  <1>2. Head(t) \in AnyPart /\ Head(t) = t[1]
    <2> DEFINE P == AnyPart
    <2>1. t \in Seq(P)
      OBVIOUS
    <2> HIDE DEF P
    <2>2. Head(t) \in P /\ Head(t) = t[1]
      BY <2>1, HeadTailProperties
    <2>3. QED BY <2>2 DEF P
  <1>3. PartFits(t[1])
    BY <1>1 DEF PartsFit
  <1>4. ASSUME NEW i \in 1..Len(Tail(t)) PROVE PartFits(Tail(t)[i])
    <2>1. i + 1 \in 1..Len(t) /\ Tail(t)[i] = t[i + 1]
      BY <1>1
    <2>2. QED BY <2>1 DEF PartsFit
  <1>5. QED BY <1>2, <1>3, <1>4 DEF PartsFit

\* A batch sent again in parts, before what was to be sent after it.
LEMMA AgainFits ==
    ASSUME InputInv, NEW t \in Seq(AnyPart), t # <<>>, PartsFit(t), Head(t).op = "translate",
           Head(t).of \in Seq(Cues)
    PROVE  PartsFit(Parts("again", RetryBatches(Head(t).of)) \o Tail(t))
  <1> DEFINE b == Head(t).of
             g == RetryBatches(b)
             u == Parts("again", g)
             r == Tail(t)
  <1>1. PartsFit(r) /\ PartFits(Head(t)) /\ r \in Seq(AnyPart)
    BY TailFits, HeadTailProperties
  <1>2. FitsRequest(b) /\ Len(b) <= BatchCues
    BY <1>1 DEF PartFits
  <1>3. g \in Seq(Seq(Cues)) /\ \A i \in 1..Len(g) : Stretch(g[i], b) /\ g[i] # <<>>
    BY RetryBatchesAreAll
  <1>4. ASSUME NEW i \in 1..Len(g) PROVE PartFits(Part("again", g[i]))
    <2>1. g[i] \in Seq(Cues) /\ Stretch(g[i], b) /\ g[i] # <<>> /\ b \in Seq(Cues)
      <3> HIDE DEF g
      <3>1. QED BY <1>3, <1>4, ElementOfSeq
    <2> DEFINE x == g[i]
    <2> HIDE DEF x, b
    <2>2. x \in Seq(Cues) /\ Stretch(x, b) /\ x # <<>> /\ b \in Seq(Cues)
      BY <2>1 DEF x
    <2>3. Len(x) <= Len(b) /\ FitsRequest(x)
      BY <1>2, <2>2, StretchFits
    <2>4. Len(x) \in Nat /\ Len(b) \in Nat /\ BatchCues \in Nat
      BY <2>2, LenProperties, AiAssumption
    <2>5. PartFits(Part("again", x))
      BY <1>2, <2>2, <2>3, <2>4 DEF PartFits, Part
    <2>6. QED BY <2>5 DEF x
  <1>5. PartsFit(u)
    <2> HIDE DEF g
    <2>1. QED BY <1>3, <1>4, PartsOfGroups
  <1>6. u \in Seq(AnyPart)
    <2> HIDE DEF g
    <2>1. u \in Seq([op : {"again"}, of : Seq(Cues)])
      BY <1>3, PartsAreGroups
    <2>2. [op : {"again"}, of : Seq(Cues)] \subseteq AnyPart
      BY DEF AnyPart
    <2> HIDE DEF u
    <2>3. QED BY <2>1, <2>2, SeqMonotonic
  <1> HIDE DEF u, r
  <1>7. /\ Len(u) \in Nat /\ Len(r) \in Nat /\ Len(u \o r) = Len(u) + Len(r)
        /\ \A i \in 1..(Len(u) + Len(r)) : (u \o r)[i] = IF i <= Len(u) THEN u[i] ELSE r[i - Len(u)]
    BY <1>1, <1>6, ConcatProperties, LenProperties
  <1>8. ASSUME NEW i \in 1..Len(u \o r) PROVE PartFits((u \o r)[i])
    <2>1. CASE i <= Len(u)
      <3>1. i \in 1..Len(u)
        BY <1>7, <2>1
      <3>2. QED BY <1>5, <1>7, <2>1, <3>1 DEF PartsFit
    <2>2. CASE ~(i <= Len(u))
      <3>1. i - Len(u) \in 1..Len(r)
        BY <1>7, <2>2
      <3>2. QED BY <1>1, <1>7, <2>2, <3>1 DEF PartsFit
    <2>3. QED BY <2>1, <2>2
  <1>9. PartsFit(u \o r)
    BY <1>8 DEF PartsFit
  <1>10. QED BY <1>9 DEF u, r

LEMMA PartsFitPrimed ==
    ASSUME NEW v \in Workers, size' = size, PartsFit(todo'[v])
    PROVE  PartsFit(todo[v])'
  BY DEF PartsFit, PartFits, FitsRequest, FitsReduce

\* The parts of a step that leaves the input alone: those of one worker are replaced.
LEMMA FitPrimed ==
    ASSUME JInv, FitInv, NEW w \in Workers, NEW t, UNCHANGED inputVars, PartsFit(t),
           todo' = [todo EXCEPT ![w] = t],
           \A v \in Workers : pc'[v] = "sending" => pc[v] = "sending" /\ v # w
    PROVE  FitInv'
  <1>1. size' = size
    BY DEF inputVars
  <1>2. ASSUME NEW v \in Workers PROVE PartsFit(todo'[v])
    BY DEF FitInv, JInv, FunctionsInv
  <1>3. ASSUME NEW v \in Workers PROVE PartsFit(todo[v])'
    BY <1>1, <1>2, PartsFitPrimed
  <1>4. ASSUME NEW v \in Workers, pc'[v] = "sending" PROVE ~Passes(Head(todo[v]))'
    <2>1. pc[v] = "sending" /\ v # w
      BY <1>4
    <2>2. todo'[v] = todo[v]
      BY <2>1 DEF JInv, FunctionsInv
    <2>3. ~Passes(Head(todo[v]))
      BY <2>1 DEF FitInv
    <2>4. QED BY <2>2, <2>3 DEF Passes
  <1>5. QED BY <1>3, <1>4 DEF FitInv

\* The same for a step that leaves the parts alone.
LEMMA FitStays ==
    ASSUME JInv, FitInv, UNCHANGED <<inputVars, todo>>,
           \A v \in Workers : pc'[v] = "sending" => pc[v] = "sending" \/ ~Passes(Head(todo[v]))
    PROVE  FitInv'
  <1>1. size' = size /\ todo' = todo
    BY DEF inputVars
  <1>2. ASSUME NEW v \in Workers PROVE PartsFit(todo[v])'
    <2>1. PartsFit(todo'[v])
      BY <1>1 DEF FitInv
    <2>2. QED BY <1>1, <2>1, PartsFitPrimed
  <1>3. ASSUME NEW v \in Workers, pc'[v] = "sending" PROVE ~Passes(Head(todo[v]))'
    BY <1>1, <1>3 DEF FitInv, Passes
  <1>4. QED BY <1>2, <1>3 DEF FitInv

LEMMA FitInit == Init => FitInv
  BY DEF Init, FitInv, PartsFit

\* The steps that put other parts in place of a worker's.
LEMMA FitReplaced ==
    ASSUME JInv, FitInv, NEW w \in Workers,
           Plan(w) \/ PassOn(w) \/ Accept(w) \/ Reject(w) \/ EndLevel(w)
    PROVE  FitInv'
  <1>1. UNCHANGED inputVars /\ InputInv /\ Job(pc[w], todo[w], out[w], reply[w]) /\ PartsFit(todo[w])
    BY JobOf DEF Plan, PassOn, Accept, Reject, EndLevel, FitInv
  <1>2. todo[w] \in Seq(AnyPart) /\ (pc[w] = "after" => todo[w] # <<>>)
    BY TodoType
  <1>3. \A v \in Workers : pc'[v] = "sending" => pc[v] = "sending" /\ v # w
    BY DEF Plan, PassOn, Accept, Reject, EndLevel, GoTo, JInv, FunctionsInv
  <1>4. ASSUME NEW t, PartsFit(t), todo' = [todo EXCEPT ![w] = t] PROVE FitInv'
    BY <1>1, <1>3, <1>4, FitPrimed
  <1>5. CASE todo' = todo
    <2>1. todo' = [todo EXCEPT ![w] = todo[w]]
      BY <1>5 DEF JInv, FunctionsInv
    <2>2. QED BY <1>1, <1>4, <2>1
  <1>6. CASE Plan(w) /\ todo' # todo
    <2> DEFINE t == IF kind = "translate" THEN Parts("translate", Batches) ELSE Parts("map", Chunks)
    <2>1. ~CueOversize /\ todo' = [todo EXCEPT ![w] = t]
      BY <1>6 DEF Plan
    <2>2. PartsFit(t)
      BY <1>1, <2>1, BatchesFit
    <2> HIDE DEF t
    <2>3. QED BY <1>4, <2>1, <2>2
  <1>7. CASE PassOn(w) \/ Accept(w)
    <2>1. todo' = [todo EXCEPT ![w] = Tail(todo[w])] /\ todo[w] # <<>>
      BY <1>2, <1>7 DEF PassOn, Accept
    <2>2. PartsFit(Tail(todo[w]))
      BY <1>1, <1>2, <2>1, TailFits
    <2>3. QED BY <1>4, <2>1, <2>2
  <1>8. CASE Reject(w) /\ todo' # todo
    <2> DEFINE t == Parts("again", RetryBatches(Head(todo[w]).of)) \o Tail(todo[w])
    <2>1. Head(todo[w]).op = "translate" /\ todo' = [todo EXCEPT ![w] = t] /\ todo[w] # <<>>
      BY <1>2, <1>8 DEF Reject
    <2>2. Head(todo[w]).of \in Seq(Cues)
      <3>1. CASE kind = "translate"
        <4>1. todo[w] \in Seq(TranslateParts)
          BY <1>1, <3>1 DEF Job, TranslateJob
        <4>2. Head(todo[w]) \in TranslateParts
          BY <2>1, <4>1, HeadTailProperties
        <4>3. QED BY <4>2 DEF TranslateParts
      <3>2. CASE kind = "notes"
        <4>1. todo[w] \in Seq(NotesParts)
          BY <1>1, <3>2 DEF Job, NotesJob
        <4>2. Head(todo[w]) \in NotesParts
          BY <2>1, <4>1, HeadTailProperties
        <4>3. QED BY <2>1, <4>2 DEF NotesParts
      <3>3. QED BY <1>1, <3>1, <3>2 DEF InputInv
    <2>3. PartsFit(t)
      BY <1>1, <1>2, <2>1, <2>2, AgainFits
    <2> HIDE DEF t
    <2>4. QED BY <1>4, <2>1, <2>3
  <1>9. CASE EndLevel(w) /\ todo' # todo
    <2>1. kind # "translate" /\ todo' = [todo EXCEPT ![w] = Parts("reduce", ReduceGroups(out[w]))]
      BY <1>9 DEF EndLevel, jobVars
    <2>2. out[w] \in Seq(Sound)
      BY <1>1, <2>1 DEF InputInv, Job, NotesJob
    <2>3. PartsFit(Parts("reduce", ReduceGroups(out[w])))
      BY <2>2, ReduceGroupsFit
    <2>4. QED BY <1>4, <2>1, <2>3
  <1>10. QED BY <1>5, <1>6, <1>7, <1>8, <1>9

LEMMA FitStep == JInv /\ FitInv /\ [Next]_vars => FitInv'
  <1> SUFFICES ASSUME JInv, FitInv, [Next]_vars PROVE FitInv'
    OBVIOUS
  <1>1. CASE UNCHANGED vars
    BY <1>1, FitStays DEF vars, jobVars
  <1>2. CASE Cancel \/ LeaseExpires \/ \E ack \in BOOLEAN : Retry(ack)
    BY <1>2, FitStays DEF Cancel, LeaseExpires, Retry, jobVars
  <1>3. ASSUME NEW w \in Workers, Start(w) \/ Die(w) \/ Claim(w) \/ Handle(w) \/ Exchange(w)
        PROVE  FitInv'
    <2>1. CASE Die(w) \/ Complete(w) \/ Fail(w) \/ Stop(w)
      <3>1. UNCHANGED inputVars /\ Forget(w) /\ (GoTo(w, "idle") \/ GoTo(w, "dead"))
        BY <2>1 DEF Die, Complete, Fail, Stop, Conclude
      <3>2. todo' = [todo EXCEPT ![w] = <<>>] /\ PartsFit(<<>>)
        BY <3>1 DEF Forget, PartsFit
      <3>3. \A v \in Workers : pc'[v] = "sending" => pc[v] = "sending" /\ v # w
        BY <3>1 DEF GoTo, JInv, FunctionsInv
      <3>4. QED BY <3>1, <3>2, <3>3, FitPrimed
    <2>2. CASE Plan(w) \/ PassOn(w) \/ Accept(w) \/ Reject(w) \/ EndLevel(w)
      BY <2>2, FitReplaced
    <2>3. CASE Start(w) \/ Claim(w) \/ Load(w) \/ Reuse(w) \/ Ask(w) \/ Finish(w) \/ Write(w)
      <3>1. UNCHANGED <<inputVars, todo>>
        BY <2>3 DEF Start, Claim, Load, Reuse, Ask, Finish, Write, jobVars
      <3>2. \A v \in Workers : pc'[v] = "sending" => pc[v] = "sending" \/ ~Passes(Head(todo[v]))
        BY <2>3 DEF Start, Claim, Load, Reuse, Ask, Finish, Write, GoTo, JInv, FunctionsInv
      <3>3. QED BY <3>1, <3>2, FitStays
    <2>4. CASE Exchange(w)
      <3>1. pc[w] = "sending" /\ UNCHANGED <<inputVars, todo>>
        BY <2>4 DEF Exchange, NotSent, StatusLost, AnswerLost, ServerError, RateLimited,
                    FormatRejected, Refused, Unusable, Answered, jobVars, callVars
      <3>2. pc' = pc \/ \E q : pc' = [pc EXCEPT ![w] = q]
        BY <2>4 DEF Exchange, NotSent, StatusLost, AnswerLost, ServerError, RateLimited,
                    FormatRejected, Refused, Unusable, Answered, NextAddressOr, GoTo
      <3>3. \A v \in Workers : pc'[v] = "sending" => pc[v] = "sending"
        BY <3>1, <3>2 DEF JInv, FunctionsInv
      <3>4. QED BY <3>1, <3>3, FitStays
    <2>5. QED BY <1>3, <2>1, <2>2, <2>3, <2>4 DEF Handle
  <1>4. QED BY <1>1, <1>2, <1>3 DEF Next

\* For every transcript and every limit: no request is larger than max_request_bytes or asks for
\* more cues than a batch may have, whether it is a batch, a part of one that is sent again, a chunk
\* or a group of notes (_call_batch in translation.py, _call in notes.py).
THEOREM RequestsAlwaysFit == Spec => []RequestsFit
  <1>1. JInv /\ FitInv => RequestsFit
    <2> SUFFICES ASSUME JInv, FitInv, NEW w \in Workers, pc[w] = "sending"
                 PROVE  /\ IF Head(todo[w]).op = "reduce" THEN FitsReduce(Head(todo[w]).of)
                           ELSE FitsRequest(Head(todo[w]).of)
                        /\ Head(todo[w]).op \in {"translate", "again"} => Len(Head(todo[w]).of) <= BatchCues
      BY DEF RequestsFit
    <2>1. PartFits(Head(todo[w]))
      <3>1. todo[w] \in Seq(AnyPart) /\ todo[w] # <<>> /\ PartsFit(todo[w])
        BY TodoType DEF FitInv
      <3>2. QED BY <3>1, TailFits
    <2>2. ~Passes(Head(todo[w]))
      BY DEF FitInv
    <2>3. QED BY <2>1, <2>2 DEF PartFits, Passes
  <1>2. QED BY <1>1, JobsHold, FitInit, FitStep, PTL DEF Spec

-----------------------------------------------------------------------------
(* Charges *)

Statuses == {"queued", "running", "cancel_requested", "canceled", "failed", "completed"}

RowInv ==
    /\ row \in [status : Statuses, attempt : Nat \ {0}, gen : Nat,
                owner : Workers \cup {NoWorker}, live : BOOLEAN, unknown : BOOLEAN]
    /\ row.status \notin {"running", "cancel_requested"} => row.owner = NoWorker

PlacesInv ==
    /\ pc \in [Workers -> Places]
    /\ DOMAIN claim = Workers

\* A request that may have been billed is the business of the worker that will report it, of the
\* user who must acknowledge it, or of the recovery that follows a dead worker.
DoubtInv ==
    /\ doubt # "repaid"
    /\ doubt = "open" => \/ row.status = "failed" /\ row.unknown
                         \/ /\ row.status = "running"
                            /\ \A w \in Workers : ClaimMatches(w) => pc[w] = "in doubt"

\* A transport that has one address to dial.
OneAddress == adapter.pinned => adapter.addresses = 1

\* A call under way is at an address, counted from 1.
Calls == [tries : Nat, compat : BOOLEAN, address : Nat]

CallInv ==
    /\ adapter \in [compat : BOOLEAN, pinned : BOOLEAN, addresses : Nat \ {0}]
    /\ call \in [Workers -> Calls]
    /\ \A w \in Workers : pc[w] = "sending" => call[w].address # 0

PayInv == RowInv /\ PlacesInv /\ CallInv /\ (OneAddress => DoubtInv)

\* A worker that holds the run and is not in doubt: nothing is open.
LEMMA Undoubted ==
    ASSUME DoubtInv, NEW w \in Workers, ClaimMatches(w), pc[w] # "in doubt"
    PROVE  doubt # "open"
  BY DEF DoubtInv, ClaimMatches

\* A worker that is not in doubt, or stays so, goes to another place.
LEMMA DoubtStays ==
    ASSUME PlacesInv, DoubtInv, NEW w \in Workers, NEW q, UNCHANGED <<row, claim, doubt>>,
           pc' = [pc EXCEPT ![w] = q], pc[w] # "in doubt" \/ q = "in doubt"
    PROVE  DoubtInv'
  <1>1. \A v \in Workers : ClaimMatches(v)' <=> ClaimMatches(v)
    BY DEF ClaimMatches, OwnsLease
  <1>2. \A v \in Workers : pc[v] = "in doubt" => pc'[v] = "in doubt"
    BY DEF PlacesInv
  <1>3. doubt' = doubt /\ row' = row
    OBVIOUS
  <1>4. QED BY <1>1, <1>2, <1>3 DEF DoubtInv

\* A handler that has ended holds no claim.
LEMMA DoubtLeft ==
    ASSUME RowInv, PlacesInv, DoubtInv, NEW w \in Workers, NEW q, row' = row, doubt' = doubt,
           Forget(w), GoTo(w, q)
    PROVE  DoubtInv'
  <1>1. ASSUME NEW v \in Workers, ClaimMatches(v)' PROVE ClaimMatches(v) /\ pc'[v] = pc[v]
    <2>1. claim' = [claim EXCEPT ![w] = [attempt |-> 0, gen |-> 0]] /\ pc' = [pc EXCEPT ![w] = q]
      BY DEF Forget, GoTo
    <2>2. row.attempt = claim'[v].attempt /\ row.attempt # 0
      BY <1>1 DEF ClaimMatches, OwnsLease, RowInv
    <2>3. v # w
      BY <2>1, <2>2 DEF PlacesInv
    <2>4. claim'[v] = claim[v] /\ pc'[v] = pc[v]
      BY <2>1, <2>3 DEF PlacesInv
    <2>5. QED BY <1>1, <2>4 DEF ClaimMatches, OwnsLease
  <1>2. QED BY <1>1 DEF DoubtInv

\* A body is delivered by a worker that is not in doubt; if its answer is lost it is from now on.
LEMMA DoubtOpens ==
    ASSUME RowInv, PlacesInv, DoubtInv, NEW w \in Workers, NEW q, NEW lost \in BOOLEAN,
           pc[w] = "sending", UNCHANGED <<row, claim>>, Delivered(w, lost),
           pc' = [pc EXCEPT ![w] = q], lost => q = "in doubt"
    PROVE  DoubtInv'
  <1>1. CASE ClaimMatches(w)
    <2>1. doubt # "open" /\ doubt # "repaid"
      BY <1>1, Undoubted DEF DoubtInv
    <2>2. doubt' = IF lost THEN "open" ELSE doubt
      BY <1>1, <2>1 DEF Delivered
    <2>3. ASSUME lost PROVE /\ row'.status = "running"
                            /\ \A v \in Workers : ClaimMatches(v)' => pc'[v] = "in doubt"
      <3>1. row'.status = "running" /\ row.owner = w /\ row' = row
        BY <1>1 DEF ClaimMatches, OwnsLease
      <3>2. ASSUME NEW v \in Workers, ClaimMatches(v)' PROVE v = w
        BY <3>1, <3>2 DEF ClaimMatches, OwnsLease
      <3>3. pc'[w] = "in doubt"
        BY <2>3 DEF PlacesInv
      <3>4. QED BY <3>1, <3>2, <3>3
    <2>4. QED BY <2>1, <2>2, <2>3 DEF DoubtInv
  <1>2. CASE ~ClaimMatches(w)
    <2>1. doubt' = doubt
      BY <1>2 DEF Delivered
    <2>2. QED BY <2>1, DoubtStays
  <1>3. QED BY <1>1, <1>2

\* A row without a lease.
LEMMA NoLeaseIs ==
    ASSUME RowInv
    PROVE  /\ NoLease.attempt = row.attempt /\ NoLease.gen = row.gen
           /\ \A s \in Statuses, a \in Nat \ {0}, g \in Nat, u \in BOOLEAN :
                LET r == [NoLease EXCEPT !.status = s, !.attempt = a, !.gen = g, !.unknown = u]
                IN  /\ r \in [status : Statuses, attempt : Nat \ {0}, gen : Nat,
                              owner : Workers \cup {NoWorker}, live : BOOLEAN, unknown : BOOLEAN]
                    /\ r.owner = NoWorker
  BY DEF RowInv, NoLease

\* The steps that write the row.
LEMMA RowSteps ==
    ASSUME PayInv, [Next]_vars
    PROVE  RowInv' /\ PlacesInv'
  <1>1. RowInv /\ PlacesInv /\ NoWorker \notin Workers
    BY AiAssumption DEF PayInv
  <1>2. CASE UNCHANGED vars
    BY <1>1, <1>2 DEF vars, callVars, RowInv, PlacesInv
  <1>3. CASE Cancel
    BY <1>1, <1>3 DEF Cancel, callVars, RowInv, PlacesInv, Statuses
  <1>4. CASE \E ack \in BOOLEAN : Retry(ack)
    <2>1. row' = [NoLease EXCEPT !.status = "queued", !.attempt = row.attempt + 1, !.gen = 0,
                                 !.unknown = FALSE]
      BY <1>1, <1>4, NoLeaseIs DEF Retry
    <2>2. RowInv'
      <3>1. row.attempt + 1 \in Nat \ {0} /\ "queued" \in Statuses
        BY <1>1 DEF RowInv, Statuses
      <3>2. /\ row' \in [status : Statuses, attempt : Nat \ {0}, gen : Nat,
                         owner : Workers \cup {NoWorker}, live : BOOLEAN, unknown : BOOLEAN]
            /\ row'.owner = NoWorker
        BY <1>1, <2>1, <3>1, NoLeaseIs
      <3>3. QED BY <3>2 DEF RowInv
    <2>3. PlacesInv'
      BY <1>1, <1>4 DEF Retry, callVars, PlacesInv
    <2>4. QED BY <2>2, <2>3
  <1>5. CASE LeaseExpires
    BY <1>1, <1>5 DEF LeaseExpires, callVars, RowInv, PlacesInv, Statuses
  <1>6. ASSUME NEW w \in Workers, Start(w) \/ Die(w) \/ Claim(w) \/ Handle(w) \/ Exchange(w)
        PROVE  RowInv' /\ PlacesInv'
    <2>1. CASE Start(w)
      <3>1. PlacesInv'
        BY <1>1, <2>1 DEF Start, GoTo, callVars, PlacesInv, Places
      <3>2. RowInv'
        <4>1. CASE row' = row
          BY <1>1, <4>1 DEF RowInv
        <4>2. CASE row' = [NoLease EXCEPT !.status = IF @ = "running" THEN "queued" ELSE "canceled",
                                          !.gen = @ + 1]
          <5> DEFINE s == IF row.status = "running" THEN "queued" ELSE "canceled"
                     N == NoLease
          <5>1. /\ N \in [status : Statuses, attempt : Nat \ {0}, gen : Nat,
                          owner : Workers \cup {NoWorker}, live : BOOLEAN, unknown : BOOLEAN]
                /\ N.status = row.status /\ N.owner = NoWorker
            BY <1>1 DEF NoLease, RowInv
          <5>2. row' = [N EXCEPT !.status = IF @ = "running" THEN "queued" ELSE "canceled", !.gen = @ + 1]
            BY <4>2
          <5> HIDE DEF N
          <5>3. row' = [N EXCEPT !.status = s, !.gen = N.gen + 1]
            BY <5>1, <5>2
          <5>4. s \in Statuses \ {"running", "cancel_requested"} /\ N.gen + 1 \in Nat
            BY <5>1 DEF Statuses
          <5> HIDE DEF s
          <5>5. QED BY <5>1, <5>3, <5>4 DEF RowInv
        <4>3. QED BY <2>1, <4>1, <4>2 DEF Start
      <3>3. QED BY <3>1, <3>2
    <2>2. CASE Die(w)
      BY <1>1, <2>2 DEF Die, Forget, GoTo, RowInv, PlacesInv, Places
    <2>3. CASE Claim(w)
      <3>1. PlacesInv'
        BY <1>1, <2>3 DEF Claim, GoTo, callVars, PlacesInv, Places
      <3>2. RowInv'
        BY <1>1, <2>3 DEF Claim, RowInv, Statuses
      <3>3. QED BY <3>1, <3>2
    <2>4. CASE Complete(w) \/ Fail(w) \/ Stop(w)
      <3>1. Forget(w) /\ GoTo(w, "idle")
        BY <2>4 DEF Complete, Fail, Stop, Conclude
      <3>2. PlacesInv'
        BY <1>1, <3>1 DEF Forget, GoTo, PlacesInv, Places
      <3>3. CASE row' = row
        BY <1>1, <3>2, <3>3 DEF RowInv
      <3>4. ASSUME NEW s \in Statuses \ {"running", "cancel_requested"}, NEW u \in BOOLEAN,
                   row' = [NoLease EXCEPT !.status = s, !.unknown = u] \/ row' = [NoLease EXCEPT !.status = s]
            PROVE  RowInv'
        BY <1>1, <3>4 DEF NoLease, RowInv, Statuses
      <3>5. CASE Complete(w)
        <4>1. row' = row \/ row' = [NoLease EXCEPT !.status = "completed", !.unknown = FALSE]
          BY <3>5 DEF Complete, Conclude
        <4>2. QED BY <3>2, <3>3, <3>4, <4>1 DEF Statuses
      <3>6. CASE Fail(w)
        <4>1. row' = row \/ row' = [NoLease EXCEPT !.status = "failed", !.unknown = (pc[w] = "in doubt")]
          BY <3>6 DEF Fail, Conclude
        <4>2. (pc[w] = "in doubt") \in BOOLEAN /\ "failed" \in Statuses \ {"running", "cancel_requested"}
          BY DEF Statuses
        <4>3. QED BY <3>2, <3>3, <3>4, <4>1, <4>2
      <3>7. CASE Stop(w)
        <4>1. row' = row \/ row' = [NoLease EXCEPT !.status = "canceled"]
          BY <3>7 DEF Stop
        <4>2. QED BY <3>2, <3>3, <3>4, <4>1 DEF Statuses
      <3>8. QED BY <2>4, <3>5, <3>6, <3>7
    <2>5. CASE \/ Load(w) \/ Reuse(w) \/ Plan(w) \/ PassOn(w) \/ Ask(w) \/ Accept(w) \/ Reject(w)
              \/ EndLevel(w) \/ Finish(w) \/ Write(w)
      <3>1. row' = row /\ claim' = claim
        BY <2>5 DEF Load, Reuse, Plan, PassOn, Ask, Accept, Reject, EndLevel, Finish, Write
      <3>2. pc' = pc \/ \E q \in Places : pc' = [pc EXCEPT ![w] = q]
        BY <2>5 DEF Load, Reuse, Plan, PassOn, Ask, Accept, Reject, EndLevel, Finish, Write, GoTo, Places
      <3>3. QED BY <1>1, <3>1, <3>2 DEF RowInv, PlacesInv
    <2>6. CASE Exchange(w)
      <3>1. row' = row /\ claim' = claim
        BY <2>6 DEF Exchange, NotSent, StatusLost, AnswerLost, ServerError, RateLimited,
                    FormatRejected, Refused, Unusable, Answered
      <3>2. pc' = pc \/ \E q \in Places : pc' = [pc EXCEPT ![w] = q]
        BY <2>6 DEF Exchange, NotSent, StatusLost, AnswerLost, ServerError, RateLimited,
                    FormatRejected, Refused, Unusable, Answered, NextAddressOr, GoTo, Places
      <3>3. QED BY <1>1, <3>1, <3>2 DEF RowInv, PlacesInv
    <2>7. QED BY <1>6, <2>1, <2>2, <2>3, <2>4, <2>5, <2>6 DEF Handle
  <1>7. QED BY <1>2, <1>3, <1>4, <1>5, <1>6 DEF Next

LEMMA CallFields ==
    ASSUME NEW x \in Calls
    PROVE  /\ x.tries \in Nat /\ x.compat \in BOOLEAN /\ x.address + 1 \in Nat \ {0}
           /\ [[x EXCEPT !.tries = 1] EXCEPT !.address = 1]
                = [tries |-> 1, compat |-> x.compat, address |-> 1]
           /\ [x EXCEPT !.address = x.address + 1]
                = [tries |-> x.tries, compat |-> x.compat, address |-> x.address + 1]
  <1>1. x.tries \in Nat /\ x.compat \in BOOLEAN /\ x.address \in Nat
    BY DEF Calls
  <1>2. [x EXCEPT !.tries = 1] = [tries |-> 1, compat |-> x.compat, address |-> x.address]
    BY DEF Calls
  <1>3. [[tries |-> 1, compat |-> x.compat, address |-> x.address] EXCEPT !.address = 1]
          = [tries |-> 1, compat |-> x.compat, address |-> 1]
    OBVIOUS
  <1>4. [x EXCEPT !.address = x.address + 1]
          = [tries |-> x.tries, compat |-> x.compat, address |-> x.address + 1]
    BY DEF Calls
  <1>5. x.address + 1 \in Nat \ {0}
    BY <1>1
  <1>6. [[x EXCEPT !.tries = 1] EXCEPT !.address = 1]
          = [tries |-> 1, compat |-> x.compat, address |-> 1]
    BY <1>2, <1>3, Zenon
  <1>7. QED BY <1>1, <1>4, <1>5, <1>6, Zenon

\* Every step leaves a call under way at an address.
LEMMA AddressSteps ==
    ASSUME PayInv, [Next]_vars
    PROVE  CallInv'
  <1>1. PlacesInv /\ CallInv
    BY DEF PayInv
  <1>2. adapter' = adapter
    BY DEF Next, vars, inputVars, Cancel, Retry, LeaseExpires, Start, Die, Claim, Handle, Load, Reuse,
           Plan, PassOn, Ask, Accept, Reject, EndLevel, Finish, Write, Complete, Fail, Stop, Conclude,
           Exchange, NotSent, StatusLost, AnswerLost, ServerError, RateLimited, FormatRejected,
           Refused, Unusable, Answered
  <1>3. CASE pc' = pc /\ call' = call
    BY <1>1, <1>2, <1>3 DEF CallInv
  <1>4. ASSUME NEW w \in Workers, NEW q, NEW c \in Calls, q = "sending" => c.address # 0,
               pc' = [pc EXCEPT ![w] = q], call' = [call EXCEPT ![w] = c]
        PROVE  CallInv'
    BY <1>1, <1>2, <1>4 DEF CallInv, PlacesInv
  <1>5. ASSUME NEW w \in Workers, NEW q, q # "sending", pc' = [pc EXCEPT ![w] = q], call' = call
        PROVE  CallInv'
    BY <1>1, <1>2, <1>5 DEF CallInv, PlacesInv
  <1>6. CASE UNCHANGED vars
    BY <1>3, <1>6 DEF vars, callVars
  <1>7. CASE Cancel \/ LeaseExpires \/ \E ack \in BOOLEAN : Retry(ack)
    BY <1>3, <1>7 DEF Cancel, LeaseExpires, Retry, callVars
  <1>8. ASSUME NEW w \in Workers, Start(w) \/ Die(w) \/ Claim(w) \/ Handle(w) \/ Exchange(w)
        PROVE  CallInv'
    <2>0. call[w] \in Calls /\ adapter.compat \in BOOLEAN /\ adapter.addresses \in Nat
      BY <1>1 DEF CallInv
    <2>1. CASE Die(w) \/ Complete(w) \/ Fail(w) \/ Stop(w)
      <3>1. PICK q \in {"idle", "dead"} : Forget(w) /\ GoTo(w, q)
        BY <2>1 DEF Die, Complete, Fail, Stop, Conclude
      <3> DEFINE c == [tries |-> 0, compat |-> FALSE, address |-> 0]
      <3>2. c \in Calls /\ call' = [call EXCEPT ![w] = c] /\ pc' = [pc EXCEPT ![w] = q]
        BY <3>1 DEF Forget, GoTo, Calls
      <3> HIDE DEF c
      <3>3. QED BY <1>4, <3>2
    <2>2. CASE PassOn(w)
      BY <1>3, <2>2 DEF PassOn, callVars
    <2>3. CASE \/ Start(w) \/ Claim(w) \/ Load(w) \/ Reuse(w) \/ Plan(w) \/ Accept(w) \/ Reject(w)
              \/ EndLevel(w) \/ Finish(w) \/ Write(w)
      <3>1. call' = call
        BY <2>3 DEF Start, Claim, Load, Reuse, Plan, Accept, Reject, EndLevel, Finish, Write, callVars
      <3>2. pc' = pc \/ \E q \in Places \ {"sending"} : pc' = [pc EXCEPT ![w] = q]
        BY <2>3 DEF Start, Claim, Load, Reuse, Plan, Accept, Reject, EndLevel, Finish, Write, GoTo, Places
      <3>3. QED BY <1>3, <1>5, <3>1, <3>2
    <2>4. CASE Ask(w)
      <3> DEFINE c == [tries |-> 0, compat |-> adapter.compat, address |-> 1]
      <3>1. /\ c \in Calls /\ c.address # 0
            /\ call' = [call EXCEPT ![w] = c] /\ pc' = [pc EXCEPT ![w] = "sending"]
        BY <2>0, <2>4 DEF Ask, GoTo, Calls
      <3> HIDE DEF c
      <3>2. QED BY <1>4, <3>1
    <2>5. CASE Exchange(w)
      <3>1. pc[w] = "sending" /\ call[w].address # 0
        BY <1>1, <2>5 DEF CallInv, Exchange, NotSent, StatusLost, AnswerLost, ServerError, RateLimited,
                          FormatRejected, Refused, Unusable, Answered
      <3>2. ASSUME NEW c \in Calls, c.address # 0, pc' = pc, call' = [call EXCEPT ![w] = c]
            PROVE  CallInv'
        <4>1. pc' = [pc EXCEPT ![w] = "sending"]
          BY <1>1, <3>1, <3>2 DEF PlacesInv
        <4>2. QED BY <1>4, <3>2, <4>1
      <3>3. CASE RateLimited(w)
        <4> DEFINE c == [tries |-> 1, compat |-> call[w].compat, address |-> 1]
        <4>1. c \in Calls /\ c.address # 0 /\ pc' = pc
          BY <2>0, <3>3 DEF RateLimited, Calls
        <4>2. call' = [call EXCEPT ![w] = c]
          <5>1. DOMAIN call = Workers /\ call \in [Workers -> Calls]
            BY <1>1 DEF CallInv
          <5>2. call' = [call EXCEPT ![w] = [[call[w] EXCEPT !.tries = 1] EXCEPT !.address = 1]]
            BY <3>3, <5>1 DEF RateLimited
          <5>3. [[call[w] EXCEPT !.tries = 1] EXCEPT !.address = 1] = c
            BY <2>0, CallFields
          <5>4. QED BY <5>2, <5>3
        <4> HIDE DEF c
        <4>3. QED BY <3>2, <4>1, <4>2
      <3>4. CASE FormatRejected(w)
        <4> DEFINE c == [tries |-> 0, compat |-> FALSE, address |-> 1]
        <4>1. c \in Calls /\ c.address # 0 /\ pc' = pc /\ call' = [call EXCEPT ![w] = c]
          BY <3>4 DEF FormatRejected, Calls
        <4> HIDE DEF c
        <4>2. QED BY <3>2, <4>1
      <3>5. ASSUME NEW q \in {"in doubt", "failing"}, NextAddressOr(w, q)
            PROVE  CallInv'
        <4>1. CASE GoTo(w, q) /\ UNCHANGED call
          BY <1>5, <4>1 DEF GoTo
        <4>2. CASE call' = [call EXCEPT ![w].address = @ + 1] /\ UNCHANGED pc
          <5> DEFINE c == [tries |-> call[w].tries, compat |-> call[w].compat, address |-> call[w].address + 1]
          <5>1. c \in Calls /\ c.address # 0 /\ pc' = pc
            <6>1. /\ call[w].tries \in Nat /\ call[w].compat \in BOOLEAN
                  /\ call[w].address + 1 \in Nat \ {0}
              BY <2>0, CallFields
            <6>2. QED BY <4>2, <6>1 DEF Calls
          <5>2. call' = [call EXCEPT ![w] = c]
            <6>1. call' = [call EXCEPT ![w] = [call[w] EXCEPT !.address = call[w].address + 1]]
              BY <1>1, <4>2 DEF CallInv
            <6>2. [call[w] EXCEPT !.address = call[w].address + 1] = c
              BY <2>0, CallFields
            <6>3. QED BY <6>1, <6>2
          <5> HIDE DEF c
          <5>3. QED BY <3>2, <5>1, <5>2
        <4>3. QED BY <3>5, <4>1, <4>2 DEF NextAddressOr
      <3>6. CASE NotSent(w) \/ StatusLost(w)
        BY <3>5, <3>6 DEF NotSent, StatusLost
      <3>7. CASE AnswerLost(w) \/ ServerError(w) \/ Refused(w) \/ Unusable(w)
        <4>1. call' = call /\ \E q \in {"in doubt", "failing"} : pc' = [pc EXCEPT ![w] = q]
          BY <3>7 DEF AnswerLost, ServerError, Refused, Unusable, GoTo, callVars
        <4>2. QED BY <1>5, <4>1
      <3>8. CASE Answered(w)
        <4> DEFINE c == [tries |-> 0, compat |-> FALSE, address |-> 0]
        <4>1. c \in Calls /\ call' = [call EXCEPT ![w] = c] /\ pc' = [pc EXCEPT ![w] = "after"]
          BY <3>8 DEF Answered, GoTo, Calls
        <4> HIDE DEF c
        <4>2. QED BY <1>4, <4>1
      <3>9. QED BY <2>5, <3>3, <3>4, <3>6, <3>7, <3>8 DEF Exchange
    <2>6. QED BY <1>8, <2>1, <2>2, <2>3, <2>4, <2>5 DEF Handle
  <1>9. QED BY <1>6, <1>7, <1>8 DEF Next

\* Every step of a stage whose transport has one address keeps the charges in order.
LEMMA DoubtSteps ==
    ASSUME PayInv, OneAddress, [Next]_vars
    PROVE  DoubtInv'
  <1>1. RowInv /\ PlacesInv /\ CallInv /\ DoubtInv /\ NoWorker \notin Workers
    BY AiAssumption DEF PayInv
  <1>2. CASE UNCHANGED vars
    BY <1>1, <1>2 DEF vars, DoubtInv, ClaimMatches, OwnsLease
  <1>3. CASE Cancel
    BY <1>3 DEF Cancel, DoubtInv
  <1>4. ASSUME NEW ack \in BOOLEAN, Retry(ack) PROVE DoubtInv'
    <2>1. doubt = "open" => ack
      BY <1>1, <1>4 DEF Retry, DoubtInv
    <2>2. doubt' # "open" /\ doubt' # "repaid"
      BY <1>1, <1>4, <2>1 DEF Retry, DoubtInv
    <2>3. QED BY <2>2 DEF DoubtInv
  <1>5. CASE LeaseExpires
    <2>1. /\ doubt' = doubt /\ row'.status = row.status /\ row'.unknown = row.unknown /\ ~row'.live
          /\ row.status # "failed"
      BY <1>1, <1>5 DEF LeaseExpires, RowInv
    <2>2. \A w \in Workers : ~ClaimMatches(w)'
      BY <2>1 DEF ClaimMatches, OwnsLease
    <2>3. QED BY <1>1, <2>1, <2>2 DEF DoubtInv
  <1>6. ASSUME NEW w \in Workers, Start(w) \/ Die(w) \/ Claim(w) \/ Handle(w) \/ Exchange(w)
        PROVE  DoubtInv'
    <2>1. CASE Start(w)
      <3>1. CASE doubt' = "none"
        BY <3>1 DEF DoubtInv
      <3>2. CASE row' = row /\ doubt' = doubt
        <4>1. UNCHANGED <<row, claim, doubt>> /\ pc' = [pc EXCEPT ![w] = "idle"] /\ pc[w] # "in doubt"
          BY <2>1, <3>2 DEF Start, GoTo
        <4>2. QED BY <1>1, <4>1, DoubtStays
      <3>3. QED BY <2>1, <3>1, <3>2 DEF Start
    <2>2. CASE Die(w)
      BY <1>1, <2>2, DoubtLeft DEF Die
    <2>3. CASE Claim(w)
      BY <1>1, <2>3 DEF Claim, DoubtInv
    <2>4. CASE Complete(w) \/ Fail(w) \/ Stop(w)
      <3>1. Forget(w) /\ GoTo(w, "idle") /\ doubt' = doubt
        BY <2>4 DEF Complete, Fail, Stop, Conclude
      <3>2. CASE row' = row
        BY <1>1, <3>1, <3>2, DoubtLeft
      <3>3. CASE doubt # "open"
        BY <1>1, <3>1, <3>3 DEF DoubtInv
      <3>4. CASE Complete(w)
        <4>1. row' # row => ClaimMatches(w) /\ pc[w] # "in doubt"
          BY <3>4 DEF Complete, Conclude
        <4>2. QED BY <1>1, <3>2, <3>3, <4>1, Undoubted
      <3>5. CASE Fail(w)
        <4>1. CASE pc[w] = "in doubt" /\ ClaimMatches(w)
          <5>1. row' = [NoLease EXCEPT !.status = "failed", !.unknown = TRUE]
            BY <3>5, <4>1 DEF Fail, Conclude
          <5>2. row'.status = "failed" /\ row'.unknown
            BY <1>1, <5>1 DEF NoLease, RowInv
          <5>3. QED BY <1>1, <3>1, <5>2 DEF DoubtInv
        <4>2. CASE ~ClaimMatches(w)
          <5>1. row' = row
            BY <3>5, <4>2 DEF Fail, Conclude
          <5>2. QED BY <3>2, <5>1
        <4>3. CASE pc[w] # "in doubt" /\ ClaimMatches(w)
          BY <1>1, <3>3, <4>3, Undoubted
        <4>4. QED BY <4>1, <4>2, <4>3
      <3>6. CASE Stop(w)
        <4>1. row' # row => OwnsLease(w) /\ ~ClaimMatches(w)
          BY <3>6 DEF Stop
        <4>2. row' # row => row.status # "running" /\ row.status # "failed"
          <5>1. ASSUME row.status = "failed" PROVE ~OwnsLease(w)
            BY <1>1, <5>1 DEF RowInv, OwnsLease
          <5>2. QED BY <4>1, <5>1 DEF ClaimMatches
        <4>3. row' # row => doubt # "open"
          BY <1>1, <4>2 DEF DoubtInv
        <4>4. QED BY <3>2, <3>3, <4>3
      <3>7. QED BY <2>4, <3>4, <3>5, <3>6
    <2>5. CASE \/ Load(w) \/ Reuse(w) \/ Plan(w) \/ PassOn(w) \/ Ask(w) \/ Accept(w) \/ Reject(w)
              \/ EndLevel(w) \/ Finish(w) \/ Write(w)
      <3>1. UNCHANGED <<row, claim, doubt>> /\ pc[w] # "in doubt"
        BY <2>5 DEF Load, Reuse, Plan, PassOn, Ask, Accept, Reject, EndLevel, Finish, Write
      <3>2. \E q : pc' = [pc EXCEPT ![w] = q]
        <4>1. pc' = pc \/ \E q : pc' = [pc EXCEPT ![w] = q]
          BY <2>5 DEF Load, Reuse, Plan, PassOn, Ask, Accept, Reject, EndLevel, Finish, Write, GoTo
        <4>2. pc = [pc EXCEPT ![w] = pc[w]]
          BY <1>1 DEF PlacesInv
        <4>3. QED BY <4>1, <4>2
      <3>3. QED BY <1>1, <3>1, <3>2, DoubtStays
    <2>6. CASE Exchange(w)
      <3>1. pc[w] = "sending" /\ UNCHANGED <<row, claim>>
        BY <2>6 DEF Exchange, NotSent, StatusLost, AnswerLost, ServerError, RateLimited,
                    FormatRejected, Refused, Unusable, Answered
      <3>2. ASSUME NEW q, NextAddressOr(w, q) PROVE pc' = [pc EXCEPT ![w] = q]
        <4>1. ~(adapter.pinned /\ call[w].address < adapter.addresses)
          <5>1. call[w].address \in Nat /\ call[w].address # 0
            BY <1>1, <3>1 DEF CallInv, Calls
          <5>2. QED BY <5>1 DEF OneAddress
        <4>2. QED BY <3>2, <4>1 DEF NextAddressOr, GoTo
      <3>3. CASE NotSent(w)
        <4>1. \E q : pc' = [pc EXCEPT ![w] = q]
          BY <3>2, <3>3 DEF NotSent
        <4>2. doubt' = doubt
          BY <3>3 DEF NotSent
        <4>3. QED BY <1>1, <3>1, <4>1, <4>2, DoubtStays
      <3>4. CASE StatusLost(w) \/ AnswerLost(w) \/ ServerError(w)
        <4>1. pc' = [pc EXCEPT ![w] = "in doubt"] /\ Delivered(w, TRUE)
          BY <3>2, <3>4 DEF StatusLost, AnswerLost, ServerError, GoTo
        <4>2. QED BY <1>1, <3>1, <4>1, DoubtOpens
      <3>5. CASE RateLimited(w) \/ FormatRejected(w)
        <4>1. pc' = [pc EXCEPT ![w] = "sending"] /\ doubt' = doubt
          BY <1>1, <3>1, <3>5 DEF RateLimited, FormatRejected, PlacesInv
        <4>2. QED BY <1>1, <3>1, <4>1, DoubtStays
      <3>6. CASE Refused(w)
        <4>1. pc' = [pc EXCEPT ![w] = "failing"] /\ doubt' = doubt
          BY <3>6 DEF Refused, GoTo
        <4>2. QED BY <1>1, <3>1, <4>1, DoubtStays
      <3>7. CASE Unusable(w) \/ Answered(w)
        <4>1. Delivered(w, FALSE) /\ \E q : pc' = [pc EXCEPT ![w] = q]
          BY <3>7 DEF Unusable, Answered, GoTo
        <4>2. QED BY <1>1, <3>1, <4>1, DoubtOpens
      <3>8. QED BY <2>6, <3>3, <3>4, <3>5, <3>6, <3>7 DEF Exchange
    <2>7. QED BY <1>6, <2>1, <2>2, <2>3, <2>4, <2>5, <2>6 DEF Handle
  <1>7. QED BY <1>2, <1>3, <1>4, <1>5, <1>6 DEF Next

LEMMA ChargesInit == Init => PayInv
  <1> SUFFICES ASSUME Init PROVE PayInv
    OBVIOUS
  <1>1. RowInv
    BY AiAssumption DEF Init, RowInv, Statuses
  <1>2. PlacesInv
    BY DEF Init, PlacesInv, Places
  <1>3. CallInv
    <2>1. adapter \in [compat : BOOLEAN, pinned : BOOLEAN, addresses : Nat \ {0}]
      BY AiAssumption DEF Init
    <2>2. QED BY <2>1 DEF Init, CallInv, Calls
  <1>4. DoubtInv
    BY DEF Init, DoubtInv
  <1>5. QED BY <1>1, <1>2, <1>3, <1>4 DEF PayInv

LEMMA ChargesStep == PayInv /\ [Next]_vars => PayInv'
  <1> SUFFICES ASSUME PayInv, [Next]_vars PROVE PayInv'
    OBVIOUS
  <1>1. RowInv' /\ PlacesInv' /\ CallInv'
    BY RowSteps, AddressSteps
  <1>2. OneAddress' <=> OneAddress
    <2>1. adapter' = adapter
      BY DEF Next, vars, inputVars, Cancel, Retry, LeaseExpires, Start, Die, Claim, Handle, Load, Reuse,
             Plan, PassOn, Ask, Accept, Reject, EndLevel, Finish, Write, Complete, Fail, Stop, Conclude,
             Exchange, NotSent, StatusLost, AnswerLost, ServerError, RateLimited, FormatRejected,
             Refused, Unusable, Answered
    <2>2. QED BY <2>1 DEF OneAddress
  <1>3. OneAddress => DoubtInv'
    BY DoubtSteps
  <1>4. QED BY <1>1, <1>2, <1>3 DEF PayInv

\* With any number of workers, crashes, retries and lost answers: a request that may have been
\* billed and was never answered is not sent again unasked, as long as the transport of the profile
\* dials one address (chat.py, provider_chat.py, ai_stages.py; platform_transport.py with several
\* addresses is the exception).
THEOREM ChargesAreAsked == Spec => [](OneAddress => NeverPaidTwiceUnasked)
  <1>1. PayInv => (OneAddress => NeverPaidTwiceUnasked)
    BY DEF PayInv, DoubtInv, NeverPaidTwiceUnasked
  <1>2. QED BY <1>1, ChargesInit, ChargesStep, PTL DEF Spec

-----------------------------------------------------------------------------
(* Types *)

Started == {w \in Workers : pc[w] # "off"}

\* A recovery takes a worker that has not run yet, so a row sees no more of them than were started.
RowBounds ==
    /\ attempts \in Nat \ {0} /\ row.attempt <= attempts
    /\ row.gen <= Cardinality(Started)
    /\ row.live => row.owner # NoWorker

HandInv ==
    /\ \A w \in Workers : reply[w] # NoReply <=> pc[w] = "after"
    /\ note \in Nat

LoopBounds ==
    /\ DOMAIN level = Workers
    /\ \A w \in Workers : /\ level[w].depth \in 0..MaxLevels
                         /\ call[w].address <= adapter.addresses

\* Nobody is unstarted, and the number of those started only grows.
LEMMA StartedGrows ==
    ASSUME PlacesInv, [Next]_vars
    PROVE  /\ Started \subseteq Started'
           /\ Started \in SUBSET Workers /\ Started' \in SUBSET Workers
  <1>1. \/ pc' = pc
        \/ \E w \in Workers, q \in Places \ {"off"} : pc' = [pc EXCEPT ![w] = q]
    <2>1. CASE UNCHANGED vars \/ Cancel \/ LeaseExpires \/ \E ack \in BOOLEAN : Retry(ack)
      BY <2>1 DEF vars, Cancel, LeaseExpires, Retry
    <2>2. ASSUME NEW w \in Workers, Start(w) \/ Die(w) \/ Claim(w)
          PROVE  \E q \in Places \ {"off"} : pc' = [pc EXCEPT ![w] = q]
      BY <2>2 DEF Start, Die, Claim, GoTo, Places
    <2>3. ASSUME NEW w \in Workers, Handle(w)
          PROVE  pc' = pc \/ \E q \in Places \ {"off"} : pc' = [pc EXCEPT ![w] = q]
      BY <2>3 DEF Handle, Load, Reuse, Plan, PassOn, Ask, Accept, Reject, EndLevel, Finish, Write,
                  Complete, Fail, Stop, Conclude, GoTo, Places
    <2>4. ASSUME NEW w \in Workers, Exchange(w)
          PROVE  pc' = pc \/ \E q \in Places \ {"off"} : pc' = [pc EXCEPT ![w] = q]
      BY <2>4 DEF Exchange, NotSent, StatusLost, AnswerLost, ServerError, RateLimited,
                  FormatRejected, Refused, Unusable, Answered, NextAddressOr, GoTo, Places
    <2>5. QED BY <2>1, <2>2, <2>3, <2>4 DEF Next
  <1>2. QED BY <1>1 DEF Started, PlacesInv

LEMMA StartedCount ==
    ASSUME PlacesInv, [Next]_vars
    PROVE  /\ Cardinality(Started) \in Nat /\ Cardinality(Started') \in Nat
           /\ Cardinality(Started) <= Cardinality(Started')
           /\ \A w \in Workers : Start(w) => Cardinality(Started') = Cardinality(Started) + 1
  <1>1. IsFiniteSet(Workers)
    BY AiAssumption
  <1>2. IsFiniteSet(Started) /\ IsFiniteSet(Started')
    BY <1>1, StartedGrows, FS_Subset
  <1>3. Cardinality(Started) \in Nat /\ Cardinality(Started') \in Nat
    BY <1>2, FS_CardinalityType
  <1>4. Cardinality(Started) <= Cardinality(Started')
    BY <1>2, StartedGrows, FS_Subset
  <1>5. ASSUME NEW w \in Workers, Start(w)
        PROVE  Cardinality(Started') = Cardinality(Started) + 1
    <2>1. w \notin Started /\ Started' = Started \cup {w}
      BY <1>5 DEF Start, GoTo, Started, PlacesInv
    <2>2. QED BY <1>2, <2>1, FS_AddElement
  <1>6. QED BY <1>3, <1>4, <1>5

LEMMA InputsStay ==
    ASSUME [Next]_vars
    PROVE  UNCHANGED inputVars
  BY DEF Next, vars, inputVars, Cancel, Retry, LeaseExpires, Start, Die, Claim, Handle, Load, Reuse,
         Plan, PassOn, Ask, Accept, Reject, EndLevel, Finish, Write, Complete, Fail, Stop, Conclude,
         Exchange, NotSent, StatusLost, AnswerLost, ServerError, RateLimited, FormatRejected,
         Refused, Unusable, Answered

\* What a step does to the attempt, the generation and the lease.
LEMMA RowBoundsStep ==
    ASSUME PayInv, RowBounds, [Next]_vars
    PROVE  RowBounds'
  <1>0. RowInv /\ PlacesInv /\ attempts' = attempts
    BY InputsStay DEF PayInv, inputVars
  <1>1. /\ Cardinality(Started) \in Nat /\ Cardinality(Started') \in Nat
        /\ Cardinality(Started) <= Cardinality(Started')
    BY <1>0, StartedCount
  <1>2. ASSUME row'.attempt = row.attempt, row'.gen = row.gen, row'.live => row'.owner # NoWorker
        PROVE  RowBounds'
    BY <1>0, <1>1, <1>2 DEF RowBounds, RowInv
  <1>3. NoLease.attempt = row.attempt /\ NoLease.gen = row.gen /\ NoLease.live = FALSE
    BY <1>0 DEF NoLease, RowInv
  <1>4. CASE UNCHANGED row
    BY <1>2, <1>4 DEF RowBounds
  <1>5. CASE Cancel \/ LeaseExpires
    <2>1. /\ row'.attempt = row.attempt /\ row'.gen = row.gen
          /\ row'.live => row'.owner # NoWorker
      BY <1>0, <1>5 DEF Cancel, LeaseExpires, RowInv, RowBounds
    <2>2. QED BY <1>2, <2>1
  <1>6. ASSUME NEW ack \in BOOLEAN, Retry(ack)
        PROVE  RowBounds'
    <2>1. /\ row.attempt < attempts
          /\ row' = [NoLease EXCEPT !.status = "queued", !.attempt = @ + 1, !.gen = 0, !.unknown = FALSE]
      BY <1>6 DEF Retry
    <2>2. row'.attempt = row.attempt + 1 /\ row'.gen = 0 /\ row'.live = FALSE
      BY <1>0, <2>1 DEF NoLease, RowInv
    <2>3. row.attempt \in Nat
      BY <1>0 DEF RowInv
    <2>4. QED BY <1>0, <1>1, <2>1, <2>2, <2>3 DEF RowBounds
  <1>7. ASSUME NEW w \in Workers, Start(w), row' # row
        PROVE  RowBounds'
    <2>1. row' = [NoLease EXCEPT !.status = IF @ = "running" THEN "queued" ELSE "canceled", !.gen = @ + 1]
      BY <1>7 DEF Start
    <2>2. row'.attempt = row.attempt /\ row'.gen = row.gen + 1 /\ row'.live = FALSE
      BY <1>0, <2>1 DEF NoLease, RowInv
    <2>3. Cardinality(Started') = Cardinality(Started) + 1
      BY <1>0, <1>7, StartedCount
    <2>4. row.gen \in Nat
      BY <1>0 DEF RowInv
    <2>5. QED BY <1>0, <1>1, <2>2, <2>3, <2>4 DEF RowBounds
  <1>8. ASSUME NEW w \in Workers, Claim(w)
        PROVE  RowBounds'
    <2>1. row'.attempt = row.attempt /\ row'.gen = row.gen /\ row'.owner = w
      BY <1>0, <1>8 DEF Claim, RowInv
    <2>2. QED BY <1>2, <2>1, AiAssumption
  <1>9. ASSUME NEW s, NEW u, \/ row' = [NoLease EXCEPT !.status = s, !.unknown = u]
                             \/ row' = [NoLease EXCEPT !.status = s]
        PROVE  RowBounds'
    <2>1. row'.attempt = row.attempt /\ row'.gen = row.gen /\ row'.live = FALSE
      BY <1>0, <1>9 DEF NoLease, RowInv
    <2>2. QED BY <1>2, <2>1
  <1>10. ASSUME NEW w \in Workers, Complete(w) \/ Fail(w) \/ Stop(w)
         PROVE  RowBounds'
    <2>1. \/ UNCHANGED row \/ \E s, u : row' = [NoLease EXCEPT !.status = s, !.unknown = u]
          \/ row' = [NoLease EXCEPT !.status = "canceled"]
      BY <1>10 DEF Complete, Fail, Stop, Conclude
    <2>2. QED BY <1>4, <1>9, <2>1
  <1>11. \/ UNCHANGED row \/ Cancel \/ LeaseExpires \/ \E ack \in BOOLEAN : Retry(ack)
         \/ \E w \in Workers : (Start(w) /\ row' # row) \/ Claim(w) \/ Complete(w) \/ Fail(w) \/ Stop(w)
    BY DEF Next, vars, Start, Die, Handle, Load, Reuse, Plan, PassOn, Ask, Accept, Reject, EndLevel,
           Finish, Write, Exchange, NotSent, StatusLost, AnswerLost, ServerError, RateLimited,
           FormatRejected, Refused, Unusable, Answered
  <1>12. QED BY <1>4, <1>5, <1>6, <1>7, <1>8, <1>10, <1>11

\* What the provider may return is never the absence of an answer.
LEMMA AnAnswer ==
    ASSUME JInv, FitInv, note \in Nat, NEW w \in Workers, pc[w] = "sending",
           NEW r \in Replies(Head(todo[w]))
    PROVE  r # NoReply
  <1>1. Job("sending", todo[w], out[w], reply[w]) /\ InputInv
    BY JobOf
  <1>2. Cues \subseteq Nat
    BY DEF Cues
  <1>3. CASE kind = "translate"
    <2>1. todo[w] \in Seq(TranslateParts) /\ todo[w] # <<>>
      BY <1>1, <1>3 DEF Job, TranslateJob
    <2>2. Head(todo[w]) \in TranslateParts
      BY <2>1, HeadTailProperties
    <2> DEFINE s == Head(todo[w]).of
    <2>3. s \in Seq(Cues) /\ r \in {s, Reverse(s), Tail(s)}
      BY <2>2 DEF TranslateParts, Replies
    <2> HIDE DEF s
    <2>4. Reverse(s) \in Seq(Cues)
      BY <2>3 DEF Reverse
    <2>5. s # <<>>
      <3>1. todo[w] \in Seq(AnyPart) /\ PartsFit(todo[w])
        BY TodoType DEF FitInv
      <3>2. QED BY <2>1, <3>1, TailFits DEF PartFits, s
    <2>6. Tail(s) \in Seq(Cues)
      BY <2>3, <2>5, HeadTailProperties
    <2>7. r \in Seq(Cues)
      BY <2>3, <2>4, <2>6
    <2>8. r \in Seq(Nat)
      BY <1>2, <2>7, SeqMonotonic
    <2>9. QED BY <2>8, AiAssumption
  <1>4. CASE kind = "notes"
    <2>1. todo[w] \in Seq(NotesParts) /\ todo[w] # <<>>
      BY <1>1, <1>4 DEF Job, NotesJob
    <2>2. Head(todo[w]) \in NotesParts
      BY <2>1, HeadTailProperties
    <2>3. r \in [cites : {{c} : c \in Cues}, size : {note}]
      BY <2>2 DEF Replies, NotesParts
    <2>4. r \in [cites : SUBSET Nat, size : Nat]
      BY <1>2, <2>3
    <2>5. QED BY <2>4, AiAssumption
  <1>5. QED BY <1>1, <1>3, <1>4 DEF InputInv

LEMMA HandStep == JInv /\ FitInv /\ HandInv /\ [Next]_vars => HandInv'
  <1> SUFFICES ASSUME JInv, FitInv, HandInv, [Next]_vars PROVE HandInv'
    OBVIOUS
  <1>1. note' = note /\ note \in Nat
    BY InputsStay DEF inputVars, HandInv
  <1>2. ASSUME UNCHANGED reply, \A v \in Workers : pc'[v] = "after" <=> pc[v] = "after"
        PROVE  HandInv'
    BY <1>1, <1>2 DEF HandInv
  <1>3. ASSUME NEW w \in Workers, NEW q, q # "after", pc[w] # "after" \/ reply' = [reply EXCEPT ![w] = NoReply],
               UNCHANGED reply \/ reply' = [reply EXCEPT ![w] = NoReply],
               pc' = [pc EXCEPT ![w] = q]
        PROVE  HandInv'
    <2>1. ASSUME NEW v \in Workers PROVE reply'[v] # NoReply <=> pc'[v] = "after"
      BY <1>3 DEF HandInv, JInv, FunctionsInv
    <2>2. QED BY <1>1, <2>1 DEF HandInv
  <1>4. CASE UNCHANGED vars \/ Cancel \/ LeaseExpires \/ \E ack \in BOOLEAN : Retry(ack)
    BY <1>2, <1>4 DEF vars, callVars, Cancel, LeaseExpires, Retry
  <1>5. ASSUME NEW w \in Workers,
               \/ Die(w) \/ Complete(w) \/ Fail(w) \/ Stop(w)
        PROVE  HandInv'
    <2>1. /\ reply' = [reply EXCEPT ![w] = NoReply]
          /\ \E q \in {"idle", "dead"} : pc' = [pc EXCEPT ![w] = q]
      BY <1>5 DEF Die, Complete, Fail, Stop, Conclude, Forget, GoTo
    <2>2. QED BY <1>3, <2>1
  <1>6. ASSUME NEW w \in Workers, Accept(w) \/ Reject(w)
        PROVE  HandInv'
    <2>1. /\ reply' = [reply EXCEPT ![w] = NoReply]
          /\ \E q \in {"before", "failing"} : pc' = [pc EXCEPT ![w] = q]
      BY <1>6 DEF Accept, Reject, GoTo
    <2>2. QED BY <1>3, <2>1
  <1>7. ASSUME NEW w \in Workers,
               \/ Start(w) \/ Claim(w) \/ Load(w) \/ Reuse(w) \/ Plan(w) \/ PassOn(w) \/ Ask(w)
               \/ EndLevel(w) \/ Finish(w) \/ Write(w)
        PROVE  HandInv'
    <2>1. /\ UNCHANGED reply /\ pc[w] # "after"
          /\ pc' = pc \/ \E q \in Places \ {"after"} : pc' = [pc EXCEPT ![w] = q]
      BY <1>7 DEF Start, Claim, Load, Reuse, Plan, PassOn, Ask, EndLevel, Finish, Write, GoTo,
                  callVars, Places
    <2>2. QED BY <1>2, <1>3, <2>1
  <1>8. ASSUME NEW w \in Workers,
               \/ NotSent(w) \/ StatusLost(w) \/ AnswerLost(w) \/ ServerError(w) \/ RateLimited(w)
               \/ FormatRejected(w) \/ Refused(w) \/ Unusable(w)
        PROVE  HandInv'
    <2>1. /\ UNCHANGED reply /\ pc[w] # "after"
          /\ pc' = pc \/ \E q \in Places \ {"after"} : pc' = [pc EXCEPT ![w] = q]
      BY <1>8 DEF NotSent, StatusLost, AnswerLost, ServerError, RateLimited, FormatRejected, Refused,
                  Unusable, NextAddressOr, GoTo, callVars, Places
    <2>2. QED BY <1>2, <1>3, <2>1
  <1>9. ASSUME NEW w \in Workers, Answered(w)
        PROVE  HandInv'
    <2>1. /\ pc[w] = "sending" /\ pc' = [pc EXCEPT ![w] = "after"]
          /\ \E r \in Replies(Head(todo[w])) : reply' = [reply EXCEPT ![w] = r]
      BY <1>9 DEF Answered, GoTo
    <2>2. PICK r \in Replies(Head(todo[w])) : reply' = [reply EXCEPT ![w] = r]
      BY <2>1
    <2>3. r # NoReply
      BY <1>1, <2>1, AnAnswer
    <2>4. ASSUME NEW v \in Workers PROVE reply'[v] # NoReply <=> pc'[v] = "after"
      BY <2>1, <2>2, <2>3 DEF HandInv, JInv, FunctionsInv
    <2>5. QED BY <1>1, <2>4 DEF HandInv
  <1>10. QED BY <1>4, <1>5, <1>6, <1>7, <1>8, <1>9 DEF Next, Handle, Exchange

LEMMA LoopStep == CallInv /\ LoopBounds /\ [Next]_vars => LoopBounds'
  <1> SUFFICES ASSUME CallInv, LoopBounds, [Next]_vars PROVE LoopBounds'
    OBVIOUS
  <1>1. adapter' = adapter /\ adapter.addresses \in Nat \ {0} /\ MaxLevels \in Nat \ {0}
    BY InputsStay, AiAssumption DEF inputVars, CallInv
  <1>2. ASSUME NEW w \in Workers, NEW l, NEW c, l.depth \in 0..MaxLevels, c.address <= adapter.addresses,
               UNCHANGED level \/ level' = [level EXCEPT ![w] = l],
               UNCHANGED call \/ call' = [call EXCEPT ![w] = c]
        PROVE  LoopBounds'
    <2>1. ASSUME NEW v \in Workers
          PROVE  level'[v].depth \in 0..MaxLevels /\ call'[v].address <= adapter.addresses
      BY <1>2 DEF LoopBounds, CallInv
    <2>2. DOMAIN level' = Workers
      BY <1>2 DEF LoopBounds
    <2>3. QED BY <1>1, <2>1, <2>2 DEF LoopBounds
  <1> DEFINE Call(t, c, a) == [tries |-> t, compat |-> c, address |-> a]
             Still == UNCHANGED level /\ UNCHANGED call
  <1>3. ASSUME Still PROVE LoopBounds'
    BY <1>1, <1>3 DEF LoopBounds
  <1>4. CASE UNCHANGED vars \/ Cancel \/ LeaseExpires \/ \E ack \in BOOLEAN : Retry(ack)
    BY <1>3, <1>4 DEF vars, jobVars, callVars, Cancel, LeaseExpires, Retry
  <1>5. ASSUME NEW w \in Workers, Die(w) \/ Complete(w) \/ Fail(w) \/ Stop(w)
        PROVE  LoopBounds'
    <2> DEFINE l == [depth |-> 0, width |-> 0]
               c == Call(0, FALSE, 0)
    <2>1. level' = [level EXCEPT ![w] = l] /\ call' = [call EXCEPT ![w] = c]
      BY <1>5 DEF Die, Complete, Fail, Stop, Conclude, Forget
    <2>2. l.depth \in 0..MaxLevels /\ c.address <= adapter.addresses
      BY <1>1
    <2> HIDE DEF l, c
    <2>3. QED BY <1>2, <2>1, <2>2
  <1>6. ASSUME NEW w \in Workers,
               \/ Start(w) \/ Claim(w) \/ Load(w) \/ Reuse(w) \/ Plan(w) \/ PassOn(w) \/ Accept(w)
               \/ Reject(w) \/ Finish(w) \/ Write(w) \/ AnswerLost(w) \/ ServerError(w) \/ Refused(w)
               \/ Unusable(w)
        PROVE  LoopBounds'
    BY <1>3, <1>6 DEF Start, Claim, Load, Reuse, Plan, PassOn, Accept, Reject, Finish, Write,
                      AnswerLost, ServerError, Refused, Unusable, jobVars, callVars
  <1>7. ASSUME NEW w \in Workers, EndLevel(w)
        PROVE  LoopBounds'
    <2> DEFINE l == [depth |-> level[w].depth + 1, width |-> Len(out[w])]
    <2>1. UNCHANGED call /\ (UNCHANGED level \/ (level[w].depth # MaxLevels /\ level' = [level EXCEPT ![w] = l]))
      BY <1>7 DEF EndLevel, jobVars, callVars, LoopBounds
    <2>2. CASE UNCHANGED level
      BY <1>3, <2>1, <2>2
    <2>3. CASE level[w].depth # MaxLevels /\ level' = [level EXCEPT ![w] = l]
      <3>1. l.depth \in 0..MaxLevels
        BY <1>1, <2>3 DEF LoopBounds
      <3>2. call[w].address <= adapter.addresses
        BY DEF LoopBounds
      <3> HIDE DEF l
      <3>3. QED BY <1>2, <2>1, <2>3, <3>1, <3>2
    <2>4. QED BY <2>1, <2>2, <2>3
  <1>8. ASSUME NEW w \in Workers, UNCHANGED level, NEW c, c.address <= adapter.addresses,
               call' = [call EXCEPT ![w] = c]
        PROVE  LoopBounds'
    <2>1. level[w].depth \in 0..MaxLevels
      BY DEF LoopBounds
    <2>2. QED BY <1>2, <1>8, <2>1
  <1>9. ASSUME NEW w \in Workers, Ask(w) \/ FormatRejected(w) \/ Answered(w)
        PROVE  LoopBounds'
    <2>1. UNCHANGED level
      BY <1>9 DEF Ask, FormatRejected, Answered, jobVars
    <2>2. PICK m \in {adapter.compat, FALSE}, a \in {0, 1} : call' = [call EXCEPT ![w] = Call(0, m, a)]
      BY <1>9 DEF Ask, FormatRejected, Answered
    <2>3. Call(0, m, a).address = a /\ a <= adapter.addresses
      BY <1>1
    <2> HIDE DEF Call
    <2>4. QED BY <1>8, <2>1, <2>2, <2>3
  <1>10. ASSUME NEW w \in Workers, RateLimited(w)
         PROVE  LoopBounds'
    <2> DEFINE c == [call[w] EXCEPT !.tries = 1, !.address = 1]
    <2>1. UNCHANGED level /\ call' = [call EXCEPT ![w] = c]
      BY <1>10 DEF RateLimited, jobVars, CallInv
    <2>2. c.address = 1
      BY DEF CallInv, Calls
    <2> HIDE DEF c
    <2>3. c.address <= adapter.addresses
      BY <1>1, <2>2
    <2>4. QED BY <1>8, <2>1, <2>3
  <1>11. ASSUME NEW w \in Workers, NotSent(w) \/ StatusLost(w)
         PROVE  LoopBounds'
    <2> DEFINE c == [call[w] EXCEPT !.address = @ + 1]
    <2>1. UNCHANGED level
      BY <1>11 DEF NotSent, StatusLost, jobVars
    <2>2. \/ UNCHANGED call
          \/ call[w].address < adapter.addresses /\ call' = [call EXCEPT ![w] = c]
      BY <1>11 DEF NotSent, StatusLost, NextAddressOr, CallInv
    <2>3. c.address = call[w].address + 1 /\ call[w].address \in Nat
      BY DEF CallInv, Calls
    <2> HIDE DEF c
    <2>4. QED BY <1>1, <1>3, <1>8, <2>1, <2>2, <2>3
  <1>12. QED BY <1>4, <1>5, <1>6, <1>7, <1>9, <1>10, <1>11 DEF Next, Handle, Exchange

LEMMA TypesInit == Init => RowBounds /\ HandInv /\ LoopBounds
  <1> SUFFICES ASSUME Init PROVE RowBounds /\ HandInv /\ LoopBounds
    OBVIOUS
  <1>1. attempts \in Nat \ {0} /\ note \in Nat /\ adapter.addresses \in Nat \ {0} /\ MaxLevels \in Nat
    BY AiAssumption DEF Init
  <1>2. Started = {}
    BY DEF Init, Started
  <1>3. Cardinality(Started) = 0
    BY <1>2, FS_EmptySet
  <1>4. RowBounds
    BY <1>1, <1>3 DEF Init, RowBounds
  <1>5. HandInv
    BY <1>1 DEF Init, HandInv
  <1>6. LoopBounds
    BY <1>1 DEF Init, LoopBounds
  <1>7. QED BY <1>4, <1>5, <1>6

\* For every transcript, every set of limits and any number of workers: every variable holds a value
\* of its kind, no reduce level passes note_max_reduce_levels, a recovery takes a fresh worker, and
\* an answer is in hand exactly while it is parsed.
THEOREM TypeCorrect == Spec => []TypeOK
  <1> DEFINE I == JInv /\ FitInv /\ PayInv /\ RowBounds /\ HandInv /\ LoopBounds
  <1>1. I => TypeOK
    <2> SUFFICES ASSUME I PROVE TypeOK
      OBVIOUS
    <2>1. /\ row.status \in Statuses /\ row.attempt \in 1..attempts
          /\ row.owner \in Workers \cup {NoWorker} /\ (row.live => row.owner # NoWorker)
      BY DEF PayInv, RowInv, RowBounds
    <2>2. row.gen \in 0..Cardinality(Workers)
      <3>1. IsFiniteSet(Workers) /\ Started \subseteq Workers
        BY AiAssumption DEF Started
      <3>2. /\ Cardinality(Started) \in Nat /\ Cardinality(Workers) \in Nat
            /\ Cardinality(Started) <= Cardinality(Workers)
        BY <3>1, FS_Subset, FS_CardinalityType
      <3>3. QED BY <3>2 DEF PayInv, RowInv, RowBounds
    <2>3. pc \in [Workers -> Places]
      BY DEF PayInv, PlacesInv
    <2>4. ASSUME NEW w \in Workers
          PROVE  /\ level[w].depth \in 0..MaxLevels
                 /\ call[w].address \in 0..adapter.addresses
                 /\ reply[w] # NoReply <=> pc[w] = "after"
      BY DEF PayInv, CallInv, Calls, LoopBounds, HandInv
    <2>5. ASSUME NEW w \in Workers, kind = "notes" PROVE \A n \in ToSet(out[w]) : n \in Nodes
      <3>1. out[w] \in Seq(Sound)
        BY <2>5, JobOf DEF Job, NotesJob
      <3>2. DOMAIN out[w] = 1..Len(out[w]) /\ \A i \in 1..Len(out[w]) : out[w][i] \in Sound
        BY <3>1, LenProperties, ElementOfSeq
      <3>3. QED BY <3>2 DEF ToSet, Sound
    <2>6. ASSUME NEW w \in Workers PROVE pc[w] = "sending" => todo[w] # <<>>
      BY TodoType
    <2>7. QED BY <2>1, <2>2, <2>3, <2>4, <2>5, <2>6 DEF TypeOK, Statuses
  <1>2. Init => RowBounds /\ HandInv /\ LoopBounds
    BY TypesInit
  <1>3. JInv /\ FitInv /\ PayInv /\ RowBounds /\ HandInv /\ LoopBounds /\ [Next]_vars
          => RowBounds' /\ HandInv' /\ LoopBounds'
    BY RowBoundsStep, HandStep, LoopStep DEF PayInv
  <1>4. QED BY <1>1, <1>2, <1>3, JobsHold, FitInit, FitStep, ChargesInit, ChargesStep, PTL DEF Spec
=============================================================================
