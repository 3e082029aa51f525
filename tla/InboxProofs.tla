----------------------------- MODULE InboxProofs -----------------------------
(***************************************************************************)
(* Proofs about the gateway inbox, for every set of keys and every bound.  *)
(***************************************************************************)
EXTENDS Inbox, WellFoundedInduction, SequenceTheorems, TLAPS

(***************************************************************************)
(* What the operators of SeqFilter return.                                 *)
(***************************************************************************)

\* Every non-empty set of naturals has a least element.  The lemmas below use
\* it as their induction principle: a least counterexample is contradictory.
LEMMA LeastNat ==
  ASSUME NEW T, T \subseteq Nat, T # {}
  PROVE  \E m \in T : \A n \in T : m <= n
<1> DEFINE R == OpToRel(<, Nat)
<1>1. IsWellFoundedOn(R, Nat)
  BY NatLessThanWellFounded
<1>2. \A y, m \in Nat : <<y, m>> \in R <=> y < m
  BY DEF OpToRel
<1> HIDE DEF R
<1>3. PICK m \in T : \A y \in T : ~(<<y, m>> \in R)
  BY <1>1, WFMin
<1>4. \A y \in T : ~(y < m)
  BY <1>2, <1>3, Zenon
<1>5. \A n \in T : m <= n
  BY <1>4
<1> QED
  BY <1>5

\* findIndex returns an index of the set, and the smallest one.
LEMMA LeastIndex ==
  ASSUME NEW I, I \subseteq Nat, I # {}
  PROVE  Least(I) \in I /\ \A j \in I : Least(I) <= j
BY LeastNat DEF Least

\* One unfolding of the recursive definition of FilterFcn.
IsFilterFcn(f, s, S, k) ==
  f = [n \in 0..k |-> IF n = 0 THEN << >>
                      ELSE IF s[n] \in S THEN Append(f[n - 1], s[n])
                      ELSE f[n - 1]]

LEMMA FilterFcnExists ==
  ASSUME NEW s, NEW S, NEW k \in Nat
  PROVE  \E f : IsFilterFcn(f, s, S, k)
<1> DEFINE T == {n \in Nat : ~ \E f : IsFilterFcn(f, s, S, n)}
<1> SUFFICES ASSUME T # {} PROVE FALSE
  OBVIOUS
<1>1. PICK m \in T : \A n \in T : m <= n
  <2>1. T \subseteq Nat
    OBVIOUS
  <2> HIDE DEF T
  <2> QED
    BY <2>1, LeastNat
<1>2. m # 0
  <2>1. IsFilterFcn([n \in 0..0 |-> << >>], s, S, 0)
    BY DEF IsFilterFcn
  <2> QED
    BY <1>1, <2>1
<1>3. m - 1 \in Nat /\ m - 1 \notin T
  BY <1>1, <1>2
<1>4. PICK g : IsFilterFcn(g, s, S, m - 1)
  BY <1>3
<1> DEFINE v == IF s[m] \in S THEN Append(g[m - 1], s[m]) ELSE g[m - 1]
           h == [n \in 0..m |-> IF n = m THEN v ELSE g[n]]
<1>5. /\ DOMAIN g = 0..(m - 1)
      /\ \A n \in 0..(m - 1) : g[n] = IF n = 0 THEN << >>
                                      ELSE IF s[n] \in S THEN Append(g[n - 1], s[n])
                                      ELSE g[n - 1]
  BY <1>4 DEF IsFilterFcn
<1>6. h[m] = v /\ \A n \in 0..(m - 1) : h[n] = g[n]
  BY <1>3
<1>7. h = [n \in 0..m |-> h[n]]
  OBVIOUS
<1>8. ASSUME NEW n \in 0..m
      PROVE  h[n] = IF n = 0 THEN << >>
                    ELSE IF s[n] \in S THEN Append(h[n - 1], s[n])
                    ELSE h[n - 1]
  <2> HIDE DEF h
  <2>1. CASE n = m
    BY <2>1, <1>2, <1>3, <1>6
  <2>2. CASE n # m /\ n # 0
    <3>1. n \in 0..(m - 1) /\ n - 1 \in 0..(m - 1)
      BY <2>2, <1>3
    <3> QED
      BY <3>1, <2>2, <1>5, <1>6
  <2>3. CASE n = 0
    <3>1. 0 \in 0..(m - 1)
      BY <1>3
    <3> QED
      BY <3>1, <2>3, <1>5, <1>6
  <2> QED
    BY <2>1, <2>2, <2>3
<1>9. IsFilterFcn(h, s, S, m)
  <2> HIDE DEF h
  <2> QED
    BY <1>7, <1>8 DEF IsFilterFcn
<1> QED
  BY <1>9, <1>1

LEMMA FilterFcnUnfolds ==
  ASSUME NEW s, NEW S, Len(s) \in Nat
  PROVE  IsFilterFcn(FilterFcn(s, S), s, S, Len(s))
<1>1. \E f : IsFilterFcn(f, s, S, Len(s))
  BY FilterFcnExists
<1> QED
  BY <1>1 DEF FilterFcn, IsFilterFcn

\* f lists, in increasing order, the indexes up to n of the elements of s that
\* t keeps, and it misses none that belongs to S.
KeepsUpTo(f, t, s, S, n) ==
  /\ f \in [1..Len(t) -> 1..n]
  /\ \A i, j \in 1..Len(t) : i < j => f[i] < f[j]
  /\ \A i \in 1..Len(t) : t[i] = s[f[i]] /\ t[i] \in S
  /\ \A j \in 1..n : s[j] \in S => \E i \in 1..Len(t) : f[i] = j

\* A kept element extends the sequence and its index map; a dropped one leaves
\* both as they are.
LEMMA KeepsOneMore ==
  ASSUME NEW E, NEW s \in Seq(E), NEW S, NEW n \in 1..Len(s),
         NEW t \in Seq(E), NEW f, KeepsUpTo(f, t, s, S, n - 1),
         NEW u, u = IF s[n] \in S THEN Append(t, s[n]) ELSE t
  PROVE  u \in Seq(E) /\ \E g : KeepsUpTo(g, u, s, S, n)
<1>1. CASE s[n] \notin S
  <2>1. KeepsUpTo(f, t, s, S, n)
    BY <1>1 DEF KeepsUpTo
  <2> QED
    BY <1>1, <2>1
<1>2. CASE s[n] \in S
  <2> DEFINE g == [i \in 1..(Len(t) + 1) |-> IF i = Len(t) + 1 THEN n ELSE f[i]]
  <2>1. /\ u = Append(t, s[n]) /\ u \in Seq(E) /\ Len(u) = Len(t) + 1
        /\ u[Len(t) + 1] = s[n]
        /\ \A i \in 1..Len(t) : u[i] = t[i]
    BY <1>2
  <2>2. /\ g[Len(t) + 1] = n
        /\ \A i \in 1..Len(t) : g[i] = f[i]
    OBVIOUS
  <2>3. \A i \in 1..Len(t) : f[i] \in 1..(n - 1)
    BY DEF KeepsUpTo
  <2>4. g \in [1..Len(u) -> 1..n]
    BY <2>1, <2>3
  <2> HIDE DEF g
  <2>5. \A i, j \in 1..Len(u) : i < j => g[i] < g[j]
    BY <2>1, <2>2, <2>3 DEF KeepsUpTo
  <2>6. \A i \in 1..Len(u) : u[i] = s[g[i]] /\ u[i] \in S
    BY <1>2, <2>1, <2>2 DEF KeepsUpTo
  <2>7. ASSUME NEW j \in 1..n, s[j] \in S PROVE \E i \in 1..Len(u) : g[i] = j
    <3>1. CASE j = n
      BY <3>1, <2>1, <2>2
    <3>2. CASE j # n
      <4>1. PICK i \in 1..Len(t) : f[i] = j
        BY <3>2, <2>7 DEF KeepsUpTo
      <4> QED
        BY <4>1, <2>1, <2>2
    <3> QED
      BY <3>1, <3>2
  <2>8. KeepsUpTo(g, u, s, S, n)
    BY <2>4, <2>5, <2>6, <2>7 DEF KeepsUpTo
  <2> QED
    BY <2>1, <2>8
<1> QED
  BY <1>1, <1>2

\* Filter keeps exactly the elements of S, each once per occurrence, in order.
THEOREM FilterKeeps ==
  ASSUME NEW E, NEW s \in Seq(E), NEW S
  PROVE  /\ Filter(s, S) \in Seq(E)
         /\ \E f : KeepsUpTo(f, Filter(s, S), s, S, Len(s))
<1> DEFINE F == FilterFcn(s, S)
           Good(n) == F[n] \in Seq(E) /\ \E f : KeepsUpTo(f, F[n], s, S, n)
           T == {n \in Nat : n <= Len(s) /\ ~Good(n)}
<1>1. /\ \A n \in 0..Len(s) : F[n] = IF n = 0 THEN << >>
                                     ELSE IF s[n] \in S THEN Append(F[n - 1], s[n])
                                     ELSE F[n - 1]
  <2>1. IsFilterFcn(F, s, S, Len(s))
    BY FilterFcnUnfolds
  <2> HIDE DEF F
  <2> QED
    BY <2>1 DEF IsFilterFcn
<1> HIDE DEF F
<1>2. Good(0)
  <2>1. F[0] = << >>
    BY <1>1
  <2>2. KeepsUpTo([i \in 1..0 |-> 1], << >>, s, S, 0)
    BY DEF KeepsUpTo
  <2> QED
    BY <2>1, <2>2
<1>3. ASSUME T # {} PROVE FALSE
  <2>1. PICK n \in T : \A i \in T : n <= i
    <3>1. T \subseteq Nat
      OBVIOUS
    <3> HIDE DEF T
    <3> QED
      BY <1>3, <3>1, LeastNat
  <2>2. n \in 1..Len(s) /\ n - 1 \in Nat
    BY <1>2
  <2>3. Good(n - 1)
    <3> HIDE DEF Good
    <3> QED
      BY <2>1, <2>2
  <2>4. F[n] = IF s[n] \in S THEN Append(F[n - 1], s[n]) ELSE F[n - 1]
    BY <1>1, <2>2
  <2>5. PICK f : KeepsUpTo(f, F[n - 1], s, S, n - 1)
    BY <2>3
  <2>6. F[n] \in Seq(E) /\ \E g : KeepsUpTo(g, F[n], s, S, n)
    <3> DEFINE t == F[n - 1]
               u == F[n]
    <3>1. t \in Seq(E)
      BY <2>3
    <3>2. KeepsUpTo(f, t, s, S, n - 1)
      BY <2>5
    <3>3. u = IF s[n] \in S THEN Append(t, s[n]) ELSE t
      BY <2>4
    <3> HIDE DEF t, u, T, Good
    <3>4. u \in Seq(E) /\ \E g : KeepsUpTo(g, u, s, S, n)
      BY <3>1, <3>2, <3>3, <2>2, KeepsOneMore
    <3> QED
      BY <3>4 DEF u
  <2> QED
    BY <2>6
<1>4. Good(Len(s))
  <2>1. Len(s) \in Nat
    OBVIOUS
  <2> HIDE DEF Good
  <2> QED
    BY <1>3, <2>1
<1> QED
  BY <1>4 DEF Filter, F

\* The elements a filtered sequence has.
LEMMA FilterElems ==
  ASSUME NEW E, NEW s \in Seq(E), NEW S
  PROVE  Filter(s, S) \in Seq(E) /\ Elems(Filter(s, S)) = Elems(s) \cap S
<1>1. Filter(s, S) \in Seq(E)
  BY FilterKeeps
<1>2. PICK f : KeepsUpTo(f, Filter(s, S), s, S, Len(s))
  BY FilterKeeps
<1> DEFINE t == Filter(s, S)
<1> HIDE DEF t
<1>3. t \in Seq(E) /\ KeepsUpTo(f, t, s, S, Len(s))
  BY <1>1, <1>2 DEF t
<1>4. ASSUME NEW e \in Elems(t) PROVE e \in Elems(s) \cap S
  BY <1>3 DEF KeepsUpTo, Elems
<1>5. ASSUME NEW e \in Elems(s) \cap S PROVE e \in Elems(t)
  <2>1. PICK j \in 1..Len(s) : s[j] = e
    BY DEF Elems
  <2>2. PICK i \in 1..Len(t) : f[i] = j
    BY <1>3, <2>1 DEF KeepsUpTo
  <2> QED
    BY <1>3, <2>1, <2>2 DEF KeepsUpTo, Elems
<1> QED
  BY <1>1, <1>4, <1>5 DEF t

LEMMA ElemsType ==
  ASSUME NEW E, NEW s \in Seq(E)
  PROVE  Elems(s) \subseteq E
BY DEF Elems

\* splice(i, 0, e): what stands where afterwards.
LEMMA InsertAtIndexes ==
  ASSUME NEW E, NEW s \in Seq(E), NEW e \in E, NEW i \in 1..(Len(s) + 1)
  PROVE  /\ InsertAt(s, i, e) \in Seq(E)
         /\ Len(InsertAt(s, i, e)) = Len(s) + 1
         /\ InsertAt(s, i, e)[i] = e
         /\ \A j \in 1..(i - 1) : InsertAt(s, i, e)[j] = s[j]
         /\ \A j \in (i + 1)..(Len(s) + 1) : InsertAt(s, i, e)[j] = s[j - 1]
<1> DEFINE a == SubSeq(s, 1, i - 1)
           b == <<e>>
           c == SubSeq(s, i, Len(s))
           ab == a \o b
<1>1. /\ a \in Seq(E) /\ Len(a) = i - 1
      /\ \A j \in 1..(i - 1) : a[j] = s[j]
  OBVIOUS
<1>2. b \in Seq(E) /\ Len(b) = 1 /\ b[1] = e
  OBVIOUS
<1>3. /\ c \in Seq(E) /\ Len(c) = Len(s) - i + 1
      /\ \A j \in 1..(Len(s) - i + 1) : c[j] = s[i + j - 1]
  OBVIOUS
<1> HIDE DEF a, b, c
<1>4. /\ ab \in Seq(E) /\ Len(ab) = i
      /\ \A j \in 1..(i - 1) : ab[j] = s[j]
      /\ ab[i] = e
  <2>1. /\ ab \in Seq(E)
        /\ Len(ab) = Len(a) + Len(b)
        /\ \A j \in 1..(Len(a) + Len(b)) : ab[j] = IF j <= Len(a) THEN a[j] ELSE b[j - Len(a)]
    BY <1>1, <1>2, ConcatProperties
  <2> HIDE DEF ab
  <2> QED
    BY <1>1, <1>2, <2>1
<1> HIDE DEF ab
<1> DEFINE t == ab \o c
<1>5. /\ t \in Seq(E)
      /\ Len(t) = Len(ab) + Len(c)
      /\ \A j \in 1..(Len(ab) + Len(c)) : t[j] = IF j <= Len(ab) THEN ab[j] ELSE c[j - Len(ab)]
  BY <1>3, <1>4, ConcatProperties
<1>6. /\ Len(t) = Len(s) + 1
      /\ \A j \in 1..i : t[j] = ab[j]
      /\ \A j \in (i + 1)..(Len(s) + 1) : t[j] = c[j - i]
  <2> HIDE DEF t
  <2> QED
    BY <1>3, <1>4, <1>5
<1>7. \A j \in (i + 1)..(Len(s) + 1) : t[j] = s[j - 1]
  <2> HIDE DEF t
  <2> TAKE j \in (i + 1)..(Len(s) + 1)
  <2>1. j - i \in 1..(Len(s) - i + 1) /\ i + (j - i) - 1 = j - 1
    OBVIOUS
  <2> QED
    BY <2>1, <1>3, <1>6
<1>8. InsertAt(s, i, e) = t
  BY DEF InsertAt, t, ab, a, b, c
<1> HIDE DEF t
<1> QED
  BY <1>4, <1>5, <1>6, <1>7, <1>8

\* splice(i, 1): what stands where afterwards.
LEMMA DeleteAtIndexes ==
  ASSUME NEW E, NEW s \in Seq(E), NEW i \in 1..Len(s)
  PROVE  /\ DeleteAt(s, i) \in Seq(E)
         /\ Len(DeleteAt(s, i)) = Len(s) - 1
         /\ \A j \in 1..(i - 1) : DeleteAt(s, i)[j] = s[j]
         /\ \A j \in i..(Len(s) - 1) : DeleteAt(s, i)[j] = s[j + 1]
<1> DEFINE a == SubSeq(s, 1, i - 1)
           c == SubSeq(s, i + 1, Len(s))
           t == a \o c
<1>1. /\ a \in Seq(E) /\ Len(a) = i - 1
      /\ \A j \in 1..(i - 1) : a[j] = s[j]
  OBVIOUS
<1>2. /\ c \in Seq(E) /\ Len(c) = Len(s) - i
      /\ \A j \in 1..(Len(s) - i) : c[j] = s[i + j]
  OBVIOUS
<1> HIDE DEF a, c
<1>3. /\ t \in Seq(E)
      /\ Len(t) = Len(a) + Len(c)
      /\ \A j \in 1..(Len(a) + Len(c)) : t[j] = IF j <= Len(a) THEN a[j] ELSE c[j - Len(a)]
  BY <1>1, <1>2, ConcatProperties
<1>4. /\ Len(t) = Len(s) - 1
      /\ \A j \in 1..(i - 1) : t[j] = a[j]
      /\ \A j \in i..(Len(s) - 1) : t[j] = c[j - i + 1]
  <2> HIDE DEF t
  <2>1. Len(t) = Len(s) - 1
    BY <1>1, <1>2, <1>3
  <2>2. \A j \in 1..(i - 1) : t[j] = a[j]
    BY <1>1, <1>2, <1>3
  <2>3. ASSUME NEW j \in i..(Len(s) - 1) PROVE t[j] = c[j - i + 1]
    <3>1. j \in 1..(Len(a) + Len(c)) /\ ~(j <= Len(a)) /\ j - Len(a) = j - i + 1
      BY <1>1, <1>2
    <3> QED
      BY <3>1, <1>3
  <2> QED
    BY <2>1, <2>2, <2>3
<1>5. \A j \in i..(Len(s) - 1) : t[j] = s[j + 1]
  <2> HIDE DEF t
  <2> TAKE j \in i..(Len(s) - 1)
  <2>1. j - i + 1 \in 1..(Len(s) - i) /\ i + (j - i + 1) = j + 1
    OBVIOUS
  <2> QED
    BY <2>1, <1>2, <1>4
<1>6. DeleteAt(s, i) = t
  BY DEF DeleteAt, t, a, c
<1> HIDE DEF t
<1> QED
  BY <1>1, <1>3, <1>4, <1>5, <1>6

LEMMA InsertAtElems ==
  ASSUME NEW E, NEW s \in Seq(E), NEW e \in E, NEW i \in 1..(Len(s) + 1)
  PROVE  Elems(InsertAt(s, i, e)) = Elems(s) \cup {e}
<1> DEFINE t == InsertAt(s, i, e)
<1>1. /\ t \in Seq(E) /\ Len(t) = Len(s) + 1 /\ t[i] = e
      /\ \A j \in 1..(i - 1) : t[j] = s[j]
      /\ \A j \in (i + 1)..(Len(s) + 1) : t[j] = s[j - 1]
  BY InsertAtIndexes
<1> HIDE DEF t
<1>2. ASSUME NEW x \in Elems(t) PROVE x \in Elems(s) \cup {e}
  <2>1. PICK j \in 1..Len(t) : t[j] = x
    BY <1>1 DEF Elems
  <2> QED
    BY <1>1, <2>1 DEF Elems
<1>3. ASSUME NEW x \in Elems(s) PROVE x \in Elems(t)
  <2>1. PICK j \in 1..Len(s) : s[j] = x
    BY DEF Elems
  <2>2. CASE j < i
    BY <1>1, <2>1, <2>2 DEF Elems
  <2>3. CASE j >= i
    <3>1. j + 1 \in (i + 1)..(Len(s) + 1) /\ j + 1 \in 1..Len(t)
      BY <1>1, <2>3
    <3>2. t[j + 1] = x
      <4>1. t[j + 1] = s[(j + 1) - 1] /\ (j + 1) - 1 = j
        BY <1>1, <3>1
      <4> QED
        BY <4>1, <2>1
    <3>3. DOMAIN t = 1..Len(t)
      BY <1>1
    <3> QED
      BY <3>1, <3>2, <3>3 DEF Elems
  <2> QED
    BY <2>2, <2>3
<1>4. e \in Elems(t)
  BY <1>1 DEF Elems
<1> QED
  BY <1>2, <1>3, <1>4 DEF t

LEMMA DeleteAtElems ==
  ASSUME NEW E, NEW s \in Seq(E), NEW i \in 1..Len(s)
  PROVE  /\ Elems(DeleteAt(s, i)) \subseteq Elems(s)
         /\ \A x \in Elems(s) : x \in Elems(DeleteAt(s, i)) \/ x = s[i]
<1> DEFINE t == DeleteAt(s, i)
<1>1. /\ t \in Seq(E) /\ Len(t) = Len(s) - 1
      /\ \A j \in 1..(i - 1) : t[j] = s[j]
      /\ \A j \in i..(Len(s) - 1) : t[j] = s[j + 1]
  BY DeleteAtIndexes
<1> HIDE DEF t
<1>2. ASSUME NEW x \in Elems(t) PROVE x \in Elems(s)
  <2>1. PICK j \in 1..Len(t) : t[j] = x
    BY <1>1 DEF Elems
  <2>2. j \in 1..Len(s) /\ j + 1 \in 1..Len(s) /\ (x = s[j] \/ x = s[j + 1])
    BY <1>1, <2>1
  <2> QED
    BY <2>2 DEF Elems
<1>3. ASSUME NEW x \in Elems(s), x # s[i] PROVE x \in Elems(t)
  <2>1. PICK j \in 1..Len(s) : s[j] = x
    BY DEF Elems
  <2>2. CASE j < i
    <3>1. j \in 1..Len(t) /\ t[j] = s[j]
      BY <1>1, <2>2
    <3> QED
      BY <1>1, <2>1, <3>1 DEF Elems
  <2>3. CASE j > i
    <3>1. j - 1 \in i..(Len(s) - 1) /\ t[j - 1] = s[j]
      BY <1>1, <2>3
    <3> QED
      BY <1>1, <2>1, <3>1 DEF Elems
  <2> QED
    BY <1>3, <2>1, <2>2, <2>3
<1> QED
  BY <1>2, <1>3 DEF t

LEMMA AppendElems ==
  ASSUME NEW E, NEW s \in Seq(E), NEW e \in E
  PROVE  Elems(Append(s, e)) = Elems(s) \cup {e}
<1> DEFINE t == Append(s, e)
<1>1. /\ DOMAIN t = 1..(Len(s) + 1) /\ t[Len(s) + 1] = e
      /\ DOMAIN s = 1..Len(s)
      /\ \A i \in 1..Len(s) : t[i] = s[i]
  OBVIOUS
<1> HIDE DEF t
<1>2. Elems(t) = Elems(s) \cup {e}
  BY <1>1 DEF Elems
<1> QED
  BY <1>2 DEF t

\* The row put in front becomes the head; the others move one place back.
LEMMA PrependIndexes ==
  ASSUME NEW E, NEW s \in Seq(E), NEW e \in E
  PROVE  /\ <<e>> \o s \in Seq(E)
         /\ Len(<<e>> \o s) = Len(s) + 1
         /\ (<<e>> \o s)[1] = e
         /\ \A i \in 2..(Len(s) + 1) : (<<e>> \o s)[i] = s[i - 1]
         /\ Elems(<<e>> \o s) = Elems(s) \cup {e}
<1> DEFINE b == <<e>>
           t == b \o s
<1>1. b \in Seq(E) /\ Len(b) = 1 /\ b[1] = e
  OBVIOUS
<1> HIDE DEF b
<1>2. /\ t \in Seq(E)
      /\ Len(t) = Len(b) + Len(s)
      /\ \A j \in 1..(Len(b) + Len(s)) : t[j] = IF j <= Len(b) THEN b[j] ELSE s[j - Len(b)]
  BY <1>1, ConcatProperties
<1> HIDE DEF t
<1>3. /\ t \in Seq(E) /\ Len(t) = Len(s) + 1 /\ t[1] = e
      /\ \A i \in 2..(Len(s) + 1) : t[i] = s[i - 1]
  BY <1>1, <1>2
<1>4. ASSUME NEW x \in Elems(t) PROVE x \in Elems(s) \cup {e}
  BY <1>3 DEF Elems
<1>5. ASSUME NEW x \in Elems(s) PROVE x \in Elems(t)
  <2>1. PICK j \in 1..Len(s) : s[j] = x
    BY DEF Elems
  <2>2. j + 1 \in 1..Len(t) /\ t[j + 1] = x
    <3>1. j + 1 \in 2..(Len(s) + 1) /\ (j + 1) - 1 = j
      OBVIOUS
    <3> QED
      BY <1>3, <2>1, <3>1
  <2> QED
    BY <1>3, <2>2 DEF Elems
<1>6. e \in Elems(t)
  BY <1>3 DEF Elems
<1>7. Elems(t) = Elems(s) \cup {e}
  BY <1>4, <1>5, <1>6
<1> QED
  BY <1>3, <1>7 DEF t, b

\* A finite list of integers and one more have a least member.
LEMMA LeastOfList ==
  ASSUME NEW n \in Nat, NEW b \in Int,
         NEW f, \A i \in 1..n : f[i] \in Int
  PROVE  \E m \in Int : /\ m <= b
                        /\ \A i \in 1..n : m <= f[i]
                        /\ m = b \/ \E i \in 1..n : m = f[i]
<1> DEFINE Good(k) == \E m \in Int : /\ m <= b
                                     /\ \A i \in 1..k : m <= f[i]
                                     /\ m = b \/ \E i \in 1..k : m = f[i]
           T == {k \in Nat : k <= n /\ ~Good(k)}
<1>1. ASSUME T # {} PROVE FALSE
  <2>1. PICK k \in T : \A i \in T : k <= i
    <3>1. T \subseteq Nat
      OBVIOUS
    <3> HIDE DEF T
    <3> QED
      BY <1>1, <3>1, LeastNat
  <2>2. Good(0)
    OBVIOUS
  <2>3. k \in 1..n /\ k - 1 \in Nat
    <3> HIDE DEF Good
    <3> QED
      BY <2>2
  <2>4. Good(k - 1)
    <3> HIDE DEF Good
    <3> QED
      BY <2>1, <2>3
  <2>5. PICK m \in Int : /\ m <= b
                         /\ \A i \in 1..(k - 1) : m <= f[i]
                         /\ m = b \/ \E i \in 1..(k - 1) : m = f[i]
    BY <2>4
  <2>6. f[k] \in Int
    BY <2>3
  <2>7. CASE m <= f[k]
    BY <2>3, <2>5, <2>7
  <2>8. CASE f[k] < m
    <3>1. f[k] <= b /\ \A i \in 1..k : f[k] <= f[i]
      BY <2>3, <2>5, <2>6, <2>8
    <3> QED
      BY <2>3, <2>6, <3>1
  <2> QED
    BY <2>5, <2>6, <2>7, <2>8
<1>2. Good(n)
  <2> HIDE DEF Good
  <2> QED
    BY <1>1
<1> QED
  BY <1>2

-----------------------------------------------------------------------------
(***************************************************************************)
(* What the helpers return.                                                *)
(***************************************************************************)

\* r and m differ at most in their arrival sequence.
SameMessage(r, m) == r.id = m.id /\ r.kind = m.kind /\ r.key = m.key

\* enqueueMessage adds the message and loses at most one row: one that is no
\* admitted continuation and whose key and arrival sequence the new row takes.
LEMMA EnqueuedRows ==
  ASSUME queue \in Seq(Row), NEW m \in Row
  PROVE  /\ Enqueued(m) \in Seq(Row)
         /\ \A r \in Elems(Enqueued(m)) : r \in Elems(queue) \/ SameMessage(r, m)
         /\ \E r \in Elems(Enqueued(m)) : SameMessage(r, m)
         /\ \A r \in Elems(queue) :
              \/ r \in Elems(Enqueued(m))
              \/ /\ ~IsContinuation(r)
                 /\ \E new \in Elems(Enqueued(m)) : new.key = r.key /\ new.seq = r.seq
<1>1. CASE Duplicates(m) # {}
  <2> DEFINE i == Least(Duplicates(m))
             n == [m EXCEPT !.seq = queue[i].seq]
             q == [queue EXCEPT ![i] = n]
  <2>1. i \in Duplicates(m)
    <3>1. Duplicates(m) \subseteq Nat
      BY DEF Duplicates
    <3> QED
      BY <3>1, <1>1, LeastIndex
  <2>2. i \in 1..Len(queue) /\ ~IsContinuation(queue[i]) /\ queue[i].key = m.key /\ queue[i] \in Row
    BY <2>1 DEF Duplicates
  <2>3. n \in Row /\ SameMessage(n, m) /\ n.key = queue[i].key /\ n.seq = queue[i].seq
    BY <2>2 DEF Row, SameMessage
  <2>4. Enqueued(m) = q
    BY <1>1 DEF Enqueued
  <2> HIDE DEF i, n
  <2>5. /\ q \in Seq(Row) /\ DOMAIN q = 1..Len(queue) /\ q[i] = n
        /\ \A j \in 1..Len(queue) : j # i => q[j] = queue[j]
    BY <2>2, <2>3
  <2> HIDE DEF q
  <2>6. n \in Elems(q)
    BY <2>2, <2>5 DEF Elems
  <2>7. \A r \in Elems(q) : r \in Elems(queue) \/ r = n
    BY <2>5 DEF Elems
  <2>8. \A r \in Elems(queue) : r \in Elems(q) \/ r = queue[i]
    BY <2>5 DEF Elems
  <2> QED
    BY <2>2, <2>3, <2>4, <2>5, <2>6, <2>7, <2>8
<1>2. CASE Duplicates(m) = {} /\ LowerPriority(m) # {}
  <2> DEFINE i == Least(LowerPriority(m))
  <2>1. i \in 1..Len(queue)
    <3>1. LowerPriority(m) \subseteq 1..Len(queue) /\ LowerPriority(m) \subseteq Nat
      BY DEF LowerPriority
    <3>2. i \in LowerPriority(m)
      BY <3>1, <1>2, LeastIndex
    <3> QED
      BY <3>1, <3>2
  <2>2. Enqueued(m) = InsertAt(queue, i, m)
    BY <1>2 DEF Enqueued
  <2> HIDE DEF i
  <2>3. Enqueued(m) \in Seq(Row) /\ Elems(Enqueued(m)) = Elems(queue) \cup {m}
    BY <2>1, <2>2, InsertAtIndexes, InsertAtElems
  <2> QED
    BY <2>3 DEF SameMessage
<1>3. CASE Duplicates(m) = {} /\ LowerPriority(m) = {}
  <2>1. Enqueued(m) = Append(queue, m)
    BY <1>3 DEF Enqueued
  <2>2. Elems(Append(queue, m)) = Elems(queue) \cup {m}
    BY AppendElems
  <2> QED
    BY <2>1, <2>2 DEF SameMessage
<1> QED
  BY <1>1, <1>2, <1>3

\* dropWorkingDeferred removes exactly the parked notices.
LEMMA WithoutNoticesRows ==
  ASSUME NEW q \in Seq(Row)
  PROVE  /\ WithoutNotices(q) \in Seq(Row)
         /\ Elems(WithoutNotices(q)) = Elems(q) \ Notices(q)
<1> DEFINE keep == Elems(q) \ Notices(q)
           t == Filter(q, keep)
<1>1. t \in Seq(Row) /\ Elems(t) = Elems(q) \cap keep
  BY FilterElems, Zenon
<1>2. Elems(q) \cap keep = Elems(q) \ Notices(q)
  OBVIOUS
<1> QED
  BY <1>1, <1>2, Zenon DEF WithoutNotices

\* The key of a digest is a key of one of its notices, if any has one.
LEMMA KeyOfFirstType ==
  ASSUME NEW s \in Seq(Row)
  PROVE  KeyOfFirst(s) \in Keys \cup {NoKey}
<1> DEFINE keyed == {i \in DOMAIN s : s[i].key # NoKey}
<1>1. CASE keyed = {}
  BY <1>1 DEF KeyOfFirst
<1>2. CASE keyed # {}
  <2>1. keyed \subseteq Nat /\ \A i \in keyed : s[i] \in Row
    OBVIOUS
  <2>2. KeyOfFirst(s) = s[Least(keyed)].key
    BY <1>2 DEF KeyOfFirst
  <2> HIDE DEF keyed
  <2>3. Least(keyed) \in keyed
    BY <1>2, <2>1, LeastIndex
  <2> QED
    BY <2>1, <2>2, <2>3 DEF Row
<1> QED
  BY <1>1, <1>2

\* takeWorkingDeferredAdmission removes exactly the held task notices, and
\* what it hands over is a row: one of them, or a digest.
LEMMA HeldRows ==
  ASSUME NEW q \in Seq(Row), NEW id \in Nat, Held(q) # {}
  PROVE  /\ WithoutHeld(q) \in Seq(Row)
         /\ Elems(WithoutHeld(q)) = Elems(q) \ Held(q)
         /\ Admission(q, id) \in Row
         /\ Admission(q, id) \in Held(q) \/ Admission(q, id).kind = "digest"
         /\ Admission(q, id) \in Held(q) \/ Admission(q, id).id = id
         /\ IdAfterAdmission(q, id) \in {id, id + 1}
         /\ Admission(q, id) \notin Held(q) => IdAfterAdmission(q, id) = id + 1
<1> DEFINE held == Filter(q, Held(q))
<1>1. held \in Seq(Row) /\ Elems(held) = Held(q)
  <2>1. held \in Seq(Row) /\ Elems(held) = Elems(q) \cap Held(q)
    BY FilterElems, Zenon
  <2>2. Held(q) \subseteq Elems(q)
    BY DEF Held, Notices
  <2> HIDE DEF held
  <2> QED
    BY <2>1, <2>2
<1>2. WithoutHeld(q) \in Seq(Row) /\ Elems(WithoutHeld(q)) = Elems(q) \ Held(q)
  <2> DEFINE keep == Elems(q) \ Held(q)
             t == Filter(q, keep)
  <2>1. t \in Seq(Row) /\ Elems(t) = Elems(q) \cap keep
    BY FilterElems, Zenon
  <2>2. Elems(q) \cap keep = Elems(q) \ Held(q)
    OBVIOUS
  <2> QED
    BY <2>1, <2>2, Zenon DEF WithoutHeld
<1> HIDE DEF held
<1>3. 1 \in DOMAIN held /\ held[1] \in Held(q) /\ held[1] \in Row /\ Len(held) \in Nat \ {0}
  BY <1>1 DEF Elems
<1>4. KeyOfFirst(held) \in Keys \cup {NoKey}
  BY <1>1, KeyOfFirstType
<1>5. CASE Len(held) = 1
  BY <1>1, <1>2, <1>3, <1>5 DEF Admission, IdAfterAdmission, held
<1>6. CASE Len(held) # 1
  <2>1. Admission(q, id) = [id |-> id, kind |-> "digest", key |-> KeyOfFirst(held), seq |-> held[1].seq]
    BY <1>6 DEF Admission, held
  <2>2. Admission(q, id) \in Row /\ Admission(q, id).kind = "digest" /\ Admission(q, id).id = id
    BY <1>3, <1>4, <2>1 DEF Row, Kind
  <2>3. IdAfterAdmission(q, id) = id + 1
    BY <1>6 DEF IdAfterAdmission, held
  <2> QED
    BY <1>2, <2>2, <2>3
<1> QED
  BY <1>5, <1>6

\* The sequence that pushFront starts from is at most every queued one.
LEMMA EarliestQueuedBound ==
  ASSUME queue \in Seq(Row), nextArrivalSequence \in Nat
  PROVE  /\ EarliestQueued \in Int
         /\ EarliestQueued <= nextArrivalSequence
         /\ \A i \in DOMAIN queue : EarliestQueued <= queue[i].seq
<1> DEFINE f == [i \in DOMAIN queue |-> queue[i].seq]
           seqs == {f[i] : i \in 1..Len(queue)} \cup {nextArrivalSequence}
<1>1. /\ Len(queue) \in Nat
      /\ DOMAIN queue = 1..Len(queue)
      /\ \A i \in 1..Len(queue) : f[i] \in Int /\ f[i] = queue[i].seq
  <2>1. \A i \in 1..Len(queue) : queue[i] \in Row
    OBVIOUS
  <2>2. \A i \in 1..Len(queue) : queue[i].seq \in Int
    BY <2>1 DEF Row
  <2> QED
    BY <2>2
<1> HIDE DEF f
<1>2. {queue[i].seq : i \in DOMAIN queue} \cup {nextArrivalSequence} = seqs
  BY <1>1
<1>3. \E m \in seqs : \A k \in seqs : m <= k
  <2> DEFINE n == Len(queue)
             b == nextArrivalSequence
  <2>1. n \in Nat /\ b \in Int /\ \A i \in 1..n : f[i] \in Int
    BY <1>1
  <2>2. \E m \in Int : m <= b /\ (\A i \in 1..n : m <= f[i]) /\ (m = b \/ \E i \in 1..n : m = f[i])
    <3> HIDE DEF n, b
    <3> QED
      BY <2>1, LeastOfList
  <2> QED
    BY <2>2
<1>4. EarliestQueued = Least(seqs)
  BY <1>2, Zenon DEF EarliestQueued
<1>5. /\ seqs \subseteq Int
      /\ nextArrivalSequence \in seqs
      /\ \A i \in DOMAIN queue : queue[i].seq \in seqs
  BY <1>1
<1> HIDE DEF seqs
<1>6. Least(seqs) \in seqs /\ \A k \in seqs : Least(seqs) <= k
  BY <1>3 DEF Least
<1> QED
  BY <1>4, <1>5, <1>6

\* pushFront([row]): the rows of the queue afterwards.
LEMMA PutFirstRows ==
  ASSUME queue \in Seq(Row), nextArrivalSequence \in Nat, NEW row \in Row, PutFirst(row)
  PROVE  /\ queue' \in Seq(Row)
         /\ \E new \in Row : /\ SameMessage(new, row)
                             /\ new.seq = EarliestQueued - 1
                             /\ queue' = <<new>> \o queue
                             /\ Elems(queue') = Elems(queue) \cup {new}
<1> DEFINE new == [row EXCEPT !.seq = EarliestQueued - 1]
<1>1. EarliestQueued \in Int
  BY EarliestQueuedBound
<1>2. new \in Row /\ SameMessage(new, row) /\ new.seq = EarliestQueued - 1
  BY <1>1 DEF Row, SameMessage
<1>3. queue' = <<new>> \o queue
  BY DEF PutFirst
<1> HIDE DEF new
<1>4. <<new>> \o queue \in Seq(Row) /\ Elems(<<new>> \o queue) = Elems(queue) \cup {new}
  BY <1>2, PrependIndexes
<1> QED
  BY <1>2, <1>3, <1>4

\* A new row has a fresh id, so no weak-set entry marks it.
LEMMA NewRowType ==
  ASSUME TypeOK, IdsIssued, NEW kind \in Kind, NEW key \in KeysOf(kind)
  PROVE  /\ NewRow(kind, key) \in Row
         /\ NewRow(kind, key).id = nextId
         /\ NewRow(kind, key).kind = kind
         /\ nextId \notin admittedContinuations
BY DEF TypeOK, IdsIssued, NewRow, Row, KeysOf

\* The rows a set of queue positions names.
LEMMA LeastRow ==
  ASSUME queue \in Seq(Row), NEW I, I \subseteq DOMAIN queue, I # {}
  PROVE  /\ Least(I) \in I
         /\ Least(I) \in 1..Len(queue)
         /\ queue[Least(I)] \in Row
         /\ queue[Least(I)] \in Elems(queue)
<1>1. I \subseteq Nat /\ DOMAIN queue = 1..Len(queue)
  OBVIOUS
<1>2. Least(I) \in I
  BY <1>1, LeastIndex
<1> HIDE DEF Least
<1> QED
  BY <1>1, <1>2 DEF Elems

(***************************************************************************)
(* The inductive invariant, one lemma for each action that moves rows.     *)
(***************************************************************************)

\* What the invariant says of the rows and ids of a state.
LEMMA RowFacts ==
  ASSUME IInv
  PROVE  /\ queue \in Seq(Row) /\ nextArrivalSequence \in Nat /\ nextId \in Nat
         /\ Elems(queue) \subseteq Row /\ hand \subseteq Row
         /\ \A r \in Elems(queue) \cup hand : r.id \in Nat /\ r.id < nextId
         /\ \A n \in admittedContinuations : n \in Nat /\ n < nextId
<1>1. /\ queue \in Seq(Row) /\ nextArrivalSequence \in Nat /\ nextId \in Nat
      /\ hand \subseteq Row
      /\ admittedContinuations \subseteq Nat
  BY DEF IInv, TypeOK
<1>2. Elems(queue) \subseteq Row
  BY <1>1, ElemsType
<1>3. \A r \in Row : r.id \in Nat
  BY DEF Row
<1> QED
  BY <1>1, <1>2, <1>3 DEF IInv, IdsIssued

\* The new row of a push, and the queue that enqueueMessage leaves.
LEMMA EnqueuedNewRow ==
  ASSUME IInv, NEW kind \in Kind, NEW key \in KeysOf(kind)
  PROVE  LET m == NewRow(kind, key)
         IN  /\ m \in Row /\ m.id = nextId /\ m.kind = kind
             /\ nextId \notin admittedContinuations
             /\ Enqueued(m) \in Seq(Row)
             /\ \A r \in Elems(Enqueued(m)) :
                  r \in Elems(queue) \/ (r.id = nextId /\ r.kind = kind)
             /\ \A r \in Elems(Enqueued(m)) : r.id < nextId + 1
             /\ SequenceAfter(m) \in Nat
<1> DEFINE m == NewRow(kind, key)
<1>1. m \in Row /\ m.id = nextId /\ m.kind = kind /\ nextId \notin admittedContinuations
  BY NewRowType DEF IInv
<1>2. queue \in Seq(Row) /\ nextId \in Nat /\ nextArrivalSequence \in Nat
  BY DEF IInv, TypeOK
<1> HIDE DEF m
<1>3. /\ Enqueued(m) \in Seq(Row)
      /\ \A r \in Elems(Enqueued(m)) : r \in Elems(queue) \/ SameMessage(r, m)
  BY <1>1, <1>2, EnqueuedRows
<1>4. \A r \in Elems(Enqueued(m)) : r \in Elems(queue) \/ (r.id = nextId /\ r.kind = kind)
  BY <1>1, <1>3 DEF SameMessage
<1>5. \A r \in Elems(queue) : r.id \in Nat /\ r.id < nextId
  BY RowFacts
<1>6. ASSUME NEW r \in Elems(Enqueued(m)) PROVE r.id < nextId + 1
  <2>1. CASE r \in Elems(queue)
    BY <1>2, <1>5, <2>1
  <2>2. CASE r.id = nextId
    BY <1>2, <2>2
  <2> QED
    BY <1>4, <2>1, <2>2
<1>7. SequenceAfter(m) \in Nat
  BY <1>2 DEF SequenceAfter
<1> QED
  BY <1>1, <1>3, <1>4, <1>6, <1>7 DEF m

LEMMA PushNoticeHeldKeeps ==
  ASSUME IInv, NEW kind \in Kind, NEW key \in KeysOf(kind), PushNoticeHeld(kind, key)
  PROVE  IInv'
<1> DEFINE m == NewRow(kind, key)
<1>1. /\ nextId \notin admittedContinuations
      /\ queue' \in Seq(Row)
      /\ \A r \in Elems(queue') : r \in Elems(queue) \/ (r.id = nextId /\ r.kind = kind)
      /\ \A r \in Elems(queue') : r.id < nextId'
      /\ nextArrivalSequence' \in Nat
      /\ nextId' = nextId + 1
  BY EnqueuedNewRow DEF PushNoticeHeld
<1>2. TypeOK'
  BY <1>1 DEF IInv, TypeOK, PushNoticeHeld, Accept
<1>3. IdsIssued'
  <2>1. \A n \in admittedContinuations : n < nextId + 1
    BY DEF IInv, TypeOK, IdsIssued
  <2>2. \A r \in hand : r.id < nextId + 1
    BY DEF IInv, TypeOK, IdsIssued, Row
  <2> QED
    BY <1>1, <2>1, <2>2 DEF IdsIssued, PushNoticeHeld
<1>4. NotParkedAtStart'
  BY DEF IInv, NotParkedAtStart, PushNoticeHeld
<1>5. ASSUME resolver' PROVE hand' = {} /\ \A row \in Elems(queue') : Parked(row)'
  <2>1. resolver /\ hand' = {} /\ \A row \in Elems(queue) : Parked(row)
    BY <1>5 DEF IInv, NoLostWakeup, PushNoticeHeld
  <2>2. Deferred(kind) /\ (workSessionActive \/ kind = "alert")
    BY <2>1 DEF PushNoticeHeld, StaysQueued
  <2>3. \A row \in Elems(queue') : Parked(row)
    BY <1>1, <2>1, <2>2 DEF Parked, IsContinuation
  <2> QED
    BY <2>1, <2>3 DEF Parked, IsContinuation, PushNoticeHeld
<1> QED
  BY <1>2, <1>3, <1>4, <1>5 DEF IInv, NoLostWakeup

\* A step that leaves the loop unparked keeps the invariant if it keeps types
\* and issues every id it uses.
LEMMA UnparkedKeeps ==
  ASSUME TypeOK', IdsIssued', ~resolver'
  PROVE  IInv'
BY DEF IInv, NotParkedAtStart, NoLostWakeup

LEMMA PushNoticeWakesKeeps ==
  ASSUME IInv, NEW key \in KeysOf("task"), PushNoticeWakes(key)
  PROVE  IInv'
<1> DEFINE m == NewRow("task", key)
           q == Enqueued(m)
<1>1. /\ q \in Seq(Row)
      /\ \A r \in Elems(q) : r.id < nextId + 1
      /\ SequenceAfter(m) \in Nat
  BY EnqueuedNewRow DEF Kind
<1>2. Held(q) # {}
  <2>1. m \in Row /\ m.id = nextId /\ m.kind = "task" /\ nextId \notin admittedContinuations
    BY EnqueuedNewRow DEF Kind
  <2>2. queue \in Seq(Row)
    BY DEF IInv, TypeOK
  <2>3. PICK r \in Elems(q) : SameMessage(r, m)
    <3> HIDE DEF m
    <3> QED
      BY <2>1, <2>2, EnqueuedRows
  <2> HIDE DEF q, m
  <2>4. r \in Held(q)
    BY <2>1, <2>3 DEF SameMessage, Held, Notices, Deferred, IsContinuation
  <2> QED
    BY <2>4
<1>3. nextId \in Nat
  BY DEF IInv, TypeOK
<1> HIDE DEF m, q
<1>4. /\ queue' = WithoutHeld(q)
      /\ hand' = {Admission(q, nextId + 1)}
      /\ nextId' = IdAfterAdmission(q, nextId + 1)
      /\ nextArrivalSequence' = SequenceAfter(m)
  BY DEF PushNoticeWakes, m, q
<1>5. /\ queue' \in Seq(Row)
      /\ Elems(queue') \subseteq Elems(q)
      /\ Admission(q, nextId + 1) \in Row
      /\ nextId' \in Nat /\ nextId' >= nextId + 1
      /\ Admission(q, nextId + 1) \in Elems(q) \/ (Admission(q, nextId + 1).id = nextId + 1 /\ nextId' = nextId + 2)
  <2>1. nextId + 1 \in Nat
    BY <1>3
  <2>2. /\ WithoutHeld(q) \in Seq(Row)
        /\ Elems(WithoutHeld(q)) = Elems(q) \ Held(q)
        /\ Admission(q, nextId + 1) \in Row
        /\ Admission(q, nextId + 1) \in Held(q) \/ Admission(q, nextId + 1).id = nextId + 1
        /\ IdAfterAdmission(q, nextId + 1) \in {nextId + 1, nextId + 1 + 1}
        /\ Admission(q, nextId + 1) \notin Held(q) => IdAfterAdmission(q, nextId + 1) = nextId + 1 + 1
    BY <1>1, <1>2, <2>1, HeldRows
  <2>3. Held(q) \subseteq Elems(q)
    BY DEF Held, Notices
  <2> QED
    BY <1>3, <1>4, <2>2, <2>3
<1>6. TypeOK'
  <2>1. hand' \subseteq Row /\ \A r, s \in hand' : r = s
    BY <1>4, <1>5
  <2>2. nextArrivalSequence' \in Nat
    BY <1>1, <1>4
  <2>3. /\ admissionVersion' = admissionVersion + 1 /\ resolver' = FALSE
        /\ UNCHANGED <<admittedContinuations, coalescedHeartbeatCount, ingressSealed,
                       workSessionActive, phase>>
    BY DEF PushNoticeWakes, Accept
  <2>4. TypeOK /\ queue' \in Seq(Row) /\ nextId' \in Nat
    BY <1>5 DEF IInv
  <2>5. admissionVersion' \in Nat
    BY <2>3, <2>4 DEF TypeOK
  <2> QED
    BY <2>1, <2>2, <2>3, <2>4, <2>5, Zenon DEF TypeOK
<1>7. IdsIssued'
  <2>1. \A n \in admittedContinuations : n \in Nat /\ n < nextId
    BY DEF IInv, TypeOK, IdsIssued
  <2>2. \A r \in Elems(q) : r.id \in Nat /\ r.id < nextId + 1
    <3>1. Elems(q) \subseteq Row
      BY <1>1, ElemsType
    <3> QED
      BY <1>1, <3>1 DEF Row
  <2>3. \A r \in hand' : r.id < nextId'
    BY <1>3, <1>4, <1>5, <2>2
  <2>4. \A r \in Elems(queue') : r.id < nextId'
    BY <1>3, <1>5, <2>2
  <2>5. \A n \in admittedContinuations' : n < nextId'
    BY <1>3, <1>5, <2>1 DEF PushNoticeWakes
  <2> QED
    BY <2>3, <2>4, <2>5 DEF IdsIssued
<1> QED
  BY <1>6, <1>7, UnparkedKeeps DEF PushNoticeWakes

LEMMA PushToWaiterKeeps ==
  ASSUME IInv, NEW kind \in Kind, NEW key \in KeysOf(kind), PushToWaiter(kind, key)
  PROVE  IInv'
<1>1. NewRow(kind, key) \in Row /\ NewRow(kind, key).id = nextId
  BY EnqueuedNewRow
<1>2. queue' \in Seq(Row) /\ Elems(queue') \subseteq Elems(queue)
  <2>1. /\ WithoutNotices(queue) \in Seq(Row)
        /\ Elems(WithoutNotices(queue)) = Elems(queue) \ Notices(queue)
    BY RowFacts, WithoutNoticesRows
  <2>2. queue' = queue \/ queue' = WithoutNotices(queue)
    BY DEF PushToWaiter
  <2> QED
    BY <2>1, <2>2, RowFacts
<1>3. TypeOK'
  <2>1. nextId' \in Nat /\ admissionVersion' \in Nat
    BY DEF IInv, TypeOK, PushToWaiter, Accept
  <2>2. hand' \subseteq Row /\ \A r, s \in hand' : r = s
    BY <1>1 DEF PushToWaiter
  <2>3. workSessionActive' \in BOOLEAN
    BY Zenon DEF PushToWaiter, SessionAfter
  <2> QED
    BY <1>2, <2>1, <2>2, <2>3, Zenon DEF IInv, TypeOK, PushToWaiter, Accept
<1>4. IdsIssued'
  <2>1. nextId' = nextId + 1 /\ hand' = {NewRow(kind, key)}
        /\ admittedContinuations' = admittedContinuations
    BY DEF PushToWaiter
  <2> QED
    BY <1>1, <1>2, <2>1, RowFacts DEF IdsIssued
<1> QED
  BY <1>3, <1>4, UnparkedKeeps DEF PushToWaiter

LEMMA CoalesceHeartbeatKeeps ==
  ASSUME IInv, CoalesceHeartbeat
  PROVE  IInv'
<1>1. TypeOK'
  <2>1. nextId' \in Nat /\ admissionVersion' \in Nat /\ coalescedHeartbeatCount' \in Nat
    BY DEF IInv, TypeOK, CoalesceHeartbeat, Accept
  <2> QED
    BY <2>1, Zenon DEF IInv, TypeOK, CoalesceHeartbeat, Accept
<1>2. IdsIssued'
  BY RowFacts DEF IdsIssued, CoalesceHeartbeat
<1> QED
  BY <1>1, <1>2, UnparkedKeeps DEF CoalesceHeartbeat

LEMMA PushQueuedKeeps ==
  ASSUME IInv, NEW kind \in Kind, NEW key \in KeysOf(kind), PushQueued(kind, key)
  PROVE  IInv'
<1> DEFINE m == NewRow(kind, key)
<1>1. /\ Enqueued(m) \in Seq(Row)
      /\ \A r \in Elems(Enqueued(m)) : r.id < nextId + 1
      /\ SequenceAfter(m) \in Nat
  BY EnqueuedNewRow
<1>2. queue' = Enqueued(m) /\ nextArrivalSequence' = SequenceAfter(m) /\ nextId' = nextId + 1
  BY DEF PushQueued
<1> HIDE DEF m
<1>3. TypeOK'
  <2>1. nextId' \in Nat /\ admissionVersion' \in Nat
    BY DEF IInv, TypeOK, PushQueued, Accept
  <2>2. queue' \in Seq(Row) /\ nextArrivalSequence' \in Nat
    BY <1>1, <1>2
  <2> QED
    BY <2>1, <2>2, Zenon DEF IInv, TypeOK, PushQueued, Accept
<1>4. IdsIssued'
  <2>1. hand' = hand /\ admittedContinuations' = admittedContinuations
    BY DEF PushQueued
  <2> QED
    BY <1>1, <1>2, <2>1, RowFacts DEF IdsIssued
<1> QED
  BY <1>3, <1>4, UnparkedKeeps DEF PushQueued

\* Taking the row at position i leaves the other rows.
LEMMA RowTaken ==
  ASSUME queue \in Seq(Row), NEW i \in 1..Len(queue)
  PROVE  /\ DeleteAt(queue, i) \in Seq(Row)
         /\ Elems(DeleteAt(queue, i)) \subseteq Elems(queue)
         /\ \A x \in Elems(queue) : x \in Elems(DeleteAt(queue, i)) \/ x = queue[i]
BY DeleteAtIndexes, DeleteAtElems

LEMMA TakeContinuationKeeps ==
  ASSUME IInv, TakeContinuation
  PROVE  IInv'
<1> DEFINE i == Least(Continuations)
<1>1. i \in 1..Len(queue) /\ queue[i] \in Row /\ queue[i] \in Elems(queue)
  <2>1. Continuations \subseteq DOMAIN queue /\ Continuations # {}
    BY DEF Continuations, TakeContinuation
  <2> QED
    BY <2>1, RowFacts, LeastRow
<1>2. /\ hand' = {queue[i]} /\ queue' = DeleteAt(queue, i)
      /\ admittedContinuations' = admittedContinuations \ {queue[i].id}
      /\ nextId' = nextId /\ ~resolver'
  BY DEF TakeContinuation, CallsNext
<1> HIDE DEF i
<1>3. queue' \in Seq(Row) /\ Elems(queue') \subseteq Elems(queue)
  BY <1>1, <1>2, RowTaken, RowFacts
<1>4. TypeOK'
  <2>1. hand' \subseteq Row /\ \A r, s \in hand' : r = s
    BY <1>1, <1>2
  <2>2. admittedContinuations' \subseteq Nat
    BY <1>2 DEF IInv, TypeOK
  <2> QED
    BY <1>3, <2>1, <2>2, Zenon DEF IInv, TypeOK, TakeContinuation
<1>5. IdsIssued'
  BY <1>1, <1>2, <1>3, RowFacts DEF IdsIssued
<1> QED
  BY <1>2, <1>4, <1>5, UnparkedKeeps

LEMMA TakeNoticesKeeps ==
  ASSUME IInv, TakeNotices
  PROVE  IInv'
<1> DEFINE i == Least(Admissible)
<1>1. i \in Admissible /\ queue[i] \in Elems(queue)
  <2>1. Admissible \subseteq DOMAIN queue /\ Admissible # {}
    BY DEF Admissible, TakeNotices
  <2> QED
    BY <2>1, RowFacts, LeastRow
<1>2. Deferred(queue[i].kind) /\ ~IsContinuation(queue[i]) /\ ~Parked(queue[i])
  <2>1. Deferred(queue[i].kind) /\ Continuations = {}
    BY DEF TakeNotices
  <2> QED
    BY <1>1, <2>1 DEF Admissible, Continuations
<1>3. Held(queue) # {}
  <2> HIDE DEF i
  <2>1. queue[i] \in Held(queue)
    BY <1>1, <1>2 DEF Held, Notices, Parked
  <2> QED
    BY <2>1
<1> DEFINE a == Admission(queue, nextId)
<1>4. /\ WithoutHeld(queue) \in Seq(Row)
      /\ Elems(WithoutHeld(queue)) = Elems(queue) \ Held(queue)
      /\ a \in Row
      /\ a \in Held(queue) \/ a.id = nextId
      /\ IdAfterAdmission(queue, nextId) \in {nextId, nextId + 1}
      /\ a \notin Held(queue) => IdAfterAdmission(queue, nextId) = nextId + 1
  BY <1>3, RowFacts, HeldRows
<1>5. /\ hand' = {a} /\ queue' = WithoutHeld(queue)
      /\ nextId' = IdAfterAdmission(queue, nextId)
      /\ admittedContinuations' = admittedContinuations /\ ~resolver'
  BY DEF TakeNotices, CallsNext
<1>6. Held(queue) \subseteq Elems(queue)
  BY DEF Held, Notices
<1> HIDE DEF a
<1>7. TypeOK'
  <2>1. hand' \subseteq Row /\ \A r, s \in hand' : r = s
    BY <1>4, <1>5
  <2>2. queue' \in Seq(Row) /\ nextId' \in Nat
    BY <1>4, <1>5, RowFacts
  <2> QED
    BY <2>1, <2>2, Zenon DEF IInv, TypeOK, TakeNotices
<1>8. IdsIssued'
  <2>1. nextId' >= nextId /\ nextId' \in Nat
    BY <1>4, <1>5, RowFacts
  <2>2. a.id < nextId'
    BY <1>4, <1>5, <1>6, <2>1, RowFacts
  <2>3. \A r \in Elems(queue') : r.id < nextId'
    BY <1>4, <1>5, <2>1, RowFacts
  <2>4. \A n \in admittedContinuations' : n < nextId'
    BY <1>5, <2>1, RowFacts
  <2> QED
    BY <1>5, <2>2, <2>3, <2>4 DEF IdsIssued
<1> QED
  BY <1>5, <1>7, <1>8, UnparkedKeeps

LEMMA TakeRowKeeps ==
  ASSUME IInv, TakeRow
  PROVE  IInv'
<1> DEFINE i == Least(Admissible)
           rest == DeleteAt(queue, i)
<1>1. i \in 1..Len(queue) /\ queue[i] \in Row /\ queue[i] \in Elems(queue)
  <2>1. Admissible \subseteq DOMAIN queue /\ Admissible # {}
    BY DEF Admissible, TakeRow
  <2> QED
    BY <2>1, RowFacts, LeastRow
<1>2. /\ hand' = {queue[i]}
      /\ queue' = WithoutNotices(rest) \/ queue' = rest
      /\ coalescedHeartbeatCount' \in {0, coalescedHeartbeatCount}
      /\ nextId' = nextId /\ admittedContinuations' = admittedContinuations /\ ~resolver'
  BY DEF TakeRow, CallsNext
<1>3. workSessionActive' \in BOOLEAN
  BY Zenon DEF TakeRow, SessionAfter
<1> HIDE DEF i
<1>4. rest \in Seq(Row) /\ Elems(rest) \subseteq Elems(queue)
  BY <1>1, RowTaken, RowFacts
<1> HIDE DEF rest
<1>5. queue' \in Seq(Row) /\ Elems(queue') \subseteq Elems(queue)
  <2>1. WithoutNotices(rest) \in Seq(Row) /\ Elems(WithoutNotices(rest)) = Elems(rest) \ Notices(rest)
    BY <1>4, WithoutNoticesRows
  <2> QED
    BY <1>2, <1>4, <2>1
<1>6. TypeOK'
  <2>1. hand' \subseteq Row /\ \A r, s \in hand' : r = s
    BY <1>1, <1>2
  <2>2. coalescedHeartbeatCount' \in Nat
    BY <1>2 DEF IInv, TypeOK
  <2> QED
    BY <1>3, <1>5, <2>1, <2>2, Zenon DEF IInv, TypeOK, TakeRow
<1>7. IdsIssued'
  BY <1>1, <1>2, <1>5, RowFacts DEF IdsIssued
<1> QED
  BY <1>2, <1>6, <1>7, UnparkedKeeps

LEMMA ParkKeeps ==
  ASSUME IInv, Park
  PROVE  IInv'
<1>1. TypeOK'
  BY Zenon DEF IInv, TypeOK, Park
<1>2. IdsIssued' /\ NotParkedAtStart'
  BY DEF IInv, IdsIssued, NotParkedAtStart, Park, CallsNext
<1>3. hand' = {} /\ \A row \in Elems(queue) : Parked(row)
  BY DEF Park, CallsNext, Admissible, Elems
<1>4. NoLostWakeup'
  BY <1>3 DEF NoLostWakeup, Parked, IsContinuation, Park
<1> QED
  BY <1>1, <1>2, <1>4 DEF IInv

\* A row in front has the id of the row that was put there.
LEMMA PutFirstIds ==
  ASSUME IInv, NEW row \in Row, NEW n \in Nat, row.id < n, nextId <= n, PutFirst(row)
  PROVE  queue' \in Seq(Row) /\ \A r \in Elems(queue') : r.id < n
<1>1. PICK new \in Row : SameMessage(new, row) /\ Elems(queue') = Elems(queue) \cup {new}
  BY RowFacts, PutFirstRows
<1>2. queue' \in Seq(Row)
  BY RowFacts, PutFirstRows
<1>3. \A r \in Elems(queue) : r.id < n
  BY RowFacts
<1> QED
  BY <1>1, <1>2, <1>3 DEF SameMessage

LEMMA PutBackKeeps ==
  ASSUME IInv, NEW row \in hand, PutBack(row)
  PROVE  IInv'
<1>1. row \in Row /\ row.id < nextId /\ nextId \in Nat
  BY RowFacts
<1>2. queue' \in Seq(Row) /\ \A r \in Elems(queue') : r.id < nextId
  BY <1>1, PutFirstIds DEF PutBack
<1>3. TypeOK'
  BY <1>2, Zenon DEF IInv, TypeOK, PutBack
<1>4. IdsIssued'
  BY <1>2, RowFacts DEF IdsIssued, PutBack
<1>5. ~resolver'
  BY DEF IInv, NoLostWakeup, PutBack
<1> QED
  BY <1>3, <1>4, <1>5, UnparkedKeeps

LEMMA ResumeKeeps ==
  ASSUME IInv, NEW row \in hand, Resume(row)
  PROVE  IInv'
<1>1. row \in Row /\ row.id < nextId /\ nextId \in Nat /\ row.id \in Nat
  BY RowFacts
<1>2. queue' \in Seq(Row) /\ \A r \in Elems(queue') : r.id < nextId
  BY <1>1, PutFirstIds DEF Resume
<1>3. TypeOK'
  <2>1. admittedContinuations' \subseteq Nat
    BY <1>1 DEF IInv, TypeOK, Resume
  <2> QED
    BY <1>2, <2>1, Zenon DEF IInv, TypeOK, Resume
<1>4. IdsIssued'
  BY <1>1, <1>2, RowFacts DEF IdsIssued, Resume
<1>5. ~resolver'
  BY DEF IInv, NoLostWakeup, Resume
<1> QED
  BY <1>3, <1>4, <1>5, UnparkedKeeps

LEMMA RestoreKeeps ==
  ASSUME IInv, NEW kind \in Kind, NEW key \in KeysOf(kind), Restore(kind, key)
  PROVE  IInv'
<1> DEFINE m == NewRow(kind, key)
<1>1. m \in Row /\ m.id = nextId /\ nextId \in Nat
  BY EnqueuedNewRow, RowFacts
<1>2. PutFirst(m)
  BY DEF Restore
<1> HIDE DEF m
<1>3. queue' \in Seq(Row) /\ \A r \in Elems(queue') : r.id < nextId + 1
  <2>1. nextId + 1 \in Nat /\ m.id < nextId + 1 /\ nextId <= nextId + 1
    BY <1>1
  <2> QED
    BY <1>1, <1>2, <2>1, PutFirstIds
<1>4. TypeOK'
  <2>1. admittedContinuations' \subseteq Nat /\ nextId' \in Nat
    BY <1>1 DEF IInv, TypeOK, Restore
  <2> QED
    BY <1>3, <2>1, Zenon DEF IInv, TypeOK, Restore
<1>5. IdsIssued'
  BY <1>1, <1>3, RowFacts DEF IdsIssued, Restore
<1>6. ~resolver'
  BY DEF IInv, NotParkedAtStart, Restore
<1> QED
  BY <1>4, <1>5, <1>6, UnparkedKeeps

LEMMA ReplayKeeps ==
  ASSUME IInv, NEW kind \in Kind, NEW key \in KeysOf(kind), Replay(kind, key)
  PROVE  IInv'
<1> DEFINE m == NewRow(kind, key)
<1>1. m \in Row /\ m.id = nextId /\ nextId \in Nat
  BY EnqueuedNewRow, RowFacts
<1>2. PushFront(m) /\ nextId' = nextId + 1 /\ admittedContinuations' = admittedContinuations
  BY DEF Replay
<1> HIDE DEF m
<1>3. queue' \in Seq(Row) /\ \A r \in Elems(queue') : r.id < nextId + 1
  <2>1. nextId + 1 \in Nat /\ m.id < nextId + 1 /\ nextId <= nextId + 1
    BY <1>1
  <2>2. PutFirst(m) \/ queue' = queue
    BY <1>2 DEF PushFront
  <2> QED
    BY <1>1, <2>1, <2>2, PutFirstIds, RowFacts
<1>4. ~resolver' /\ (hand' = {m} \/ hand' = hand)
  BY <1>2 DEF PushFront, IInv, TypeOK
<1>5. TypeOK'
  <2>1. nextId' \in Nat
    BY <1>1, <1>2
  <2>2. hand' \subseteq Row /\ \A r, s \in hand' : r = s
    BY <1>1, <1>4 DEF IInv, TypeOK
  <2>3. resolver' \in BOOLEAN
    BY Zenon DEF IInv, TypeOK, Replay, PushFront
  <2> QED
    BY <1>3, <2>1, <2>2, <2>3, Zenon DEF IInv, TypeOK, Replay
<1>6. IdsIssued'
  BY <1>1, <1>2, <1>3, <1>4, RowFacts DEF IdsIssued
<1> QED
  BY <1>4, <1>5, <1>6, UnparkedKeeps

LEMMA FinishKeeps ==
  ASSUME IInv, Finish
  PROVE  IInv'
<1>1. TypeOK'
  BY Zenon DEF IInv, TypeOK, Finish, inboxVars
<1>2. IdsIssued'
  BY DEF IInv, IdsIssued, Finish, inboxVars
<1>3. ~resolver'
  BY DEF IInv, NoLostWakeup, Finish, inboxVars
<1> QED
  BY <1>1, <1>2, <1>3, UnparkedKeeps

\* The empty queue has no row.
LEMMA NoRows ==
  << >> \in Seq(Row) /\ Elems(<< >>) = {}
BY DEF Elems

LEMMA DrainKeeps ==
  ASSUME IInv, Drain
  PROVE  IInv'
<1>1. TypeOK'
  <2>1. coalescedHeartbeatCount' \in Nat
    BY DEF Drain
  <2> QED
    BY <2>1, NoRows, Zenon DEF IInv, TypeOK, Drain
<1>2. IdsIssued'
  BY NoRows DEF IInv, IdsIssued, Drain
<1>3. ~resolver'
  BY DEF IInv, NoLostWakeup, Drain
<1> QED
  BY <1>1, <1>2, <1>3, UnparkedKeeps

\* What the seal, the start and the stop of the process leave alone.
LEMMA SealKeeps ==
  ASSUME IInv, SealIngress \/ UnsealIngress \/ Start
  PROVE  IInv'
<1>1. TypeOK'
  BY Zenon DEF IInv, TypeOK, SealIngress, UnsealIngress, Start, inboxVars
<1>2. /\ UNCHANGED <<queue, hand, admittedContinuations, resolver, workSessionActive, nextId>>
      /\ phase' = phase \/ phase' = "running"
  BY DEF SealIngress, UnsealIngress, Start, inboxVars
<1>3. IdsIssued' /\ NotParkedAtStart'
  BY <1>2 DEF IInv, IdsIssued, NotParkedAtStart
<1>4. NoLostWakeup'
  BY <1>2 DEF IInv, NoLostWakeup, Parked, IsContinuation
<1> QED
  BY <1>1, <1>3, <1>4 DEF IInv

LEMMA ClearKeeps ==
  ASSUME IInv, Clear
  PROVE  IInv'
<1>1. TypeOK'
  <2>1. coalescedHeartbeatCount' \in Nat /\ nextArrivalSequence' \in Nat
    BY DEF Clear
  <2> QED
    BY <2>1, NoRows, Zenon DEF IInv, TypeOK, Clear
<1>2. IdsIssued' /\ NotParkedAtStart' /\ NoLostWakeup'
  BY NoRows DEF IInv, IdsIssued, NotParkedAtStart, NoLostWakeup, Clear
<1> QED
  BY <1>1, <1>2 DEF IInv

LEMMA InitEstablishes == Init => IInv
<1> SUFFICES ASSUME Init PROVE IInv
  OBVIOUS
<1>1. TypeOK
  <2>1. /\ queue \in Seq(Row) /\ coalescedHeartbeatCount \in Nat /\ nextArrivalSequence \in Nat
        /\ admissionVersion \in Nat /\ nextId \in Nat
    BY NoRows DEF Init
  <2>2. hand \subseteq Row /\ \A r, s \in hand : r = s
    BY DEF Init
  <2> QED
    BY <2>1, <2>2, Zenon DEF Init, TypeOK
<1>2. IdsIssued /\ NotParkedAtStart /\ NoLostWakeup
  BY NoRows DEF Init, IdsIssued, NotParkedAtStart, NoLostWakeup
<1> QED
  BY <1>1, <1>2 DEF IInv

LEMMA TryPushKeeps ==
  ASSUME IInv, TryPush
  PROVE  IInv'
<1>1. PICK kind \in PushKinds : \E key \in KeysOf(kind) :
        \/ PushNoticeHeld(kind, key)
        \/ kind = "task" /\ PushNoticeWakes(key)
        \/ PushToWaiter(kind, key)
        \/ kind = "heartbeat" /\ CoalesceHeartbeat
        \/ PushQueued(kind, key)
  BY Zenon DEF TryPush
<1>2. kind \in Kind
  BY InboxAssumption
<1> QED
  BY <1>1, <1>2, PushNoticeHeldKeeps, PushNoticeWakesKeeps, PushToWaiterKeeps,
     CoalesceHeartbeatKeeps, PushQueuedKeeps, Zenon

LEMMA FrontingKeeps ==
  ASSUME IInv, Fronting
  PROVE  IInv'
<1>1. FrontKinds \subseteq Kind
  BY InboxAssumption
<1>2. CASE PutBackAny
  BY <1>2, PutBackKeeps, Zenon DEF PutBackAny
<1>3. CASE ResumeAny
  BY <1>3, ResumeKeeps, Zenon DEF ResumeAny
<1>4. CASE RestoreAny
  <2>1. PICK kind \in FrontKinds : \E key \in KeysOf(kind) : Restore(kind, key)
    BY <1>4, Zenon DEF RestoreAny
  <2> QED
    BY <1>1, <2>1, RestoreKeeps
<1>5. CASE ReplayAny
  <2>1. PICK kind \in FrontKinds : \E key \in KeysOf(kind) : Replay(kind, key)
    BY <1>5, Zenon DEF ReplayAny
  <2> QED
    BY <1>1, <2>1, ReplayKeeps
<1> QED
  BY <1>2, <1>3, <1>4, <1>5, Zenon DEF Fronting

LEMMA StutterKeeps ==
  ASSUME IInv, UNCHANGED vars
  PROVE  IInv'
BY Zenon DEF vars, inboxVars, IInv, TypeOK, IdsIssued, NotParkedAtStart, NoLostWakeup,
   Parked, IsContinuation

\* Every step of the inbox and of its consumer keeps the invariant.
THEOREM Invariance == Spec => []IInv
<1>1. Init => IInv
  BY InitEstablishes
<1>2. IInv /\ [Next]_vars => IInv'
  BY TryPushKeeps, TakeContinuationKeeps, TakeNoticesKeeps, TakeRowKeeps, ParkKeeps,
     FrontingKeeps, FinishKeeps, DrainKeeps, SealKeeps, ClearKeeps, StutterKeeps, Zenon
     DEF Next, LoopNext, Fronting
<1> QED
  BY <1>1, <1>2, PTL DEF Spec

\* Every variable keeps its type, for every set of keys and every bound.
THEOREM TypeCorrect == Spec => []TypeOK
BY Invariance, PTL DEF IInv

\* No lost wakeup: in no behaviour is the loop parked in next() while a row
\* that takeAdmissible would take is queued.
THEOREM WakeupNeverLost == Spec => []NoLostWakeup
BY Invariance, PTL DEF IInv

(***************************************************************************)
(* The arrival sequences of the queued rows are distinct.                  *)
(***************************************************************************)

Ordered(q, n) ==
  /\ \A i, j \in DOMAIN q : i # j => q[i].seq # q[j].seq
  /\ \A i \in DOMAIN q : q[i].seq < n

\* A subsequence of an ordered queue is ordered.
LEMMA FilterOrdered ==
  ASSUME NEW q \in Seq(Row), NEW n \in Int, Ordered(q, n), NEW S
  PROVE  Ordered(Filter(q, S), n)
<1> DEFINE t == Filter(q, S)
<1>1. t \in Seq(Row) /\ \E f : KeepsUpTo(f, t, q, S, Len(q))
  BY FilterKeeps
<1> HIDE DEF t
<1>2. PICK f : KeepsUpTo(f, t, q, S, Len(q))
  BY <1>1
<1>3. /\ DOMAIN t = 1..Len(t) /\ DOMAIN q = 1..Len(q)
      /\ \A i \in 1..Len(t) : f[i] \in 1..Len(q) /\ t[i] = q[f[i]]
      /\ \A i, j \in 1..Len(t) : i < j => f[i] < f[j]
      /\ Len(t) \in Nat
  BY <1>1, <1>2 DEF KeepsUpTo
<1>4. ASSUME NEW i \in 1..Len(t), NEW j \in 1..Len(t), i # j PROVE f[i] # f[j]
  BY <1>3, <1>4
<1>5. Ordered(t, n)
  BY <1>3, <1>4 DEF Ordered
<1> QED
  BY <1>5 DEF t

LEMMA DeleteOrdered ==
  ASSUME NEW q \in Seq(Row), NEW n \in Int, Ordered(q, n), NEW k \in 1..Len(q)
  PROVE  Ordered(DeleteAt(q, k), n)
<1> DEFINE t == DeleteAt(q, k)
           f(i) == IF i < k THEN i ELSE i + 1
<1>1. /\ t \in Seq(Row) /\ Len(t) = Len(q) - 1
      /\ \A j \in 1..(k - 1) : t[j] = q[j]
      /\ \A j \in k..(Len(q) - 1) : t[j] = q[j + 1]
  BY DeleteAtIndexes
<1> HIDE DEF t
<1>2. DOMAIN t = 1..(Len(q) - 1) /\ DOMAIN q = 1..Len(q) /\ Len(q) \in Nat
  BY <1>1
<1>3. \A i \in DOMAIN t : f(i) \in DOMAIN q /\ t[i] = q[f(i)]
  BY <1>1, <1>2
<1>4. \A i, j \in DOMAIN t : i # j => f(i) # f(j)
  BY <1>2
<1> HIDE DEF f
<1>5. Ordered(t, n)
  BY <1>3, <1>4 DEF Ordered
<1> QED
  BY <1>5 DEF t

\* A row inserted with the next arrival sequence keeps the queue ordered.
LEMMA InsertOrdered ==
  ASSUME NEW q \in Seq(Row), NEW n \in Int, Ordered(q, n),
         NEW m \in Row, m.seq = n, NEW k \in 1..(Len(q) + 1)
  PROVE  Ordered(InsertAt(q, k, m), n + 1)
<1> DEFINE t == InsertAt(q, k, m)
           f(i) == IF i < k THEN i ELSE i - 1
<1>1. /\ t \in Seq(Row) /\ Len(t) = Len(q) + 1 /\ t[k] = m
      /\ \A j \in 1..(k - 1) : t[j] = q[j]
      /\ \A j \in (k + 1)..(Len(q) + 1) : t[j] = q[j - 1]
  BY InsertAtIndexes
<1> HIDE DEF t
<1>2. DOMAIN t = 1..(Len(q) + 1) /\ DOMAIN q = 1..Len(q) /\ Len(q) \in Nat
  BY <1>1
<1>3. \A i \in DOMAIN t : i # k => f(i) \in DOMAIN q /\ t[i] = q[f(i)]
  BY <1>1, <1>2
<1>4. \A i, j \in DOMAIN t : i # j /\ i # k /\ j # k => f(i) # f(j)
  BY <1>2
<1> HIDE DEF f
<1>5. \A i \in DOMAIN q : q[i].seq \in Int /\ q[i].seq < n
  <2>1. \A i \in DOMAIN q : q[i] \in Row
    BY <1>2
  <2> QED
    BY <2>1 DEF Ordered, Row
<1>6. \A i \in DOMAIN t : i # k => t[i].seq \in Int /\ t[i].seq < n
  BY <1>3, <1>5
<1>7. t[k].seq = n
  BY <1>1
<1>8. ASSUME NEW i \in DOMAIN t, NEW j \in DOMAIN t, i # j PROVE t[i].seq # t[j].seq
  <2>1. CASE i = k
    BY <1>6, <1>7, <1>8, <2>1
  <2>2. CASE j = k
    BY <1>6, <1>7, <1>8, <2>2
  <2>3. CASE i # k /\ j # k
    BY <1>3, <1>4, <1>8, <2>3 DEF Ordered
  <2> QED
    BY <2>1, <2>2, <2>3
<1>9. \A i \in DOMAIN t : t[i].seq < n + 1
  BY <1>6, <1>7
<1>10. Ordered(t, n + 1)
  BY <1>8, <1>9 DEF Ordered
<1> QED
  BY <1>10 DEF t

\* Append is insertion after the last row.
LEMMA AppendOrdered ==
  ASSUME NEW q \in Seq(Row), NEW n \in Int, Ordered(q, n), NEW m \in Row, m.seq = n
  PROVE  Ordered(Append(q, m), n + 1)
<1> DEFINE t == Append(q, m)
<1>1. /\ DOMAIN t = 1..(Len(q) + 1) /\ DOMAIN q = 1..Len(q) /\ Len(q) \in Nat
      /\ t[Len(q) + 1] = m
      /\ \A i \in 1..Len(q) : t[i] = q[i] /\ q[i] \in Row
  OBVIOUS
<1> HIDE DEF t
<1>2. \A i \in 1..Len(q) : t[i].seq \in Int /\ t[i].seq < n
  BY <1>1 DEF Ordered, Row
<1>3. ASSUME NEW i \in DOMAIN t, NEW j \in DOMAIN t, i # j PROVE t[i].seq # t[j].seq
  <2>1. CASE i \in 1..Len(q) /\ j \in 1..Len(q)
    BY <1>1, <1>3, <2>1 DEF Ordered
  <2>2. CASE i = Len(q) + 1 /\ j \in 1..Len(q)
    BY <1>1, <1>2, <2>2
  <2>3. CASE j = Len(q) + 1 /\ i \in 1..Len(q)
    BY <1>1, <1>2, <2>3
  <2> QED
    BY <1>1, <1>3, <2>1, <2>2, <2>3
<1>4. \A i \in DOMAIN t : t[i].seq < n + 1
  BY <1>1, <1>2
<1>5. Ordered(t, n + 1)
  BY <1>3, <1>4 DEF Ordered
<1> QED
  BY <1>5 DEF t

\* A row in front, below every queued sequence, keeps the queue ordered.
LEMMA PutFirstOrdered ==
  ASSUME IInv, ArrivalSequencesDistinct, NEW row \in Row, PutFirst(row)
  PROVE  Ordered(queue', nextArrivalSequence)
<1>1. queue \in Seq(Row) /\ nextArrivalSequence \in Nat
  BY RowFacts
<1>2. PICK new \in Row : new.seq = EarliestQueued - 1 /\ queue' = <<new>> \o queue
  BY <1>1, PutFirstRows
<1>3. /\ EarliestQueued \in Int /\ EarliestQueued <= nextArrivalSequence
      /\ \A i \in DOMAIN queue : EarliestQueued <= queue[i].seq
  BY <1>1, EarliestQueuedBound
<1> DEFINE t == <<new>> \o queue
<1>4. /\ t \in Seq(Row) /\ Len(t) = Len(queue) + 1 /\ t[1] = new
      /\ \A i \in 2..(Len(queue) + 1) : t[i] = queue[i - 1]
  BY <1>1, PrependIndexes
<1> HIDE DEF t
<1>5. DOMAIN t = 1..(Len(queue) + 1) /\ DOMAIN queue = 1..Len(queue) /\ Len(queue) \in Nat
  BY <1>1, <1>4
<1>6. \A i \in DOMAIN t : i # 1 => i - 1 \in DOMAIN queue /\ t[i] = queue[i - 1]
  BY <1>4, <1>5
<1>7. \A i \in DOMAIN queue : queue[i].seq \in Int /\ queue[i].seq > EarliestQueued - 1
  <2>1. \A i \in DOMAIN queue : queue[i] \in Row
    BY <1>1
  <2> QED
    BY <1>3, <2>1 DEF Row
<1>8. ASSUME NEW i \in DOMAIN t, NEW j \in DOMAIN t, i # j PROVE t[i].seq # t[j].seq
  <2>1. CASE i = 1
    BY <1>2, <1>3, <1>4, <1>6, <1>7, <1>8, <2>1
  <2>2. CASE j = 1
    BY <1>2, <1>3, <1>4, <1>6, <1>7, <1>8, <2>2
  <2>3. CASE i # 1 /\ j # 1
    <3>1. i - 1 # j - 1
      BY <1>5, <1>8
    <3> QED
      BY <1>6, <2>3, <3>1 DEF ArrivalSequencesDistinct
  <2> QED
    BY <2>1, <2>2, <2>3
<1>9. ASSUME NEW i \in DOMAIN t PROVE t[i].seq < nextArrivalSequence
  <2>1. CASE i = 1
    BY <1>1, <1>2, <1>3, <1>4, <2>1
  <2>2. CASE i # 1
    BY <1>6, <2>2 DEF ArrivalSequencesDistinct
  <2> QED
    BY <2>1, <2>2
<1>10. Ordered(t, nextArrivalSequence)
  BY <1>8, <1>9 DEF Ordered
<1> QED
  BY <1>2, <1>10 DEF t

\* A push keeps the queue ordered: a replacement takes over the sequence of
\* the row it replaces, and any other row gets the next one.
LEMMA EnqueuedOrdered ==
  ASSUME IInv, ArrivalSequencesDistinct, NEW kind \in Kind, NEW key \in KeysOf(kind)
  PROVE  Ordered(Enqueued(NewRow(kind, key)), SequenceAfter(NewRow(kind, key)))
<1> DEFINE m == NewRow(kind, key)
<1>1. queue \in Seq(Row) /\ nextArrivalSequence \in Nat
  BY RowFacts
<1>2. m \in Row /\ m.seq = nextArrivalSequence
  BY EnqueuedNewRow DEF NewRow
<1>3. Ordered(queue, nextArrivalSequence)
  BY DEF ArrivalSequencesDistinct, Ordered
<1> HIDE DEF m
<1>4. CASE Duplicates(m) # {}
  <2> DEFINE i == Least(Duplicates(m))
             n == [m EXCEPT !.seq = queue[i].seq]
             q == [queue EXCEPT ![i] = n]
  <2>1. Enqueued(m) = q /\ SequenceAfter(m) = nextArrivalSequence
    BY <1>4 DEF Enqueued, SequenceAfter
  <2>2. n.seq = queue[i].seq
    BY <1>2 DEF Row
  <2> HIDE DEF i, n
  <2>3. DOMAIN q = DOMAIN queue /\ \A j \in DOMAIN queue : q[j] = IF j = i THEN n ELSE queue[j]
    BY <1>1
  <2> HIDE DEF q
  <2>4. Ordered(q, nextArrivalSequence)
    BY <1>3, <2>2, <2>3 DEF Ordered
  <2> QED
    BY <2>1, <2>4 DEF m
<1>5. CASE Duplicates(m) = {} /\ LowerPriority(m) # {}
  <2> DEFINE i == Least(LowerPriority(m))
  <2>1. i \in 1..Len(queue)
    <3>1. LowerPriority(m) \subseteq DOMAIN queue
      BY DEF LowerPriority
    <3> QED
      BY <3>1, <1>1, <1>5, LeastRow
  <2>2. Enqueued(m) = InsertAt(queue, i, m) /\ SequenceAfter(m) = nextArrivalSequence + 1
    BY <1>5 DEF Enqueued, SequenceAfter
  <2> HIDE DEF i
  <2>3. i \in 1..(Len(queue) + 1) /\ nextArrivalSequence \in Int
    BY <1>1, <2>1
  <2>4. Ordered(InsertAt(queue, i, m), nextArrivalSequence + 1)
    BY <1>1, <1>2, <1>3, <2>3, InsertOrdered
  <2> QED
    BY <2>2, <2>4 DEF m
<1>6. CASE Duplicates(m) = {} /\ LowerPriority(m) = {}
  <2>1. Enqueued(m) = Append(queue, m) /\ SequenceAfter(m) = nextArrivalSequence + 1
    BY <1>6 DEF Enqueued, SequenceAfter
  <2>2. nextArrivalSequence \in Int
    BY <1>1
  <2>3. Ordered(Append(queue, m), nextArrivalSequence + 1)
    BY <1>1, <1>2, <1>3, <2>2, AppendOrdered
  <2> QED
    BY <2>1, <2>3 DEF m
<1> QED
  BY <1>4, <1>5, <1>6

LEMMA PushOrdered ==
  ASSUME IInv, ArrivalSequencesDistinct, TryPush
  PROVE  Ordered(queue', nextArrivalSequence')
<1>1. PICK kind \in PushKinds : \E key \in KeysOf(kind) :
        \/ PushNoticeHeld(kind, key)
        \/ kind = "task" /\ PushNoticeWakes(key)
        \/ PushToWaiter(kind, key)
        \/ kind = "heartbeat" /\ CoalesceHeartbeat
        \/ PushQueued(kind, key)
  BY Zenon DEF TryPush
<1>2. PICK key \in KeysOf(kind) :
        \/ PushNoticeHeld(kind, key)
        \/ kind = "task" /\ PushNoticeWakes(key)
        \/ PushToWaiter(kind, key)
        \/ kind = "heartbeat" /\ CoalesceHeartbeat
        \/ PushQueued(kind, key)
  BY <1>1, Zenon
<1>3. kind \in Kind
  BY InboxAssumption
<1> DEFINE m == NewRow(kind, key)
<1>4. Ordered(Enqueued(m), SequenceAfter(m)) /\ Enqueued(m) \in Seq(Row) /\ SequenceAfter(m) \in Int
  BY <1>3, EnqueuedOrdered, EnqueuedNewRow
<1>5. /\ queue \in Seq(Row) /\ nextArrivalSequence \in Int
      /\ Ordered(queue, nextArrivalSequence)
  BY RowFacts DEF ArrivalSequencesDistinct, Ordered
<1>6. CASE PushNoticeHeld(kind, key) \/ PushQueued(kind, key)
  BY <1>4, <1>6 DEF PushNoticeHeld, PushQueued
<1>7. CASE kind = "task" /\ PushNoticeWakes(key)
  <2>1. queue' = WithoutHeld(Enqueued(m)) /\ nextArrivalSequence' = SequenceAfter(m)
    BY <1>7 DEF PushNoticeWakes
  <2> HIDE DEF m
  <2>2. Ordered(WithoutHeld(Enqueued(m)), SequenceAfter(m))
    BY <1>4, FilterOrdered DEF WithoutHeld
  <2> QED
    BY <2>1, <2>2
<1>8. CASE PushToWaiter(kind, key)
  <2>1. /\ queue' = queue \/ queue' = WithoutNotices(queue)
        /\ nextArrivalSequence' = nextArrivalSequence
    BY <1>8 DEF PushToWaiter
  <2>2. Ordered(WithoutNotices(queue), nextArrivalSequence)
    BY <1>5, FilterOrdered DEF WithoutNotices
  <2> QED
    BY <1>5, <2>1, <2>2
<1>9. CASE CoalesceHeartbeat
  BY <1>5, <1>9 DEF CoalesceHeartbeat
<1> QED
  BY <1>2, <1>6, <1>7, <1>8, <1>9

LEMMA TakeOrdered ==
  ASSUME IInv, ArrivalSequencesDistinct, LoopNext
  PROVE  Ordered(queue', nextArrivalSequence')
<1>1. /\ queue \in Seq(Row) /\ nextArrivalSequence \in Int
      /\ Ordered(queue, nextArrivalSequence)
  BY RowFacts DEF ArrivalSequencesDistinct, Ordered
<1>2. CASE TakeContinuation
  <2> DEFINE i == Least(Continuations)
  <2>1. i \in 1..Len(queue)
    <3>1. Continuations \subseteq DOMAIN queue /\ Continuations # {}
      BY <1>2 DEF Continuations, TakeContinuation
    <3> QED
      BY <3>1, <1>1, LeastRow
  <2>2. queue' = DeleteAt(queue, i) /\ nextArrivalSequence' = nextArrivalSequence
    BY <1>2 DEF TakeContinuation
  <2> HIDE DEF i
  <2>3. Ordered(DeleteAt(queue, i), nextArrivalSequence)
    BY <1>1, <2>1, DeleteOrdered
  <2> QED
    BY <2>2, <2>3
<1>3. CASE TakeNotices
  <2>1. Ordered(WithoutHeld(queue), nextArrivalSequence)
    BY <1>1, FilterOrdered DEF WithoutHeld
  <2> QED
    BY <1>3, <2>1 DEF TakeNotices
<1>4. CASE TakeRow
  <2> DEFINE i == Least(Admissible)
             rest == DeleteAt(queue, i)
  <2>1. i \in 1..Len(queue)
    <3>1. Admissible \subseteq DOMAIN queue /\ Admissible # {}
      BY <1>4 DEF Admissible, TakeRow
    <3> QED
      BY <3>1, <1>1, LeastRow
  <2>2. /\ queue' = WithoutNotices(rest) \/ queue' = rest
        /\ nextArrivalSequence' = nextArrivalSequence
    BY <1>4 DEF TakeRow
  <2> HIDE DEF i
  <2>3. Ordered(rest, nextArrivalSequence) /\ rest \in Seq(Row)
    BY <1>1, <2>1, DeleteOrdered, RowTaken
  <2> HIDE DEF rest
  <2>4. Ordered(WithoutNotices(rest), nextArrivalSequence)
    BY <1>1, <2>3, FilterOrdered DEF WithoutNotices
  <2> QED
    BY <2>2, <2>3, <2>4
<1>5. CASE Park
  BY <1>1, <1>5 DEF Park
<1> QED
  BY <1>2, <1>3, <1>4, <1>5 DEF LoopNext

LEMMA FrontingOrdered ==
  ASSUME IInv, ArrivalSequencesDistinct, Fronting
  PROVE  Ordered(queue', nextArrivalSequence')
<1>1. Ordered(queue, nextArrivalSequence)
  BY DEF ArrivalSequencesDistinct, Ordered
<1>2. nextArrivalSequence' = nextArrivalSequence
  BY Zenon DEF Fronting, PutBackAny, ResumeAny, RestoreAny, ReplayAny,
     PutBack, Resume, Restore, Replay
<1>3. \A row \in hand : row \in Row
  BY RowFacts
<1>4. \A kind \in FrontKinds : \A key \in KeysOf(kind) : NewRow(kind, key) \in Row
  BY InboxAssumption, EnqueuedNewRow
<1>5. queue' = queue \/ \E row \in Row : PutFirst(row)
  BY <1>3, <1>4, Zenon DEF Fronting, PutBackAny, ResumeAny, RestoreAny, ReplayAny,
     PutBack, Resume, Restore, Replay, PushFront
<1> QED
  BY <1>1, <1>2, <1>5, PutFirstOrdered

\* The arrival sequences of queued rows are distinct and below the counter, so
\* drainForRecovery sorts the rows it detaches into one order only.
THEOREM SequencesDistinct == Spec => []ArrivalSequencesDistinct
<1>1. Init => ArrivalSequencesDistinct
  BY DEF Init, ArrivalSequencesDistinct
<1>2. ASSUME IInv, ArrivalSequencesDistinct, [Next]_vars
      PROVE  Ordered(queue', nextArrivalSequence')
  <2>1. CASE TryPush
    BY <1>2, <2>1, PushOrdered
  <2>2. CASE LoopNext
    BY <1>2, <2>2, TakeOrdered
  <2>3. CASE Fronting
    BY <1>2, <2>3, FrontingOrdered
  <2>4. CASE Drain \/ Clear
    BY <2>4 DEF Drain, Clear, Ordered
  <2>5. CASE Finish \/ SealIngress \/ UnsealIngress \/ Start \/ UNCHANGED vars
    <3>1. UNCHANGED <<queue, nextArrivalSequence>>
      BY <2>5, Zenon DEF Finish, SealIngress, UnsealIngress, Start, vars, inboxVars
    <3> QED
      BY <1>2, <3>1 DEF ArrivalSequencesDistinct, Ordered
  <2> QED
    BY <1>2, <2>1, <2>2, <2>3, <2>4, <2>5, Zenon DEF Next, Fronting
<1>3. IInv /\ ArrivalSequencesDistinct /\ [Next]_vars => ArrivalSequencesDistinct'
  BY <1>2 DEF Ordered, ArrivalSequencesDistinct
<1> QED
  BY <1>1, <1>3, Invariance, PTL DEF Spec

(***************************************************************************)
(* What becomes of a queued row in one step.                               *)
(***************************************************************************)

\* A push queues, replaces, drops or hands over; the cases that matter for a
\* row that is already queued.
LEMMA PushFates ==
  ASSUME IInv, TryPush, NEW row \in Elems(queue)
  PROVE  \/ row \in Elems(queue')
         \/ /\ ~IsContinuation(row)
            /\ \E new \in Elems(queue') : new.key = row.key /\ new.seq = row.seq
         \/ row \in Notices(queue) /\ \E new \in hand' : new.kind = "heartbeat"
         \/ ~IsContinuation(row) /\ ~workSessionActive
<1>1. PICK kind \in PushKinds : \E key \in KeysOf(kind) :
        \/ PushNoticeHeld(kind, key)
        \/ kind = "task" /\ PushNoticeWakes(key)
        \/ PushToWaiter(kind, key)
        \/ kind = "heartbeat" /\ CoalesceHeartbeat
        \/ PushQueued(kind, key)
  BY Zenon DEF TryPush
<1>2. PICK key \in KeysOf(kind) :
        \/ PushNoticeHeld(kind, key)
        \/ kind = "task" /\ PushNoticeWakes(key)
        \/ PushToWaiter(kind, key)
        \/ kind = "heartbeat" /\ CoalesceHeartbeat
        \/ PushQueued(kind, key)
  BY <1>1, Zenon
<1>3. kind \in Kind
  BY InboxAssumption
<1> DEFINE m == NewRow(kind, key)
<1>4. queue \in Seq(Row) /\ m \in Row /\ m.kind = kind
  BY <1>3, EnqueuedNewRow, RowFacts
<1>5. CASE PushNoticeHeld(kind, key) \/ PushQueued(kind, key)
  <2>1. queue' = Enqueued(m)
    BY <1>5 DEF PushNoticeHeld, PushQueued
  <2> HIDE DEF m
  <2>2. \/ row \in Elems(Enqueued(m))
        \/ /\ ~IsContinuation(row)
           /\ \E new \in Elems(Enqueued(m)) : new.key = row.key /\ new.seq = row.seq
    BY <1>4, EnqueuedRows
  <2> QED
    BY <2>1, <2>2
<1>6. CASE kind = "task" /\ PushNoticeWakes(key)
  <2> DEFINE q == Enqueued(m)
  <2>1. queue' = WithoutHeld(q) /\ ~workSessionActive
    BY <1>6 DEF PushNoticeWakes
  <2> HIDE DEF m
  <2>2. q \in Seq(Row) /\ (row \in Elems(q) \/ ~IsContinuation(row))
    BY <1>4, EnqueuedRows
  <2> HIDE DEF q
  <2>3. Elems(WithoutHeld(q)) = Elems(q) \ Held(q)
    <3> DEFINE keep == Elems(q) \ Held(q)
    <3>1. Elems(Filter(q, keep)) = Elems(q) \cap keep
      BY <2>2, FilterElems, Zenon
    <3>2. Elems(q) \cap keep = Elems(q) \ Held(q)
      OBVIOUS
    <3> QED
      BY <3>1, <3>2, Zenon DEF WithoutHeld
  <2>4. IsContinuation(row) => row \notin Held(q)
    BY DEF Held, Notices
  <2> QED
    BY <2>1, <2>2, <2>3, <2>4
<1>7. CASE PushToWaiter(kind, key)
  <2>1. CASE kind = "heartbeat"
    <3>1. queue' = WithoutNotices(queue) /\ hand' = {m}
      BY <1>7, <2>1 DEF PushToWaiter
    <3>2. Elems(queue') = Elems(queue) \ Notices(queue)
      BY <1>4, <3>1, WithoutNoticesRows
    <3> QED
      BY <1>4, <2>1, <3>1, <3>2
  <2>2. CASE kind # "heartbeat"
    BY <1>7, <2>2 DEF PushToWaiter
  <2> QED
    BY <2>1, <2>2
<1>8. CASE CoalesceHeartbeat
  BY <1>8 DEF CoalesceHeartbeat
<1> QED
  BY <1>2, <1>5, <1>6, <1>7, <1>8

\* Taking a row: what becomes of a queued row.
LEMMA TakeFates ==
  ASSUME IInv, LoopNext, NEW row \in Elems(queue)
  PROVE  \/ row \in Elems(queue')
         \/ IsContinuation(row) /\ hand' = {row}
         \/ row \in Notices(queue) /\ \E new \in hand' : new.kind = "heartbeat"
         \/ ~IsContinuation(row) /\ (row \in Notices(queue) => ~workSessionActive)
<1>1. queue \in Seq(Row)
  BY RowFacts
<1>2. PICK k \in DOMAIN queue : queue[k] = row
  BY DEF Elems
<1>3. Continuations = {} => ~IsContinuation(row)
  BY <1>2 DEF Continuations
<1>4. CASE TakeContinuation
  <2> DEFINE i == Least(Continuations)
  <2>1. i \in 1..Len(queue) /\ IsContinuation(queue[i])
    <3>1. Continuations \subseteq DOMAIN queue /\ Continuations # {}
      BY <1>4 DEF Continuations, TakeContinuation
    <3>2. i \in Continuations /\ i \in 1..Len(queue)
      BY <3>1, <1>1, LeastRow
    <3> QED
      BY <3>2 DEF Continuations
  <2>2. queue' = DeleteAt(queue, i) /\ hand' = {queue[i]}
    BY <1>4 DEF TakeContinuation
  <2> HIDE DEF i
  <2>3. row \in Elems(DeleteAt(queue, i)) \/ row = queue[i]
    BY <1>1, <2>1, RowTaken
  <2> QED
    BY <2>1, <2>2, <2>3
<1>5. CASE TakeNotices
  <2> DEFINE i == Least(Admissible)
  <2>1. Continuations = {} /\ Deferred(queue[i].kind)
    BY <1>5 DEF TakeNotices
  <2>2. i \in Admissible
    <3>1. Admissible \subseteq DOMAIN queue /\ Admissible # {}
      BY <1>5 DEF Admissible, TakeNotices
    <3> QED
      BY <3>1, <1>1, LeastRow
  <2> HIDE DEF i
  <2>3. ~workSessionActive
    BY <2>1, <2>2 DEF Admissible, Parked, Continuations
  <2> QED
    BY <1>3, <2>1, <2>3
<1>6. CASE TakeRow
  <2> DEFINE i == Least(Admissible)
             rest == DeleteAt(queue, i)
  <2>1. /\ Continuations = {} /\ ~Deferred(queue[i].kind) /\ hand' = {queue[i]}
        /\ queue' = IF queue[i].kind = "heartbeat" THEN WithoutNotices(rest) ELSE rest
    BY <1>6 DEF TakeRow
  <2>2. i \in 1..Len(queue)
    <3>1. Admissible \subseteq DOMAIN queue /\ Admissible # {}
      BY <1>6 DEF Admissible, TakeRow
    <3> QED
      BY <3>1, <1>1, LeastRow
  <2> HIDE DEF i
  <2>3. rest \in Seq(Row) /\ (row \in Elems(rest) \/ row = queue[i])
    BY <1>1, <2>2, RowTaken
  <2> HIDE DEF rest
  <2>4. Elems(WithoutNotices(rest)) = Elems(rest) \ Notices(rest)
    BY <2>3, WithoutNoticesRows
  <2>5. row = queue[i] => row \notin Notices(queue)
    BY <2>1 DEF Notices
  <2>6. row \in Notices(rest) => row \in Notices(queue)
    BY DEF Notices
  <2> QED
    BY <1>3, <2>1, <2>3, <2>4, <2>5, <2>6
<1>7. CASE Park
  BY <1>7 DEF Park
<1> QED
  BY <1>4, <1>5, <1>6, <1>7 DEF LoopNext

\* The other steps that keep the queue keep every row in it.
LEMMA OtherFates ==
  ASSUME IInv, NEW row \in Elems(queue),
         Fronting \/ Finish \/ SealIngress \/ UnsealIngress \/ Start
  PROVE  row \in Elems(queue')
<1>1. CASE Fronting
  <2>1. \A r \in hand : r \in Row
    BY RowFacts
  <2>2. \A kind \in FrontKinds : \A key \in KeysOf(kind) : NewRow(kind, key) \in Row
    BY InboxAssumption, EnqueuedNewRow
  <2>3. queue' = queue \/ \E r \in Row : PutFirst(r)
    BY <1>1, <2>1, <2>2, Zenon DEF Fronting, PutBackAny, ResumeAny, RestoreAny, ReplayAny,
       PutBack, Resume, Restore, Replay, PushFront
  <2>4. CASE \E r \in Row : PutFirst(r)
    BY <2>4, PutFirstRows, RowFacts
  <2> QED
    BY <2>3, <2>4
<1>2. CASE Finish \/ SealIngress \/ UnsealIngress \/ Start
  BY <1>2 DEF Finish, SealIngress, UnsealIngress, Start, inboxVars
<1> QED
  BY <1>1, <1>2

\* A resumed delivery is never replaced, absorbed or dropped: it stays queued
\* until it is the row handed to the loop, or the whole queue is detached.
THEOREM ContinuationsKept == Spec => ContinuationKept
<1> DEFINE Kept == \A row \in Elems(queue) :
                     IsContinuation(row) /\ ~Drain /\ ~Clear
                       => row \in Elems(queue') \/ hand' = {row}
<1>1. ASSUME IInv, [Next]_vars PROVE [Kept]_vars
  <2> SUFFICES ASSUME Next, NEW row \in Elems(queue), IsContinuation(row), ~Drain, ~Clear
               PROVE  row \in Elems(queue') \/ hand' = {row}
    BY <1>1
  <2>1. CASE TryPush
    BY <1>1, <2>1, PushFates DEF Notices
  <2>2. CASE LoopNext
    BY <1>1, <2>2, TakeFates DEF Notices
  <2>3. CASE Fronting \/ Finish \/ SealIngress \/ UnsealIngress \/ Start
    BY <1>1, <2>3, OtherFates
  <2> QED
    BY <2>1, <2>2, <2>3, Zenon DEF Next, Fronting
<1> QED
  BY <1>1, Invariance, PTL DEF Spec, ContinuationKept

\* A notice held by a work session stays queued, or a newer one with its key
\* and place does, until the heartbeat is admitted or the queue is detached.
THEOREM HeldNotices == Spec => NoticesHeld
<1> DEFINE Fate(row) == \/ row \in Elems(queue')
                        \/ \E new \in Elems(queue') : new.key = row.key /\ new.seq = row.seq
                        \/ \E new \in hand' : new.kind = "heartbeat"
           Stays == workSessionActive /\ ~Drain /\ ~Clear
                      => \A row \in Notices(queue) : Fate(row)
<1>1. ASSUME IInv, [Next]_vars PROVE [Stays]_vars
  <2> SUFFICES ASSUME Next, workSessionActive, ~Drain, ~Clear, NEW row \in Notices(queue)
               PROVE  Fate(row)
    BY <1>1
  <2>0. row \in Elems(queue) /\ ~IsContinuation(row)
    BY DEF Notices
  <2>1. CASE TryPush
    BY <1>1, <2>0, <2>1, PushFates
  <2>2. CASE LoopNext
    BY <1>1, <2>0, <2>2, TakeFates
  <2>3. CASE Fronting \/ Finish \/ SealIngress \/ UnsealIngress \/ Start
    BY <1>1, <2>0, <2>3, OtherFates
  <2> QED
    BY <2>1, <2>2, <2>3, Zenon DEF Next, Fronting
<1> QED
  BY <1>1, Invariance, PTL DEF Spec, NoticesHeld

(***************************************************************************)
(* The order of the queue.                                                 *)
(***************************************************************************)

\* A notification key is a task or alert key: only the rows of the last class
\* carry one, so a replacement never leaves its class.
Keyed(row) == row.key # NoKey => Priority(row.kind) = 3

KeyedRows == \A row \in Elems(queue) \cup hand : Keyed(row)

\* A row made by a push, a restore or a replay, and a copy of a keyed row.
LEMMA NewRowKeyed ==
  ASSUME NEW kind, NEW key \in KeysOf(kind)
  PROVE  Keyed(NewRow(kind, key))
<1>1. key # NoKey => Priority(kind) = 3
  BY DEF KeysOf
<1> QED
  BY <1>1, Zenon DEF Keyed, NewRow

LEMMA CopyKeyed ==
  ASSUME NEW r, NEW m, SameMessage(r, m), Keyed(m)
  PROVE  Keyed(r)
BY DEF SameMessage, Keyed

\* A digest is of the last class, whatever key it takes.
LEMMA AdmissionKeyed ==
  ASSUME NEW q \in Seq(Row), NEW id \in Nat, Held(q) # {}, \A r \in Elems(q) : Keyed(r)
  PROVE  Keyed(Admission(q, id)) /\ \A r \in Elems(WithoutHeld(q)) : Keyed(r)
<1>1. /\ Elems(WithoutHeld(q)) = Elems(q) \ Held(q)
      /\ Admission(q, id) \in Held(q) \/ Admission(q, id).kind = "digest"
  BY HeldRows
<1>2. Held(q) \subseteq Elems(q)
  BY DEF Held, Notices
<1>3. Priority("digest") = 3
  BY DEF Priority
<1> QED
  BY <1>1, <1>2, <1>3 DEF Keyed

LEMMA EnqueuedKeyed ==
  ASSUME IInv, KeyedRows, NEW kind \in Kind, NEW key \in KeysOf(kind)
  PROVE  \A r \in Elems(Enqueued(NewRow(kind, key))) : Keyed(r)
<1> DEFINE m == NewRow(kind, key)
<1>1. m \in Row /\ queue \in Seq(Row) /\ Keyed(m)
  BY EnqueuedNewRow, RowFacts, NewRowKeyed
<1> HIDE DEF m
<1>2. \A r \in Elems(Enqueued(m)) : r \in Elems(queue) \/ SameMessage(r, m)
  BY <1>1, EnqueuedRows
<1>3. \A r \in Elems(Enqueued(m)) : Keyed(r)
  BY <1>1, <1>2, CopyKeyed DEF KeyedRows
<1> QED
  BY <1>3 DEF m

LEMMA PushKeyed ==
  ASSUME IInv, KeyedRows, TryPush
  PROVE  KeyedRows'
<1>1. PICK kind \in PushKinds : \E key \in KeysOf(kind) :
        \/ PushNoticeHeld(kind, key)
        \/ kind = "task" /\ PushNoticeWakes(key)
        \/ PushToWaiter(kind, key)
        \/ kind = "heartbeat" /\ CoalesceHeartbeat
        \/ PushQueued(kind, key)
  BY Zenon DEF TryPush
<1>2. PICK key \in KeysOf(kind) :
        \/ PushNoticeHeld(kind, key)
        \/ kind = "task" /\ PushNoticeWakes(key)
        \/ PushToWaiter(kind, key)
        \/ kind = "heartbeat" /\ CoalesceHeartbeat
        \/ PushQueued(kind, key)
  BY <1>1, Zenon
<1>3. kind \in Kind
  BY InboxAssumption
<1> DEFINE m == NewRow(kind, key)
           q == Enqueued(m)
<1>4. /\ \A r \in Elems(q) : Keyed(r)
      /\ q \in Seq(Row) /\ queue \in Seq(Row) /\ nextId \in Nat
      /\ m \in Row /\ m.kind = kind /\ Keyed(m)
  BY <1>3, EnqueuedKeyed, EnqueuedNewRow, RowFacts, NewRowKeyed
<1>5. CASE PushNoticeHeld(kind, key) \/ PushQueued(kind, key)
  <2>1. queue' = q /\ hand' = hand
    BY <1>5 DEF PushNoticeHeld, PushQueued
  <2> HIDE DEF q
  <2> QED
    BY <1>4, <2>1 DEF KeyedRows, Keyed
<1>6. CASE kind = "task" /\ PushNoticeWakes(key)
  <2>1. hand' = {Admission(q, nextId + 1)} /\ queue' = WithoutHeld(q)
    BY <1>6 DEF PushNoticeWakes
  <2>2. Held(q) # {}
    <3>1. PICK r \in Elems(q) : SameMessage(r, m)
      BY <1>4, EnqueuedRows
    <3>2. r.id = nextId /\ r.kind = "task" /\ nextId \notin admittedContinuations
      BY <1>3, <1>6, <3>1, EnqueuedNewRow DEF SameMessage
    <3> QED
      BY <3>1, <3>2 DEF Held, Notices, Deferred, IsContinuation
  <2> HIDE DEF q
  <2>3. Keyed(Admission(q, nextId + 1)) /\ \A r \in Elems(WithoutHeld(q)) : Keyed(r)
    BY <1>4, <2>2, AdmissionKeyed
  <2> QED
    BY <2>1, <2>3 DEF KeyedRows, Keyed
<1>7. CASE PushToWaiter(kind, key)
  <2>1. hand' = {m} /\ (queue' = queue \/ queue' = WithoutNotices(queue))
    BY <1>7 DEF PushToWaiter
  <2>2. Elems(WithoutNotices(queue)) \subseteq Elems(queue)
    BY <1>4, WithoutNoticesRows
  <2> HIDE DEF m
  <2> QED
    BY <1>4, <2>1, <2>2 DEF KeyedRows, Keyed
<1>8. CASE CoalesceHeartbeat
  BY <1>8 DEF CoalesceHeartbeat, KeyedRows, Keyed
<1> QED
  BY <1>2, <1>5, <1>6, <1>7, <1>8

LEMMA TakeKeyed ==
  ASSUME IInv, KeyedRows, LoopNext
  PROVE  KeyedRows'
<1>1. queue \in Seq(Row) /\ nextId \in Nat
  BY RowFacts
<1>2. \A i \in DOMAIN queue : queue[i] \in Elems(queue)
  BY DEF Elems
<1>3. CASE TakeContinuation
  <2> DEFINE i == Least(Continuations)
  <2>1. i \in 1..Len(queue)
    <3>1. Continuations \subseteq DOMAIN queue /\ Continuations # {}
      BY <1>3 DEF Continuations, TakeContinuation
    <3> QED
      BY <3>1, <1>1, LeastRow
  <2>2. queue' = DeleteAt(queue, i) /\ hand' = {queue[i]}
    BY <1>3 DEF TakeContinuation
  <2> HIDE DEF i
  <2>3. Elems(DeleteAt(queue, i)) \subseteq Elems(queue) /\ queue[i] \in Elems(queue)
    BY <1>1, <1>2, <2>1, RowTaken
  <2> QED
    BY <2>2, <2>3 DEF KeyedRows, Keyed
<1>4. CASE TakeNotices
  <2>1. hand' = {Admission(queue, nextId)} /\ queue' = WithoutHeld(queue)
    BY <1>4 DEF TakeNotices
  <2>2. Held(queue) # {}
    <3> DEFINE i == Least(Admissible)
    <3>1. Admissible \subseteq DOMAIN queue /\ Admissible # {}
      BY <1>4 DEF Admissible, TakeNotices
    <3>2. i \in Admissible /\ i \in 1..Len(queue)
      BY <3>1, <1>1, LeastRow
    <3>3. Continuations = {} /\ Deferred(queue[i].kind)
      BY <1>4 DEF TakeNotices
    <3> HIDE DEF i
    <3>4. queue[i].kind # "alert" /\ ~IsContinuation(queue[i])
      BY <3>2, <3>3 DEF Admissible, Parked, Continuations
    <3>5. queue[i] \in Elems(queue)
      BY <1>1, <1>2, <3>2
    <3> QED
      BY <3>3, <3>4, <3>5 DEF Held, Notices
  <2>3. \A r \in Elems(queue) : Keyed(r)
    BY DEF KeyedRows
  <2>4. Keyed(Admission(queue, nextId)) /\ \A r \in Elems(WithoutHeld(queue)) : Keyed(r)
    BY <1>1, <2>2, <2>3, AdmissionKeyed
  <2> QED
    BY <2>1, <2>4 DEF KeyedRows, Keyed
<1>5. CASE TakeRow
  <2> DEFINE i == Least(Admissible)
             rest == DeleteAt(queue, i)
  <2>1. i \in 1..Len(queue)
    <3>1. Admissible \subseteq DOMAIN queue /\ Admissible # {}
      BY <1>5 DEF Admissible, TakeRow
    <3> QED
      BY <3>1, <1>1, LeastRow
  <2>2. hand' = {queue[i]} /\ (queue' = WithoutNotices(rest) \/ queue' = rest)
    BY <1>5 DEF TakeRow
  <2> HIDE DEF i
  <2>3. rest \in Seq(Row) /\ Elems(rest) \subseteq Elems(queue) /\ queue[i] \in Elems(queue)
    BY <1>1, <1>2, <2>1, RowTaken
  <2> HIDE DEF rest
  <2>4. Elems(WithoutNotices(rest)) \subseteq Elems(rest)
    BY <2>3, WithoutNoticesRows
  <2> QED
    BY <2>2, <2>3, <2>4 DEF KeyedRows, Keyed
<1>6. CASE Park
  BY <1>6 DEF Park, KeyedRows, Keyed
<1> QED
  BY <1>3, <1>4, <1>5, <1>6 DEF LoopNext

\* A row in front is one the loop held, or a new one.
LEMMA FrontingKeyed ==
  ASSUME IInv, KeyedRows, Fronting
  PROVE  KeyedRows'
<1>1. /\ \A row \in hand : row \in Row /\ Keyed(row)
      /\ queue \in Seq(Row) /\ nextArrivalSequence \in Nat
  BY RowFacts DEF KeyedRows
<1>2. \A kind \in FrontKinds : \A key \in KeysOf(kind) :
        NewRow(kind, key) \in Row /\ Keyed(NewRow(kind, key))
  BY InboxAssumption, EnqueuedNewRow, NewRowKeyed
<1>3. \E row \in Row : /\ Keyed(row)
                       /\ hand' = {} \/ hand' = hand \/ hand' = {row}
                       /\ PutFirst(row) \/ queue' = queue
  BY <1>1, <1>2, Zenon DEF Fronting, PutBackAny, ResumeAny, RestoreAny, ReplayAny,
     PutBack, Resume, Restore, Replay, PushFront
<1>4. PICK row \in Row : /\ Keyed(row)
                         /\ hand' = {} \/ hand' = hand \/ hand' = {row}
                         /\ PutFirst(row) \/ queue' = queue
  BY <1>3
<1>5. \A r \in Elems(queue') : r \in Elems(queue) \/ SameMessage(r, row)
  <2>1. CASE PutFirst(row)
    BY <1>1, <2>1, PutFirstRows
  <2> QED
    BY <1>4, <2>1
<1>6. \A r \in Elems(queue') : Keyed(r)
  BY <1>4, <1>5, CopyKeyed DEF KeyedRows
<1>7. \A r \in hand' : Keyed(r)
  BY <1>4 DEF KeyedRows
<1> QED
  BY <1>6, <1>7 DEF KeyedRows, Keyed

LEMMA KeyedInvariance == Spec => []KeyedRows
<1>1. Init => KeyedRows
  BY DEF Init, KeyedRows, Elems
<1>2. ASSUME IInv, KeyedRows, [Next]_vars PROVE KeyedRows'
  <2>1. CASE Drain \/ Clear
    BY <1>2, <2>1 DEF Drain, Clear, KeyedRows, Keyed, Elems
  <2>2. CASE Finish \/ SealIngress \/ UnsealIngress \/ Start \/ UNCHANGED vars
    <3>1. queue' = queue /\ hand' \subseteq hand
      BY <2>2 DEF Finish, SealIngress, UnsealIngress, Start, vars, inboxVars
    <3> QED
      BY <1>2, <3>1 DEF KeyedRows, Keyed
  <2> QED
    BY <1>2, <2>1, <2>2, PushKeyed, TakeKeyed, FrontingKeyed, Zenon DEF Next, Fronting
<1> QED
  BY <1>1, <1>2, Invariance, PTL DEF Spec

\* r may stand ahead of s: by class, then by arrival.
Ahead(r, s) ==
  /\ Priority(r.kind) <= Priority(s.kind)
  /\ Priority(r.kind) = Priority(s.kind) => r.seq < s.seq

InOrder(q) == \A i, j \in DOMAIN q : i < j => Ahead(q[i], q[j])

LEMMA OrderParts == InOrder(queue) <=> PriorityOrder /\ FifoWithinClass
BY Zenon DEF InOrder, Ahead, PriorityOrder, FifoWithinClass

LEMMA PriorityRange == \A kind : Priority(kind) \in 0..3
BY DEF Priority

LEMMA FilterInOrder ==
  ASSUME NEW q \in Seq(Row), InOrder(q), NEW S
  PROVE  InOrder(Filter(q, S))
<1> DEFINE t == Filter(q, S)
<1>1. t \in Seq(Row) /\ \E f : KeepsUpTo(f, t, q, S, Len(q))
  BY FilterKeeps
<1> HIDE DEF t
<1>2. PICK f : KeepsUpTo(f, t, q, S, Len(q))
  BY <1>1
<1>3. /\ DOMAIN t = 1..Len(t) /\ DOMAIN q = 1..Len(q)
      /\ \A i \in 1..Len(t) : f[i] \in 1..Len(q) /\ t[i] = q[f[i]]
      /\ \A i, j \in 1..Len(t) : i < j => f[i] < f[j]
  BY <1>1, <1>2 DEF KeepsUpTo
<1>4. ASSUME NEW i \in DOMAIN t, NEW j \in DOMAIN t, i < j PROVE Ahead(t[i], t[j])
  <2>1. /\ f[i] \in DOMAIN q /\ f[j] \in DOMAIN q /\ f[i] < f[j]
        /\ t[i] = q[f[i]] /\ t[j] = q[f[j]]
    BY <1>3, <1>4
  <2>2. Ahead(q[f[i]], q[f[j]])
    BY <2>1, Zenon DEF InOrder
  <2> QED
    BY <2>1, <2>2, Zenon
<1>5. InOrder(t)
  BY <1>4, Zenon DEF InOrder
<1> QED
  BY <1>5 DEF t

LEMMA DeleteInOrder ==
  ASSUME NEW q \in Seq(Row), InOrder(q), NEW k \in 1..Len(q)
  PROVE  InOrder(DeleteAt(q, k))
<1> DEFINE t == DeleteAt(q, k)
           f(i) == IF i < k THEN i ELSE i + 1
<1>1. /\ t \in Seq(Row) /\ Len(t) = Len(q) - 1
      /\ \A j \in 1..(k - 1) : t[j] = q[j]
      /\ \A j \in k..(Len(q) - 1) : t[j] = q[j + 1]
  BY DeleteAtIndexes
<1> HIDE DEF t
<1>2. DOMAIN t = 1..(Len(q) - 1) /\ DOMAIN q = 1..Len(q) /\ Len(q) \in Nat
  BY <1>1
<1>3. \A i \in DOMAIN t : f(i) \in DOMAIN q /\ t[i] = q[f(i)]
  BY <1>1, <1>2
<1>4. \A i, j \in DOMAIN t : i < j => f(i) < f(j)
  BY <1>2
<1> HIDE DEF f
<1>5. InOrder(t)
  BY <1>3, <1>4, Zenon DEF InOrder
<1> QED
  BY <1>5 DEF t

\* A row inserted where those before may precede it and it those after.
LEMMA InsertInOrder ==
  ASSUME NEW q \in Seq(Row), InOrder(q), NEW m \in Row, NEW k \in 1..(Len(q) + 1),
         \A j \in DOMAIN q : j < k => Ahead(q[j], m),
         \A j \in DOMAIN q : j >= k => Ahead(m, q[j])
  PROVE  InOrder(InsertAt(q, k, m))
<1> DEFINE t == InsertAt(q, k, m)
           f(i) == IF i < k THEN i ELSE i - 1
<1>1. /\ t \in Seq(Row) /\ Len(t) = Len(q) + 1 /\ t[k] = m
      /\ \A j \in 1..(k - 1) : t[j] = q[j]
      /\ \A j \in (k + 1)..(Len(q) + 1) : t[j] = q[j - 1]
  BY InsertAtIndexes
<1> HIDE DEF t
<1>2. DOMAIN t = 1..(Len(q) + 1) /\ DOMAIN q = 1..Len(q) /\ Len(q) \in Nat
  BY <1>1
<1>3. \A i \in DOMAIN t : i # k => f(i) \in DOMAIN q /\ t[i] = q[f(i)]
  BY <1>1, <1>2
<1>4. \A i, j \in DOMAIN t : i < j /\ i # k /\ j # k => f(i) < f(j)
  BY <1>2
<1>5. \A i \in DOMAIN t : (i < k => f(i) < k) /\ (i > k => f(i) >= k)
  BY <1>2
<1> HIDE DEF f
<1>6. ASSUME NEW i \in DOMAIN t, NEW j \in DOMAIN t, i < j PROVE Ahead(t[i], t[j])
  <2>1. CASE i # k /\ j # k
    BY <1>3, <1>4, <1>6, <2>1, Zenon DEF InOrder
  <2>2. CASE j = k
    <3>1. i < k /\ i # k
      BY <1>2, <1>6, <2>2
    <3>2. f(i) \in DOMAIN q /\ t[i] = q[f(i)] /\ f(i) < k
      BY <1>3, <1>5, <3>1, Zenon
    <3> QED
      BY <1>1, <2>2, <3>2, Zenon
  <2>3. CASE i = k
    <3>1. j > k /\ j # k
      BY <1>2, <1>6, <2>3
    <3>2. f(j) \in DOMAIN q /\ t[j] = q[f(j)] /\ f(j) >= k
      BY <1>3, <1>5, <3>1, Zenon
    <3> QED
      BY <1>1, <2>3, <3>2, Zenon
  <2> QED
    BY <2>1, <2>2, <2>3
<1>7. InOrder(t)
  BY <1>6, Zenon DEF InOrder
<1> QED
  BY <1>7 DEF t

LEMMA AppendInOrder ==
  ASSUME NEW q \in Seq(Row), InOrder(q), NEW m \in Row, \A j \in DOMAIN q : Ahead(q[j], m)
  PROVE  InOrder(Append(q, m))
<1> DEFINE t == Append(q, m)
<1>1. /\ DOMAIN t = 1..(Len(q) + 1) /\ DOMAIN q = 1..Len(q) /\ Len(q) \in Nat
      /\ t[Len(q) + 1] = m
      /\ \A i \in 1..Len(q) : t[i] = q[i]
  OBVIOUS
<1> HIDE DEF t
<1>2. ASSUME NEW i \in DOMAIN t, NEW j \in DOMAIN t, i < j PROVE Ahead(t[i], t[j])
  <2>1. i \in DOMAIN q /\ t[i] = q[i]
    BY <1>1, <1>2
  <2>2. CASE j \in DOMAIN q
    BY <1>1, <1>2, <2>1, <2>2, Zenon DEF InOrder
  <2>3. CASE j = Len(q) + 1
    BY <1>1, <2>1, <2>3, Zenon
  <2> QED
    BY <1>1, <1>2, <2>2, <2>3
<1>3. InOrder(t)
  BY <1>2, Zenon DEF InOrder
<1> QED
  BY <1>3 DEF t

\* enqueueMessage: ahead of the first row of a lower class, so behind every
\* row of its own, all of which arrived earlier; a replacement takes the place
\* and the sequence of a row of its own class.
LEMMA EnqueuedInOrder ==
  ASSUME IInv, ArrivalSequencesDistinct, KeyedRows, InOrder(queue),
         NEW kind \in Kind, NEW key \in KeysOf(kind)
  PROVE  InOrder(Enqueued(NewRow(kind, key)))
<1> DEFINE m == NewRow(kind, key)
<1>1. queue \in Seq(Row) /\ DOMAIN queue = 1..Len(queue) /\ Len(queue) \in Nat
  BY RowFacts
<1>2. m \in Row /\ m.seq = nextArrivalSequence /\ Keyed(m)
  BY EnqueuedNewRow, NewRowKeyed DEF NewRow
<1>3. \A j \in DOMAIN queue : queue[j].seq < m.seq
  BY <1>2 DEF ArrivalSequencesDistinct
<1> HIDE DEF m
<1>4. \A j \in DOMAIN queue : Priority(queue[j].kind) <= Priority(m.kind) => Ahead(queue[j], m)
  BY <1>3, Zenon DEF Ahead
<1>5. CASE Duplicates(m) # {}
  <2> DEFINE i == Least(Duplicates(m))
             n == [m EXCEPT !.seq = queue[i].seq]
             q == [queue EXCEPT ![i] = n]
  <2>1. i \in DOMAIN queue /\ queue[i].key = m.key /\ m.key # NoKey
    <3>1. Duplicates(m) \subseteq DOMAIN queue
      BY DEF Duplicates
    <3>2. i \in Duplicates(m)
      BY <3>1, <1>1, <1>5, LeastRow
    <3> QED
      BY <3>2 DEF Duplicates
  <2>2. Priority(queue[i].kind) = 3 /\ Priority(m.kind) = 3
    <3>1. queue[i] \in Elems(queue)
      BY <2>1 DEF Elems
    <3> HIDE DEF i
    <3> QED
      BY <1>2, <2>1, <3>1 DEF KeyedRows, Keyed
  <2>3. n.seq = queue[i].seq /\ n.kind = m.kind
    BY <1>2 DEF Row
  <2>4. Enqueued(m) = q
    BY <1>5 DEF Enqueued
  <2> HIDE DEF i, n
  <2>5. DOMAIN q = DOMAIN queue /\ \A j \in DOMAIN queue : q[j] = IF j = i THEN n ELSE queue[j]
    BY <1>1
  <2> HIDE DEF q
  <2>6. \A j \in DOMAIN queue : /\ q[j].seq = queue[j].seq
                                /\ Priority(q[j].kind) = Priority(queue[j].kind)
    BY <2>2, <2>3, <2>5
  <2>7. InOrder(q)
    BY <2>5, <2>6, Zenon DEF InOrder, Ahead
  <2> QED
    BY <2>4, <2>7 DEF m
<1>6. CASE Duplicates(m) = {} /\ LowerPriority(m) # {}
  <2> DEFINE i == Least(LowerPriority(m))
  <2>1. /\ i \in 1..Len(queue) /\ Priority(queue[i].kind) > Priority(m.kind)
        /\ \A j \in LowerPriority(m) : i <= j
    <3>1. LowerPriority(m) \subseteq DOMAIN queue /\ LowerPriority(m) \subseteq Nat
      BY <1>1 DEF LowerPriority
    <3>2. i \in LowerPriority(m) /\ \A j \in LowerPriority(m) : i <= j
      BY <3>1, <1>6, LeastIndex
    <3> QED
      BY <1>1, <3>2 DEF LowerPriority
  <2>2. Enqueued(m) = InsertAt(queue, i, m)
    BY <1>6 DEF Enqueued
  <2> HIDE DEF i
  <2>3. \A j \in DOMAIN queue : Priority(queue[j].kind) \in Int
    BY PriorityRange
  <2>4. Priority(m.kind) \in Int
    BY PriorityRange
  <2>5. ASSUME NEW j \in DOMAIN queue, j < i PROVE Ahead(queue[j], m)
    <3>1. j \notin LowerPriority(m)
      BY <1>1, <2>1, <2>5
    <3>2. Priority(queue[j].kind) <= Priority(m.kind)
      BY <2>3, <2>4, <3>1 DEF LowerPriority
    <3> QED
      BY <1>4, <3>2
  <2>6. ASSUME NEW j \in DOMAIN queue, j >= i PROVE Ahead(m, queue[j])
    <3>1. Priority(queue[i].kind) <= Priority(queue[j].kind)
      <4>1. CASE j = i
        BY <1>1, <2>1, <2>3, <4>1
      <4>2. CASE j # i
        <5>1. i < j /\ i \in DOMAIN queue
          BY <1>1, <2>1, <2>6, <4>2
        <5> QED
          BY <5>1 DEF InOrder, Ahead
      <4> QED
        BY <4>1, <4>2
    <3>2. Priority(m.kind) < Priority(queue[j].kind)
      BY <1>1, <2>1, <2>3, <2>4, <3>1
    <3> QED
      BY <2>3, <2>4, <3>2 DEF Ahead
  <2>7. i \in 1..(Len(queue) + 1)
    BY <1>1, <2>1
  <2>8. InOrder(InsertAt(queue, i, m))
    BY <1>1, <1>2, <2>5, <2>6, <2>7, InsertInOrder
  <2> QED
    BY <2>2, <2>8 DEF m
<1>7. CASE Duplicates(m) = {} /\ LowerPriority(m) = {}
  <2>1. Enqueued(m) = Append(queue, m)
    BY <1>7 DEF Enqueued
  <2>2. \A j \in DOMAIN queue : Priority(queue[j].kind) \in Int
    BY PriorityRange
  <2>3. Priority(m.kind) \in Int
    BY PriorityRange
  <2>4. \A j \in DOMAIN queue : Priority(queue[j].kind) <= Priority(m.kind)
    BY <1>7, <2>2, <2>3 DEF LowerPriority
  <2>5. InOrder(Append(queue, m))
    BY <1>1, <1>2, <1>4, <2>4, AppendInOrder
  <2> QED
    BY <2>1, <2>5 DEF m
<1> QED
  BY <1>5, <1>6, <1>7

LEMMA PushInOrder ==
  ASSUME IInv, ArrivalSequencesDistinct, KeyedRows, InOrder(queue), TryPush
  PROVE  InOrder(queue)'
<1>1. PICK kind \in PushKinds : \E key \in KeysOf(kind) :
        \/ PushNoticeHeld(kind, key)
        \/ kind = "task" /\ PushNoticeWakes(key)
        \/ PushToWaiter(kind, key)
        \/ kind = "heartbeat" /\ CoalesceHeartbeat
        \/ PushQueued(kind, key)
  BY Zenon DEF TryPush
<1>2. PICK key \in KeysOf(kind) :
        \/ PushNoticeHeld(kind, key)
        \/ kind = "task" /\ PushNoticeWakes(key)
        \/ PushToWaiter(kind, key)
        \/ kind = "heartbeat" /\ CoalesceHeartbeat
        \/ PushQueued(kind, key)
  BY <1>1, Zenon
<1>3. kind \in Kind
  BY InboxAssumption
<1> DEFINE q == Enqueued(NewRow(kind, key))
<1>4. q \in Seq(Row) /\ queue \in Seq(Row) /\ InOrder(q)
  BY <1>3, EnqueuedInOrder, EnqueuedNewRow, RowFacts
<1>5. queue' = q \/ queue' = WithoutHeld(q) \/ queue' = queue \/ queue' = WithoutNotices(queue)
  BY <1>2 DEF PushNoticeHeld, PushQueued, PushNoticeWakes, PushToWaiter, CoalesceHeartbeat
<1> HIDE DEF q
<1>6. InOrder(WithoutHeld(q)) /\ InOrder(WithoutNotices(queue))
  BY <1>4, FilterInOrder DEF WithoutHeld, WithoutNotices
<1>7. \A p : InOrder(p) /\ queue' = p => InOrder(queue')
  OBVIOUS
<1> QED
  BY <1>4, <1>5, <1>6, <1>7 DEF InOrder, Ahead

LEMMA TakeInOrder ==
  ASSUME IInv, InOrder(queue), LoopNext
  PROVE  InOrder(queue)'
<1>1. queue \in Seq(Row)
  BY RowFacts
<1>2. \A k \in 1..Len(queue) : LET rest == DeleteAt(queue, k)
                               IN  InOrder(rest) /\ InOrder(WithoutNotices(rest))
  <2> TAKE k \in 1..Len(queue)
  <2> DEFINE rest == DeleteAt(queue, k)
  <2>1. rest \in Seq(Row) /\ InOrder(rest)
    BY <1>1, RowTaken, DeleteInOrder
  <2> HIDE DEF rest
  <2>2. InOrder(WithoutNotices(rest))
    BY <2>1, FilterInOrder DEF WithoutNotices
  <2> QED
    BY <2>1, <2>2 DEF rest
<1>3. InOrder(WithoutHeld(queue))
  BY <1>1, FilterInOrder DEF WithoutHeld
<1>4. InOrder(queue')
  <2>1. CASE TakeContinuation
    <3> DEFINE i == Least(Continuations)
    <3>1. i \in 1..Len(queue)
      <4>1. Continuations \subseteq DOMAIN queue /\ Continuations # {}
        BY <2>1 DEF Continuations, TakeContinuation
      <4> QED
        BY <4>1, <1>1, LeastRow
    <3>2. queue' = DeleteAt(queue, i)
      BY <2>1 DEF TakeContinuation
    <3> HIDE DEF i
    <3> QED
      BY <1>2, <3>1, <3>2
  <2>2. CASE TakeNotices
    BY <1>3, <2>2 DEF TakeNotices
  <2>3. CASE TakeRow
    <3> DEFINE i == Least(Admissible)
               rest == DeleteAt(queue, i)
    <3>1. i \in 1..Len(queue)
      <4>1. Admissible \subseteq DOMAIN queue /\ Admissible # {}
        BY <2>3 DEF Admissible, TakeRow
      <4> QED
        BY <4>1, <1>1, LeastRow
    <3>2. queue' = WithoutNotices(rest) \/ queue' = rest
      BY <2>3 DEF TakeRow
    <3> HIDE DEF i
    <3>3. InOrder(rest) /\ InOrder(WithoutNotices(rest))
      BY <1>2, <3>1
    <3> QED
      BY <3>2, <3>3
  <2>4. CASE Park
    BY <2>4 DEF Park
  <2> QED
    BY <2>1, <2>2, <2>3, <2>4 DEF LoopNext
<1> QED
  BY <1>4 DEF InOrder, Ahead

\* Higher classes first and FIFO within a class: no push, replacement,
\* admission or drop disturbs that order, only a row put in front.
THEOREM OrderIsKept == Spec => OrderKept
<1> DEFINE Keeps == PriorityOrder /\ FifoWithinClass /\ ~Fronting
                      => PriorityOrder' /\ FifoWithinClass'
<1>1. ASSUME IInv, ArrivalSequencesDistinct, KeyedRows, InOrder(queue), Next, ~Fronting
      PROVE  InOrder(queue)'
  <2>1. CASE TryPush
    BY <1>1, <2>1, PushInOrder
  <2>2. CASE LoopNext
    BY <1>1, <2>2, TakeInOrder
  <2>3. CASE Drain \/ Clear
    BY <2>3 DEF Drain, Clear, InOrder
  <2>4. CASE Finish \/ SealIngress \/ UnsealIngress \/ Start
    <3>1. queue' = queue
      BY <2>4 DEF Finish, SealIngress, UnsealIngress, Start, inboxVars
    <3> QED
      BY <1>1, <3>1 DEF InOrder, Ahead
  <2> QED
    BY <1>1, <2>1, <2>2, <2>3, <2>4, Zenon DEF Next, Fronting
<1>2. InOrder(queue)' => PriorityOrder' /\ FifoWithinClass'
  BY Zenon DEF InOrder, Ahead, PriorityOrder, FifoWithinClass
<1> HIDE DEF Keeps
<1>3. IInv /\ ArrivalSequencesDistinct /\ KeyedRows /\ [Next]_vars => [Keeps]_vars
  <2> SUFFICES ASSUME IInv, ArrivalSequencesDistinct, KeyedRows, Next PROVE Keeps
    OBVIOUS
  <2> QED
    BY <1>1, <1>2, OrderParts, Zenon DEF Keeps
<1> USE DEF Keeps
<1> QED
  BY <1>3, Invariance, SequencesDistinct, KeyedInvariance, PTL DEF Spec, OrderKept
==============================================================================
