------------------------------ MODULE Folding ------------------------------
(***************************************************************************)
(* What FoldLeft computes, for any operator: facts to be instantiated with *)
(* the operators other modules fold with.  Induction is by the least       *)
(* counterexample, LeastNat.                                               *)
(***************************************************************************)
EXTENDS Integers, Sequences, SequencesExt, WellFoundedInduction, TLAPS

CONSTANT Op(_, _, _)

Fold(p, b, s) == FoldLeft(LAMBDA a, e : Op(p, a, e), b, s)

\* A non-empty set of naturals has a least element.
LEMMA LeastNat ==
  ASSUME NEW S \in SUBSET Nat, S # {}
  PROVE  \E m \in S : \A k \in S : m <= k
<1> DEFINE R == OpToRel(<, Nat)
<1>1. IsWellFoundedOn(R, Nat)  BY NatLessThanWellFounded
<1> HIDE DEF R
<1>2. PICK x \in S : \A y \in S : ~(<<y, x>> \in R)  BY <1>1, WFMin
<1>3. ASSUME NEW y \in S PROVE x <= y
  <2>1. x \in Nat /\ y \in Nat OBVIOUS
  <2>2. CASE y < x
    <3>1. <<y, x>> \in R  BY <2>1, <2>2 DEF R, OpToRel
    <3>. QED BY <3>1, <1>2
  <2>. QED BY <2>1, <2>2
<1>. QED BY <1>3

\* Induction up to a bound, with the property given as the set where it holds.
LEMMA Upto ==
  ASSUME NEW n \in Nat, NEW H, 0 \in H, \A k \in 0 .. n - 1 : k \in H => k + 1 \in H
  PROVE  \A k \in 0 .. n : k \in H
<1> SUFFICES ASSUME NEW q \in 0 .. n, q \notin H PROVE FALSE  OBVIOUS
<1> DEFINE C == {k \in 0 .. n : k \notin H}
<1>1. C \in SUBSET Nat /\ C # {}  OBVIOUS
<1>2. PICK m \in C : \A k \in C : m <= k  BY <1>1, LeastNat
<1>3. m # 0 /\ m \in 0 .. n /\ m - 1 \in 0 .. n - 1 /\ ~(m <= m - 1)  BY <1>2
<1>4. m - 1 \in H  BY <1>2, <1>3
<1>5. m - 1 + 1 \in H  BY <1>3, <1>4
<1>. QED  BY <1>2, <1>3, <1>5

Iterates(g, p, b, s, k) ==
  /\ g = [t \in SUBSET (1 .. k) |-> g[t]]
  /\ \A t \in SUBSET (1 .. k) : g[t] = IF t = {} THEN b ELSE Op(p, g[t \ {Max(t)}], s[Max(t)])

LEMMA IteratesExists ==
  ASSUME NEW p, NEW b, NEW s, NEW n \in Nat
  PROVE  \E g : Iterates(g, p, b, s, n)
<1> DEFINE H == {k \in Nat : \E g : Iterates(g, p, b, s, k)}
<1>1. 0 \in H
  <2> DEFINE g == [t \in SUBSET (1 .. 0) |-> b]
  <2>1. \A t \in SUBSET (1 .. 0) : t = {}  OBVIOUS
  <2>2. Iterates(g, p, b, s, 0)  BY <2>1 DEF Iterates
  <2>. QED  BY <2>2
<1>2. ASSUME NEW k \in 0 .. n - 1, k \in H PROVE k + 1 \in H
  <2>1. PICK g : Iterates(g, p, b, s, k)  BY <1>2
  <2> DEFINE h == [t \in SUBSET (1 .. k + 1) |-> IF k + 1 \in t THEN Op(p, g[t \ {k + 1}], s[k + 1]) ELSE g[t]]
  <2>2. ASSUME NEW t \in SUBSET (1 .. k + 1)
        PROVE  h[t] = IF t = {} THEN b ELSE Op(p, h[t \ {Max(t)}], s[Max(t)])
    <3>1. t \ {k + 1} \in SUBSET (1 .. k) /\ t \ {Max(t)} \in SUBSET (1 .. k + 1)
      <4>1. \A x \in 1 .. k + 1 : x # k + 1 => x \in 1 .. k  OBVIOUS
      <4>2. t \subseteq 1 .. k + 1  OBVIOUS
      <4> HIDE DEF h
      <4>. QED  BY <4>1, <4>2
    <3>2. CASE k + 1 \in t
      <4>1. Max(t) = k + 1
        <5>1. \A x \in t : k + 1 >= x  OBVIOUS
        <5>2. \A x \in t : x >= k + 1 => x = k + 1  OBVIOUS
        <5>. QED  BY <3>2, <5>1, <5>2 DEF Max
      <4>2. h[t \ {k + 1}] = g[t \ {k + 1}]  BY <3>1
      <4>. QED  BY <3>2, <4>1, <4>2
    <3>3. CASE k + 1 \notin t
      <4>1. t \in SUBSET (1 .. k) /\ t \ {Max(t)} \in SUBSET (1 .. k)  BY <3>1, <3>3
      <4>2. h[t] = g[t] /\ h[t \ {Max(t)}] = g[t \ {Max(t)}]  BY <3>1, <3>3, <4>1
      <4>. QED  BY <2>1, <4>1, <4>2 DEF Iterates
    <3>. QED  BY <3>2, <3>3
  <2>3. Iterates(h, p, b, s, k + 1)  
    <3>1. h = [t \in SUBSET (1 .. k + 1) |-> h[t]]  OBVIOUS
    <3> HIDE DEF h
    <3>. QED  BY <2>2, <3>1 DEF Iterates
  <2>. QED  BY <2>3
<1> HIDE DEF H
<1>3. \A k \in 0 .. n : k \in H  BY <1>1, <1>2, Upto
<1>. QED  BY <1>3 DEF H

LEMMA FoldIterates ==
  ASSUME NEW p, NEW b, NEW s, NEW n \in Nat, DOMAIN s = 1 .. n
  PROVE  \E g : Iterates(g, p, b, s, n) /\ Fold(p, b, s) = g[1 .. n]
<1>1. PICK g : Iterates(g, p, b, s, n)  BY IteratesExists
<1> DEFINE Q(f) == f = [t \in SUBSET (1 .. n) |-> IF t = {} THEN b ELSE Op(p, f[t \ {Max(t)}], s[Max(t)])]
           it == CHOOSE f : Q(f)
<1>2. Q(g)  BY <1>1 DEF Iterates
<1>3. Q(it)  BY <1>2
<1>4. Fold(p, b, s) = it[1 .. n]  BY DEF Fold, FoldLeft, MapThenFoldSet
<1> HIDE DEF it
<1>5. Iterates(it, p, b, s, n)  BY <1>3 DEF Iterates
<1>. QED  BY <1>4, <1>5

\* A trace of the fold: its value after each element.
Trace(tr, p, b, s, n) == tr[0] = b /\ \A i \in 1 .. n : tr[i] = Op(p, tr[i - 1], s[i])

LEMMA FoldTrace ==
  ASSUME NEW p, NEW b, NEW s, NEW n \in Nat, DOMAIN s = 1 .. n
  PROVE  \E tr : Trace(tr, p, b, s, n) /\ Fold(p, b, s) = tr[n]
<1>1. PICK g : Iterates(g, p, b, s, n) /\ Fold(p, b, s) = g[1 .. n]  BY SMTT(30), ZenonT(60), FoldIterates
<1> DEFINE tr == [i \in 0 .. n |-> g[1 .. i]]
<1>2. tr[0] = b
  <2>1. 1 .. 0 = {} /\ {} \in SUBSET (1 .. n)  OBVIOUS
  <2>2. g[{}] = b  BY <1>1, <2>1 DEF Iterates
  <2>. QED  BY <2>1, <2>2
<1>3. ASSUME NEW i \in 1 .. n PROVE tr[i] = Op(p, tr[i - 1], s[i])
  <2>1. /\ 1 .. i \in SUBSET (1 .. n) /\ 1 .. i # {} /\ (1 .. i) \ {i} = 1 .. (i - 1)
        /\ i - 1 \in 0 .. n /\ i \in 0 .. n
    <3> HIDE DEF tr
    <3>1. i \in Int /\ 1 <= i /\ i <= n /\ i \in 1 .. i  OBVIOUS
    <3>2. \A x \in 1 .. i : x \in 1 .. n  OBVIOUS
    <3>3. \A x : x \in (1 .. i) \ {i} <=> x \in 1 .. (i - 1)  OBVIOUS
    <3>. QED  BY <3>1, <3>2, <3>3
  <2>2. Max(1 .. i) = i
    <3>1. i \in 1 .. i /\ \A x \in 1 .. i : i >= x /\ (x >= i => x = i)  OBVIOUS
    <3>. QED  BY <3>1 DEF Max
  <2>3. g[1 .. i] = Op(p, g[(1 .. i) \ {Max(1 .. i)}], s[Max(1 .. i)])  BY <1>1, <2>1 DEF Iterates
  <2>. QED  BY <2>1, <2>2, <2>3
<1> HIDE DEF tr
<1>4. Trace(tr, p, b, s, n)  BY <1>2, <1>3 DEF Trace
<1>5. tr[n] = g[1 .. n]  BY DEF tr
<1>. QED  BY <1>1, <1>4, <1>5

\* Two traces agree as far as their sequences do.
LEMMA TraceUnique ==
  ASSUME NEW p, NEW b, NEW s, NEW t, NEW n \in Nat, NEW f, NEW g, Trace(f, p, b, s, n), Trace(g, p, b, t, n),
         \A i \in 1 .. n : s[i] = t[i]
  PROVE  f[n] = g[n]
<1> DEFINE H == {k \in 0 .. n : f[k] = g[k]}
<1>1. 0 \in H  BY DEF Trace
<1>2. ASSUME NEW k \in 0 .. n - 1, k \in H PROVE k + 1 \in H
  <2>1. k + 1 \in 1 .. n /\ k + 1 - 1 = k  OBVIOUS
  <2>. QED  BY <1>2, <2>1 DEF Trace
<1> HIDE DEF H
<1>3. \A k \in 0 .. n : k \in H  BY <1>1, <1>2, Upto
<1>. QED  BY <1>3 DEF H

\* The fold of nothing is where it starts.
THEOREM FoldEmpty == \A p, b : Fold(p, b, <<>>) = b
<1> TAKE p, b
<1>1. DOMAIN <<>> = 1 .. 0  OBVIOUS
<1>2. PICK tr : Trace(tr, p, b, <<>>, 0) /\ Fold(p, b, <<>>) = tr[0]  BY <1>1, FoldTrace
<1>. QED  BY <1>2 DEF Trace

\* The fold of one element is one application.
THEOREM FoldOne == \A p, b, e : Fold(p, b, <<e>>) = Op(p, b, e)
<1> TAKE p, b, e
<1> DEFINE s == <<e>>
<1>1. DOMAIN s = 1 .. 1 /\ s[1] = e  OBVIOUS
<1> HIDE DEF s
<1>2. PICK tr : Trace(tr, p, b, s, 1) /\ Fold(p, b, s) = tr[1]
  <2>1. 1 \in Nat  OBVIOUS
  <2>2. PICK n \in Nat : n = 1  BY <2>1
  <2>3. DOMAIN s = 1 .. n  BY <1>1, <2>2
  <2>4. \E tr : Trace(tr, p, b, s, n) /\ Fold(p, b, s) = tr[n]  BY <2>3, FoldTrace
  <2>. QED  BY <2>2, <2>4
<1>3. tr[0] = b /\ \A i \in 1 .. 1 : tr[i] = Op(p, tr[i - 1], s[i])  BY <1>2 DEF Trace
<1>4. tr[1] = Op(p, tr[0], s[1])
  <2>1. PICK i \in 1 .. 1 : i = 1  OBVIOUS
  <2>2. tr[i] = Op(p, tr[i - 1], s[i]) /\ i - 1 = 0  BY <1>3, <2>1
  <2>. QED  BY <2>1, <2>2
<1>. QED  BY <1>1, <1>2, <1>3, <1>4 DEF s

\* One element more is one application more, at the end.
THEOREM FoldAppend ==
  ASSUME NEW S, NEW s \in Seq(S), NEW e \in S, NEW p, NEW b
  PROVE  Fold(p, b, Append(s, e)) = Op(p, Fold(p, b, s), e)
<1> DEFINE n == Len(s)
           a == Append(s, e)
<1>1. /\ n \in Nat /\ DOMAIN s = 1 .. n /\ DOMAIN a = 1 .. (n + 1)
      /\ a[n + 1] = e /\ \A i \in 1 .. n : a[i] = s[i]
  OBVIOUS
<1> HIDE DEF n, a
<1>2. PICK f : Trace(f, p, b, s, n) /\ Fold(p, b, s) = f[n]  BY <1>1, FoldTrace
<1>3. PICK g : Trace(g, p, b, a, n + 1) /\ Fold(p, b, a) = g[n + 1]  BY <1>1, FoldTrace
<1>4. Trace(g, p, b, a, n)  BY <1>1, <1>3 DEF Trace
<1>5. f[n] = g[n]  BY <1>1, <1>2, <1>4, TraceUnique
<1>6. g[n + 1] = Op(p, g[n + 1 - 1], a[n + 1]) /\ n + 1 - 1 = n  BY <1>1, <1>3 DEF Trace
<1>. QED  BY <1>1, <1>2, <1>3, <1>5, <1>6 DEF a

\* Folding a concatenation goes on where the first part ended.
THEOREM FoldConcat ==
  ASSUME NEW S, NEW s \in Seq(S), NEW t \in Seq(S), NEW p, NEW b
  PROVE  Fold(p, b, s \o t) = Fold(p, Fold(p, b, s), t)
<1> DEFINE m == Len(s)
           n == Len(t)
           u == s \o t
<1>1. /\ m \in Nat /\ n \in Nat /\ DOMAIN s = 1 .. m /\ DOMAIN t = 1 .. n /\ DOMAIN u = 1 .. (m + n)
      /\ \A i \in 1 .. m : u[i] = s[i]
      /\ \A i \in 1 .. n : u[m + i] = t[i]
  OBVIOUS
<1> HIDE DEF m, n, u
<1>2. PICK f : Trace(f, p, b, s, m) /\ Fold(p, b, s) = f[m]  BY SMTT(30), ZenonT(60), <1>1, FoldTrace
<1>3. PICK g : Trace(g, p, f[m], t, n) /\ Fold(p, f[m], t) = g[n]  BY <1>1, FoldTrace
<1>4. PICK h : Trace(h, p, b, u, m + n) /\ Fold(p, b, u) = h[m + n]
  <2>1. m + n \in Nat  BY <1>1
  <2>. QED  BY <1>1, <2>1, FoldTrace
<1>5. Trace(h, p, b, u, m)  BY <1>1, <1>4 DEF Trace
<1>6. h[m] = f[m]  BY SMTT(30), ZenonT(60), <1>1, <1>2, <1>5, TraceUnique
<1> DEFINE k == [i \in 0 .. n |-> h[m + i]]
<1>7. Trace(k, p, f[m], t, n)
  <2>1. k[0] = f[m]  BY <1>1, <1>6
  <2>2. ASSUME NEW i \in 1 .. n PROVE k[i] = Op(p, k[i - 1], t[i])
    <3>1. m + i \in 1 .. (m + n) /\ i \in 0 .. n /\ i - 1 \in 0 .. n /\ m + i - 1 = m + (i - 1)  BY <1>1
    <3>2. h[m + i] = Op(p, h[m + i - 1], u[m + i])
      <4> HIDE DEF k
      <4>1. \A j \in 1 .. (m + n) : h[j] = Op(p, h[j - 1], u[j])  BY <1>4 DEF Trace
      <4>2. PICK j \in 1 .. (m + n) : j = m + i  BY <3>1
      <4>3. h[j] = Op(p, h[j - 1], u[j])  BY <4>1
      <4>. QED  BY <1>1, <4>2, <4>3
    <3>. QED  BY <1>1, <3>1, <3>2
  <2> HIDE DEF k
  <2>. QED  BY <2>1, <2>2 DEF Trace
<1>8. k[n] = g[n]
  <2> HIDE DEF k
  <2>. QED BY <1>1, <1>3, <1>7, TraceUnique
<1>. QED  BY <1>1, <1>2, <1>3, <1>4, <1>8 DEF u

\* A set that the operator does not leave is not left by the fold.
THEOREM FoldType ==
  ASSUME NEW S, NEW s \in Seq(S), NEW p, NEW T, NEW b \in T, \A a \in T, e \in S : Op(p, a, e) \in T
  PROVE  Fold(p, b, s) \in T
<1>1. Len(s) \in Nat /\ DOMAIN s = 1 .. Len(s) /\ \A i \in 1 .. Len(s) : s[i] \in S  OBVIOUS
<1>2. PICK f : Trace(f, p, b, s, Len(s)) /\ Fold(p, b, s) = f[Len(s)]  BY ZenonT(60), SMTT(30), <1>1, FoldTrace
<1> DEFINE H == {k \in 0 .. Len(s) : f[k] \in T}
<1>3. 0 \in H  BY <1>1, <1>2 DEF Trace
<1>4. ASSUME NEW k \in 0 .. Len(s) - 1, k \in H PROVE k + 1 \in H
  <2>1. k + 1 \in 1 .. Len(s) /\ k + 1 - 1 = k  BY <1>1
  <2>. QED  BY <1>1, <1>2, <1>4, <2>1 DEF Trace
<1> HIDE DEF H
<1>5. \A k \in 0 .. Len(s) : k \in H  BY <1>1, <1>3, <1>4, Upto
<1>. QED  BY <1>1, <1>2, <1>5 DEF H

\* A function that commutes with the operator commutes with the fold.
THEOREM FoldCommute ==
  ASSUME NEW S, NEW s \in Seq(S), NEW p, NEW T, NEW b \in T, NEW h \in [T -> T],
         \A a \in T, e \in S : Op(p, a, e) \in T /\ h[Op(p, a, e)] = Op(p, h[a], e)
  PROVE  Fold(p, h[b], s) = h[Fold(p, b, s)]
<1> DEFINE n == Len(s)
<1>1. n \in Nat /\ DOMAIN s = 1 .. n /\ \A i \in 1 .. n : s[i] \in S  OBVIOUS
<1> HIDE DEF n
<1>2. PICK f : Trace(f, p, b, s, n) /\ Fold(p, b, s) = f[n]  BY <1>1, FoldTrace
<1>3. PICK g : Trace(g, p, h[b], s, n) /\ Fold(p, h[b], s) = g[n]  BY <1>1, FoldTrace
<1> DEFINE H == {k \in 0 .. n : f[k] \in T /\ g[k] = h[f[k]]}
<1>4. 0 \in H  BY <1>1, <1>2, <1>3 DEF Trace
<1>5. ASSUME NEW k \in 0 .. n - 1, k \in H PROVE k + 1 \in H
  <2>1. k + 1 \in 1 .. n /\ k + 1 - 1 = k /\ k + 1 \in 0 .. n  BY <1>1
  <2>2. f[k + 1] = Op(p, f[k], s[k + 1]) /\ g[k + 1] = Op(p, g[k], s[k + 1])  BY <1>2, <1>3, <2>1 DEF Trace
  <2>. QED  BY <1>1, <1>5, <2>1, <2>2
<1> HIDE DEF H
<1>6. \A k \in 0 .. n : k \in H  BY <1>1, <1>4, <1>5, Upto
<1>. QED  BY <1>1, <1>2, <1>3, <1>6 DEF H
====
