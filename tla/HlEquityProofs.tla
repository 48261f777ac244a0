------------------------- MODULE HlEquityProofs -------------------------
(***************************************************************************)
(* The equity anchors for every start, every trade and transfer, every day *)
(* and second length, and any number of ticks, faults and requests.        *)
(* Sums over the ledger need induction over its length, which is done here *)
(* with sets: a set of numbers that misses one misses a least one.         *)
(***************************************************************************)
EXTENDS HlEquity, WellFoundedInduction, TLAPS

-----------------------------------------------------------------------------
(* Arithmetic and induction                                                  *)

LEMMA DivFacts ==
  ASSUME NEW d \in Nat \ {0}, NEW t \in Nat
  PROVE  t \div d \in Nat /\ (t \div d) * d \in Nat /\ (t \div d) * d <= t
OBVIOUS

LEMMA DivMonotone ==
  ASSUME NEW d \in Nat \ {0}, NEW t \in Nat, NEW u \in Nat, t <= u
  PROVE  t \div d <= u \div d
OBVIOUS

LEMMA TimesMonotone ==
  ASSUME NEW d \in Nat \ {0}, NEW t \in Nat, NEW u \in Nat, t <= u
  PROVE  t * d <= u * d
OBVIOUS

\* A set of numbers that is not empty has a least member.
LEMMA LeastNumber ==
  ASSUME NEW T, T \subseteq Nat, T # {}
  PROVE  \E n \in T : \A m \in T : n <= m
<1> DEFINE R == OpToRel(<, Nat)
<1>1. IsWellFoundedOn(R, Nat)  BY NatLessThanWellFounded
<1>2. \E x \in T : \A y \in T : <<y, x>> \notin R
  <2> HIDE DEF R
  <2>. QED  BY <1>1, WFMin
<1>3. PICK x \in T : \A y \in T : <<y, x>> \notin R  BY <1>2
<1>4. \A y \in T : ~(y < x)  BY <1>3 DEF OpToRel
<1>. QED  BY <1>4

\* Induction from 0 to L: G is the set of the numbers the claim holds of.
LEMMA Upwards ==
  ASSUME NEW L \in Nat, NEW G, 0 \in G, \A n \in 0 .. (L - 1) : n \in G => n + 1 \in G
  PROVE  0 .. L \subseteq G
<1> SUFFICES ASSUME ~(0 .. L \subseteq G) PROVE FALSE  OBVIOUS
<1> DEFINE T == (0 .. L) \ G
<1>1. T \subseteq Nat /\ T # {}  OBVIOUS
<1>2. PICK n \in T : \A m \in T : n <= m  BY <1>1, LeastNumber
<1>3. n # 0 /\ n - 1 \in 0 .. (L - 1)  BY <1>2
<1>4. n - 1 \in G  BY <1>2, <1>3
<1>5. (n - 1) + 1 = n  BY <1>2
<1>. QED  BY <1>2, <1>3, <1>4, <1>5

-----------------------------------------------------------------------------
(* Sums over the ledger                                                      *)

\* f adds up the first n numbers of a.
Adds(f, a, L) == f = [n \in 0 .. L |-> IF n = 0 THEN 0 ELSE f[n - 1] + a[n]]

LEMMA SumExists ==
  ASSUME NEW L \in Nat, NEW a
  PROVE  \E g : Adds(g, a, L)
<1> DEFINE E(k) == \E g : Adds(g, a, k)
           G == {k \in 0 .. L : E(k)}
<1>1. 0 \in G
  <2> DEFINE z == [n \in 0 .. 0 |-> 0]
  <2>1. Adds(z, a, 0)  BY DEF Adds
  <2> HIDE DEF z
  <2>2. E(0)  BY <2>1
  <2>. QED  BY <2>2
<1>2. ASSUME NEW k \in 0 .. (L - 1), k \in G PROVE k + 1 \in G
  <2>1. PICK g : Adds(g, a, k)  BY <1>2
  <2> DEFINE h == [n \in 0 .. (k + 1) |-> IF n = k + 1 THEN g[k] + a[k + 1] ELSE g[n]]
  <2>2. ASSUME NEW n \in 0 .. (k + 1) PROVE h[n] = IF n = 0 THEN 0 ELSE h[n - 1] + a[n]
    <3>1. CASE n = 0  BY <2>1, <3>1 DEF Adds
    <3>2. CASE n = k + 1  BY <3>2
    <3>3. CASE n # 0 /\ n # k + 1
      <4>1. n \in 0 .. k /\ n - 1 \in 0 .. k  BY <3>3
      <4>2. g[n] = g[n - 1] + a[n]  BY <2>1, <4>1, <3>3 DEF Adds
      <4>. QED  BY <4>1, <4>2, <3>3
    <3>. QED  BY <3>1, <3>2, <3>3
  <2>3. Adds(h, a, k + 1)  BY <2>2 DEF Adds
  <2>4. E(k + 1)
    <3> HIDE DEF h
    <3>. QED  BY <2>3
  <2>. QED  BY <2>4
<1>3. 0 .. L \subseteq G
  <2> HIDE DEF G
  <2>. QED  BY <1>1, <1>2, Upwards
<1>. QED  BY <1>3

Entries == [time : Nat, amount : Int]
\* The amounts of the entries in S.
Part(l, S) == [n \in 1 .. Len(l) |-> IF n \in S THEN l[n].amount ELSE 0]

\* SumOf is the last value of a function that adds up the amounts.
LEMMA SumRecursion ==
  ASSUME NEW l \in Seq(Entries), NEW S
  PROVE  \E f : Adds(f, Part(l, S), Len(l)) /\ SumOf(l, S) = f[Len(l)]
<1> DEFINE L == Len(l)
           f == CHOOSE h : h = [n \in 0 .. L |-> IF n = 0 THEN 0 ELSE h[n - 1] + IF n \in S THEN l[n].amount ELSE 0]
<1>0. L \in Nat  OBVIOUS
<1>1. PICK g : Adds(g, Part(l, S), L)  BY <1>0, SumExists
<1>2. g = [n \in 0 .. L |-> IF n = 0 THEN 0 ELSE g[n - 1] + IF n \in S THEN l[n].amount ELSE 0]
  BY <1>1 DEF Adds, Part
<1>3. f = [n \in 0 .. L |-> IF n = 0 THEN 0 ELSE f[n - 1] + IF n \in S THEN l[n].amount ELSE 0]
  BY <1>2, Zenon
<1>4. SumOf(l, S) = f[L]  BY Zenon DEF SumOf
<1> HIDE DEF f
<1>5. Adds(f, Part(l, S), L)  BY <1>3 DEF Adds, Part
<1>. QED  BY <1>4, <1>5

LEMMA PartInts ==
  ASSUME NEW l \in Seq(Entries), NEW S
  PROVE  Part(l, S) \in [1 .. Len(l) -> Int]
<1>1. \A n \in 1 .. Len(l) : l[n] \in Entries  OBVIOUS
<1>2. \A n \in 1 .. Len(l) : l[n].amount \in Int  BY <1>1 DEF Entries
<1>. QED  BY <1>2 DEF Part

LEMMA AddsInts ==
  ASSUME NEW L \in Nat, NEW a \in [1 .. L -> Int], NEW f, Adds(f, a, L)
  PROVE  \A n \in 0 .. L : f[n] \in Int
<1> DEFINE G == {n \in 0 .. L : f[n] \in Int}
<1>1. 0 \in G  BY DEF Adds
<1>2. ASSUME NEW n \in 0 .. (L - 1), n \in G PROVE n + 1 \in G
  <2>1. f[n + 1] = f[(n + 1) - 1] + a[n + 1] /\ (n + 1) - 1 = n /\ n + 1 \in 1 .. L  BY DEF Adds
  <2>. QED  BY <1>2, <2>1
<1>3. 0 .. L \subseteq G
  <2> HIDE DEF G
  <2>. QED  BY <1>1, <1>2, Upwards
<1>. QED  BY <1>3

\* The numbers of c are the sums of those of a and b.
Pairwise(L, a, f, b, g, c, h) ==
  /\ L \in Nat /\ a \in [1 .. L -> Int] /\ b \in [1 .. L -> Int] /\ c \in [1 .. L -> Int]
  /\ Adds(f, a, L) /\ Adds(g, b, L) /\ Adds(h, c, L)
  /\ \A n \in 1 .. L : c[n] = a[n] + b[n]

\* Adding up number by number and adding up the sums is the same.
LEMMA AddsPlus ==
  ASSUME NEW L, NEW a, NEW f, NEW b, NEW g, NEW c, NEW h, Pairwise(L, a, f, b, g, c, h)
  PROVE  h[L] = f[L] + g[L]
<1> USE DEF Pairwise
<1> DEFINE G == {n \in 0 .. L : h[n] = f[n] + g[n]}
<1>1. 0 \in G  BY DEF Adds
<1>2. ASSUME NEW n \in 0 .. (L - 1), n \in G PROVE n + 1 \in G
  <2>1. (n + 1) - 1 = n /\ n + 1 \in 1 .. L /\ n + 1 \in 0 .. L /\ n + 1 # 0  OBVIOUS
  <2>2. f[n + 1] = f[n] + a[n + 1] /\ g[n + 1] = g[n] + b[n + 1] /\ h[n + 1] = h[n] + c[n + 1]
    BY ZenonT(60), SMTT(30), <2>1 DEF Adds
  <2>3. f[n] \in Int /\ g[n] \in Int /\ h[n] \in Int  BY AddsInts
  <2>4. a[n + 1] \in Int /\ b[n + 1] \in Int /\ c[n + 1] = a[n + 1] + b[n + 1]  BY <2>1
  <2>5. h[n] = f[n] + g[n]  BY <1>2
  <2>6. h[n + 1] = f[n + 1] + g[n + 1]  BY ONLY <2>2, <2>3, <2>4, <2>5
  <2>. QED  BY <2>1, <2>6
<1>3. 0 .. L \subseteq G
  <2> HIDE DEF G
  <2>. QED  BY <1>1, <1>2, Upwards
<1>. QED  BY <1>3

LEMMA AddsSame ==
  ASSUME NEW L \in Nat, NEW M \in Nat, L <= M, NEW a, NEW c, NEW f, NEW h, Adds(f, a, L), Adds(h, c, M),
         \A n \in 1 .. L : c[n] = a[n]
  PROVE  h[L] = f[L]
<1> DEFINE G == {n \in 0 .. L : h[n] = f[n]}
<1>1. 0 \in G  BY DEF Adds
<1>2. ASSUME NEW n \in 0 .. (L - 1), n \in G PROVE n + 1 \in G
  <2>1. (n + 1) - 1 = n /\ n + 1 \in 1 .. L /\ n + 1 \in 0 .. L /\ n + 1 \in 0 .. M /\ n + 1 # 0  OBVIOUS
  <2>2. f[n + 1] = f[n] + a[n + 1] /\ h[n + 1] = h[n] + c[n + 1]
    BY <2>1 DEF Adds
  <2>. QED  BY <1>2, <2>1, <2>2
<1>3. 0 .. L \subseteq G
  <2> HIDE DEF G
  <2>. QED  BY <1>1, <1>2, Upwards
<1>. QED  BY <1>3

LEMMA SumInt ==
  ASSUME NEW l \in Seq(Entries), NEW S
  PROVE  SumOf(l, S) \in Int
<1>1. PICK f : Adds(f, Part(l, S), Len(l)) /\ SumOf(l, S) = f[Len(l)]  BY SumRecursion
<1>2. Len(l) \in Nat /\ Len(l) \in 0 .. Len(l)  OBVIOUS
<1>. QED  BY <1>1, <1>2, PartInts, AddsInts

LEMMA SumUnion ==
  ASSUME NEW l \in Seq(Entries), NEW S, NEW T, S \cap T = {}
  PROVE  SumOf(l, S \cup T) = SumOf(l, S) + SumOf(l, T)
<1>1. PICK f : Adds(f, Part(l, S), Len(l)) /\ SumOf(l, S) = f[Len(l)]  BY SumRecursion
<1>2. PICK g : Adds(g, Part(l, T), Len(l)) /\ SumOf(l, T) = g[Len(l)]  BY SumRecursion
<1>3. PICK h : Adds(h, Part(l, S \cup T), Len(l)) /\ SumOf(l, S \cup T) = h[Len(l)]  BY SumRecursion
<1>4. \A n \in 1 .. Len(l) : Part(l, S \cup T)[n] = Part(l, S)[n] + Part(l, T)[n]
  <2> SUFFICES ASSUME NEW n \in 1 .. Len(l) PROVE Part(l, S \cup T)[n] = Part(l, S)[n] + Part(l, T)[n]  OBVIOUS
  <2>1. l[n] \in Entries  OBVIOUS
  <2>2. l[n].amount \in Int  BY <2>1 DEF Entries
  <2>. QED  BY <2>2 DEF Part
<1>5. /\ Len(l) \in Nat /\ Part(l, S) \in [1 .. Len(l) -> Int] /\ Part(l, T) \in [1 .. Len(l) -> Int]
      /\ Part(l, S \cup T) \in [1 .. Len(l) -> Int]
  BY PartInts
<1>6. h[Len(l)] = f[Len(l)] + g[Len(l)]
  <2>1. Pairwise(Len(l), Part(l, S), f, Part(l, T), g, Part(l, S \cup T), h)
    BY <1>1, <1>2, <1>3, <1>4, <1>5 DEF Pairwise
  <2>. QED  BY <2>1, AddsPlus
<1>. QED  BY <1>1, <1>2, <1>3, <1>6

LEMMA SumEmpty ==
  ASSUME NEW l \in Seq(Entries)
  PROVE  SumOf(l, {}) = 0
<1>1. SumOf(l, {} \cup {}) = SumOf(l, {}) + SumOf(l, {})  BY SumUnion
<1>2. {} \cup {} = {}  OBVIOUS
<1>3. SumOf(l, {}) \in Int  BY SumInt
<1>4. SumOf(l, {}) = SumOf(l, {}) + SumOf(l, {})  BY <1>1, <1>2
<1>. QED  BY <1>3, <1>4

\* A set that has no entry of the ledger adds nothing.
LEMMA NoEntries ==
  ASSUME NEW l \in Seq(Entries), NEW S, S \cap (1 .. Len(l)) = {}
  PROVE  SumOf(l, S) = 0
<1>1. Part(l, S) = Part(l, {})  BY DEF Part
<1>2. PICK f : Adds(f, Part(l, S), Len(l)) /\ SumOf(l, S) = f[Len(l)]  BY SumRecursion
<1>3. PICK h : Adds(h, Part(l, {}), Len(l)) /\ SumOf(l, {}) = h[Len(l)]  BY SumRecursion
<1>4. h[Len(l)] = f[Len(l)]  BY <1>1, <1>2, <1>3, AddsSame
<1>. QED  BY <1>2, <1>3, <1>4, SumEmpty

LEMMA SumAppend ==
  ASSUME NEW l \in Seq(Entries), NEW e \in Entries, NEW S
  PROVE  SumOf(Append(l, e), S) = SumOf(l, S) + IF Len(l) + 1 \in S THEN e.amount ELSE 0
<1> DEFINE k == Append(l, e)
           L == Len(l)
<1>0. k \in Seq(Entries) /\ Len(k) = L + 1 /\ L \in Nat /\ k[L + 1] = e /\ \A n \in 1 .. L : k[n] = l[n]
  OBVIOUS
<1>1. PICK f : Adds(f, Part(l, S), L) /\ SumOf(l, S) = f[L]  BY SumRecursion
<1>2. PICK h : Adds(h, Part(k, S), L + 1) /\ SumOf(k, S) = h[L + 1]
  <2>1. \E h : Adds(h, Part(k, S), Len(k)) /\ SumOf(k, S) = h[Len(k)]
    <3> HIDE DEF k
    <3>. QED  BY <1>0, SumRecursion
  <2>. QED  BY <2>1, <1>0
<1>3. \A n \in 1 .. L : Part(k, S)[n] = Part(l, S)[n]
  <2> HIDE DEF k
  <2>. QED  BY <1>0 DEF Part
<1>4. h[L] = f[L]
  <2> HIDE DEF k
  <2>. QED  BY <1>0, <1>1, <1>2, <1>3, AddsSame
<1>5. h[L + 1] = h[L] + Part(k, S)[L + 1]
  <2>1. (L + 1) - 1 = L /\ L + 1 \in 0 .. (L + 1) /\ L + 1 # 0  BY <1>0
  <2> HIDE DEF k, L
  <2>. QED  BY <1>2, <2>1 DEF Adds
<1>6. Part(k, S)[L + 1] = IF L + 1 \in S THEN e.amount ELSE 0
  <2>1. L + 1 \in 1 .. Len(k)  BY <1>0
  <2> HIDE DEF k, L
  <2>. QED  BY <1>0, <2>1 DEF Part
<1>. QED  BY <1>1, <1>2, <1>4, <1>5, <1>6

-----------------------------------------------------------------------------
(* One roll and one poll of the ledger                                       *)

LEMMA Defaults ==
  /\ Default \in Account /\ Unseen({}) \in Ghost
  /\ \A g \in Ghost : Unseen(g.opens) \in Ghost
BY EquityAssumption DEF Default, Account, Amount, Unseen, Ghost

LEMMA AccountParts ==
  ASSUME NEW a \in Account
  PROVE  /\ a.value \in Int \cup {None} /\ a.hwm \in Int \cup {None} /\ a.base \in Int \cup {None}
         /\ a.day \in Int /\ a.trusted \in BOOLEAN /\ a.flow \in Int /\ a.cursor \in Nat
BY DEF Account, Amount

LEMMA GhostParts ==
  ASSUME NEW g \in Ghost
  PROVE  /\ g.origin \in Int /\ g.first \in Nat /\ g.rolled \in Nat /\ g.peak \in Int /\ g.last \in Int
         /\ g.folded \in SUBSET Nat /\ g.clean \in BOOLEAN /\ g.opens \in SUBSET (Nat \X Int)
BY DEF Ghost

\* The account after a core sync that polled v at time t.
LEMMA RollParts ==
  ASSUME NEW a \in Account, NEW v \in Int, NEW t \in Nat
  PROVE  LET r == Roll([a EXCEPT !.value = v], t)
             m == v - a.flow
             same == a.base # None /\ a.day = UtcDay(t)
         IN  /\ r \in Account /\ r.value = v /\ r.flow = a.flow /\ r.cursor = a.cursor
             /\ r.hwm = IF a.hwm = None THEN m ELSE IF m > a.hwm THEN m ELSE a.hwm
             /\ same => r.base = a.base /\ r.day = a.day /\ r.trusted = a.trusted
             /\ ~same => r.base = m /\ r.day = UtcDay(t) /\ r.trusted = (a.base # None /\ a.day + 1 = UtcDay(t))
<1> DEFINE b == [a EXCEPT !.value = v]
           m == v - a.flow
           x == NextHwm(b, m)
           high == [b EXCEPT !.hwm = x]
           w == a.base # None /\ a.day + 1 = UtcDay(t)
           next == [high EXCEPT !.base = m, !.day = UtcDay(t), !.trusted = w]
<1>1. m \in Int /\ UtcDay(t) \in Int
  BY AccountParts, DivFacts, EquityAssumption DEF UtcDay
<1>2. /\ b \in Account /\ b.value = v /\ b.hwm = a.hwm /\ b.base = a.base /\ b.day = a.day
      /\ b.trusted = a.trusted /\ b.flow = a.flow /\ b.cursor = a.cursor
  BY DEF Account, Amount
<1>3. Neutral(b) = m  BY <1>2 DEF Neutral
<1>4. x = (IF a.hwm = None THEN m ELSE IF m > a.hwm THEN m ELSE a.hwm) /\ x \in Int
  BY <1>1, <1>2, AccountParts DEF NextHwm
<1>5. Watched(b, UtcDay(t)) = w  BY <1>2 DEF Watched
<1>6. Roll(b, t) = IF a.base # None /\ a.day = UtcDay(t) THEN high ELSE next
  BY <1>2, <1>3, <1>5 DEF Roll
<1> HIDE DEF b, m, x, w
<1>7. /\ high \in Account /\ high.value = v /\ high.flow = a.flow /\ high.cursor = a.cursor /\ high.hwm = x
      /\ high.base = a.base /\ high.day = a.day /\ high.trusted = a.trusted
  BY <1>2, <1>4 DEF Account, Amount
<1>8. w \in BOOLEAN  BY DEF w
<1> HIDE DEF high
<1>9. /\ next \in Account /\ next.value = v /\ next.flow = a.flow /\ next.cursor = a.cursor /\ next.hwm = x
      /\ next.base = m /\ next.day = UtcDay(t) /\ next.trusted = w
  BY <1>1, <1>7, <1>8 DEF Account, Amount
<1> HIDE DEF next
<1>. QED  BY <1>4, <1>6, <1>7, <1>9 DEF b, m, w

LEMMA RollSeenParts ==
  ASSUME TypeOK, NEW g \in Ghost, NEW a \in Account, NEW v \in Int, NEW t \in Nat
  PROVE  LET r == RollSeen(g, a, v, t)
             fresh == a.hwm = None
         IN  /\ r \in Ghost
             /\ r.origin = IF fresh THEN raw - pnl ELSE g.origin
             /\ r.first = IF fresh THEN Len(ledger) ELSE g.first
             /\ r.rolled = Len(ledger) /\ r.last = r.origin + pnl /\ r.folded = g.folded
             /\ r.peak = IF fresh \/ r.last > g.peak THEN r.last ELSE g.peak
             /\ r.clean => v = raw /\ IF fresh THEN g.folded = {} ELSE g.clean /\ g.folded = (g.first + 1) .. Len(ledger)
             /\ r.opens = IF \E e \in g.opens : e[1] = UtcDay(t) THEN g.opens
                          ELSE g.opens \cup {<<UtcDay(t), v - a.flow>>}
<1> DEFINE fresh == a.hwm = None
           o == IF fresh THEN raw - pnl ELSE g.origin
           n == IF fresh THEN Len(ledger) ELSE g.first
           tr == o + pnl
           pk == IF fresh \/ tr > g.peak THEN tr ELSE g.peak
           cl == v = raw /\ IF fresh THEN g.folded = {} ELSE g.clean /\ g.folded = (n + 1) .. Len(ledger)
           op == IF \E e \in g.opens : e[1] = UtcDay(t) THEN g.opens ELSE g.opens \cup {<<UtcDay(t), v - a.flow>>}
           L == Len(ledger)
           r == [g EXCEPT !.origin = o, !.first = n, !.rolled = L, !.last = tr, !.peak = pk, !.clean = cl, !.opens = op]
<1>1. RollSeen(g, a, v, t) = r  BY DEF RollSeen
<1>2. raw \in Int /\ pnl \in Int /\ L \in Nat /\ UtcDay(t) \in Nat /\ a.flow \in Int
  <2>1. raw \in Int /\ pnl \in Int /\ L \in Nat  BY DEF TypeOK
  <2>2. UtcDay(t) \in Nat  BY DivFacts, EquityAssumption DEF UtcDay
  <2>3. a.flow \in Int  BY AccountParts
  <2>. QED  BY <2>1, <2>2, <2>3
<1>3. o \in Int /\ n \in Nat /\ tr \in Int /\ pk \in Int
  BY <1>2, GhostParts
<1>3a. cl \in BOOLEAN
  <2>1. g.clean \in BOOLEAN  BY GhostParts
  <2>. QED  BY <2>1, Zenon
<1>4. op \in SUBSET (Nat \X Int)  BY <1>2, GhostParts
<1>5. cl => v = raw /\ IF fresh THEN g.folded = {} ELSE g.clean /\ g.folded = (g.first + 1) .. L  OBVIOUS
<1> HIDE DEF o, n, tr, pk, cl, op, L
<1>6. /\ r \in Ghost /\ r.origin = o /\ r.first = n /\ r.rolled = L /\ r.last = tr /\ r.peak = pk
      /\ r.clean = cl /\ r.opens = op /\ r.folded = g.folded
  BY <1>2, <1>3, <1>3a, <1>4 DEF Ghost
<1> HIDE DEF r
<1>. QED  BY <1>1, <1>5, <1>6 DEF o, n, tr, pk, op, L
-----------------------------------------------------------------------------
(* Types                                                                     *)

\* A poll that saw every dex, or missed one: an integer is observed.
Polled == Core \/ \E s \in Sides : CorePartial(s)
LEMMA PollObserves ==
  ASSUME TypeOK, Polled
  PROVE  faults' \in Nat /\ \E v \in Int : Observe(v)
<1>1. CASE Core  BY <1>1 DEF Core, TypeOK
<1>2. ASSUME NEW s \in Sides, CorePartial(s) PROVE faults' \in Nat /\ \E v \in Int : Observe(v)
  <2>1. raw - s \in Int /\ faults' \in Nat  BY <1>2, EquityAssumption DEF CorePartial, TypeOK
  <2>. QED  BY <1>2, <2>1 DEF CorePartial
<1>. QED  BY <1>1, <1>2 DEF Polled

LEMMA HlTypeStep ==
  ASSUME TypeOK, [Next]_vars
  PROVE  TypeOK'
<1> USE EquityAssumption, Defaults
<1>1. CASE Clock  BY <1>1 DEF Clock, TypeOK, tick, writer
<1>2. ASSUME NEW d \in Trades, Trade(d) PROVE TypeOK'  BY <1>2 DEF Trade, TypeOK, tick, writer
<1>3. ASSUME NEW d \in Transfers, NEW legible \in BOOLEAN, Transfer(d, legible)
      PROVE  TypeOK'
  <2> DEFINE m == IF legible THEN d ELSE 0
  <2>0. d \in Int /\ m \in Int /\ time' \in Nat /\ pnl' \in Int /\ raw' \in Int /\ faults' \in Nat
    BY <1>3 DEF TypeOK, Transfer
  <2> HIDE EquityAssumption, Defaults
  <2>1. [time |-> time', amount |-> m] \in [time : Nat, amount : Int]  BY <2>0
  <2>2. ledger' = Append(ledger, [time |-> time', amount |-> m])  BY <1>3 DEF Transfer
  <2> HIDE DEF m
  <2>3. ledger' \in Seq([time : Nat, amount : Int])  BY <2>1, <2>2 DEF TypeOK
  <2>4. UNCHANGED <<trades, acct, seen, tick, writer, posts>>  BY <1>3 DEF Transfer
  <2>. QED  BY <2>0, <2>3, <2>4 DEF TypeOK, tick, writer
<1>4. CASE Load
  <2>1. (time \div Sec) * Sec \in Nat  BY DivFacts DEF TypeOK
  <2>. QED  BY <1>4, <2>1 DEF Load, TypeOK, venue, writer
<1>5. ASSUME NEW v \in Int, Observe(v), faults' \in Nat PROVE TypeOK'
  <2>1. copy' \in Account /\ look' \in Ghost  BY <1>5, RollParts, RollSeenParts DEF Observe, TypeOK
  <2>. QED  BY <1>5, <2>1 DEF Observe, TypeOK, venue, writer
<1>5a. CASE Polled  BY <1>5, <1>5a, PollObserves
<1>6. CASE CoreFails  BY <1>6 DEF CoreFails, TypeOK, venue, writer
<1>7. CASE Longtail
  <2>1. SumOf(ledger, NewerThan(Since)) \in Int  BY SumInt DEF TypeOK, Entries
  <2>2. NewCursor(Since) \in Nat
    <3>1. Since \in Nat  BY AccountParts DEF TypeOK, Since
    <3>2. CASE NewerThan(Since) = {}  BY <3>1, <3>2 DEF NewCursor
    <3>3. CASE NewerThan(Since) # {}
      <4>1. Len(ledger) \in DOMAIN ledger  BY <3>3 DEF NewerThan, TypeOK
      <4>2. ledger[Len(ledger)].time \in Nat
        <5> DEFINE E == [time : Nat, amount : Int]
                   L == Len(ledger)
        <5> HIDE EquityAssumption, Defaults
        <5>1. ledger \in Seq(E) /\ L \in DOMAIN ledger  BY <4>1 DEF TypeOK
        <5> HIDE DEF E, L
        <5>2. ledger[L] \in E  BY <5>1
        <5>. QED  BY <5>2 DEF E, L
      <4>. QED  BY <3>3, <4>2 DEF NewCursor
    <3>. QED  BY <3>2, <3>3
  <2>3. copy' \in Account
    <3> DEFINE c == NewCursor(Since)
               f == copy.flow + SumOf(ledger, NewerThan(Since))
    <3>1. copy \in Account /\ f \in Int /\ c \in Nat  BY <2>1, <2>2, AccountParts DEF TypeOK
    <3>2. copy' = [copy EXCEPT !.flow = f, !.cursor = c]  BY <1>7 DEF Longtail
    <3> HIDE DEF c, f
    <3>. QED  BY <3>1, <3>2 DEF Account
  <2>4. look' \in Ghost
    <3> DEFINE F == look.folded \cup NewerThan(Since)
    <3>1. look \in Ghost /\ F \in SUBSET Nat  BY GhostParts DEF TypeOK, NewerThan
    <3>2. look' = [look EXCEPT !.folded = F]  BY <1>7 DEF Longtail
    <3> HIDE DEF F
    <3>. QED  BY <3>1, <3>2 DEF Ghost
  <2>. QED  BY <1>7, <2>3, <2>4 DEF Longtail, TypeOK, venue, writer
<1>8. CASE LongtailSkipped  BY <1>8 DEF LongtailSkipped, TypeOK, venue, writer
<1>9. CASE Save  BY <1>9 DEF Save, Idle, TypeOK, venue, writer
<1>10. CASE Lost  BY <1>10 DEF Lost, Idle, TypeOK, venue, writer
<1>11. CASE Replace
  <2>1. [Default EXCEPT !.value = raw] \in Account  BY DEF Default, Account, Amount, TypeOK
  <2>2. Unseen(glance.opens) \in Ghost  BY DEF TypeOK
  <2>. QED  BY <1>11, <2>1, <2>2 DEF Replace, TypeOK, venue, tick
<1>12. CASE Request  BY <1>12 DEF Request, TypeOK, venue, tick
<1>13. CASE RequestSave \/ RequestFails
  <2>1. busy' \in BOOLEAN /\ held' \in Account /\ glance' \in Ghost  BY <1>13 DEF RequestSave, RequestFails, Answer
  <2>2. acct' \in Account /\ seen' \in Ghost /\ faults' \in Nat /\ UNCHANGED <<venue, tick, posts>>
    BY <1>13 DEF RequestSave, RequestFails, TypeOK
  <2>. QED  BY <2>1, <2>2 DEF TypeOK, venue, tick
<1>14. CASE UNCHANGED vars  BY <1>14 DEF vars, venue, tick, writer, TypeOK
<1>. QED  BY <1>1, <1>2, <1>3, <1>4, <1>5a, <1>6, <1>7, <1>8, <1>9, <1>10, <1>11, <1>12, <1>13, <1>14
     DEF Next, Venue, Polled

LEMMA HlTypeInit == Init => TypeOK
<1> SUFFICES ASSUME Init PROVE TypeOK  OBVIOUS
<1>1. busy \in BOOLEAN /\ held \in Account /\ glance \in Ghost  BY Defaults DEF Init
<1>2. acct \in Account /\ copy \in Account /\ seen \in Ghost /\ look \in Ghost  BY Defaults DEF Init
<1>3. /\ time \in Nat /\ raw \in Int /\ ledger \in Seq([time : Nat, amount : Int])
      /\ pnl \in Int /\ trades \in Nat
      /\ pc \in {"idle", "core", "tail", "save"} /\ at \in Nat /\ posts \in Nat /\ faults \in Nat
  BY EquityAssumption DEF Init
<1>. QED  BY <1>1, <1>2, <1>3 DEF TypeOK

\* HlTypeCorrect: the account and the tick's copy stay well typed (TypeOK); an
\* account with a baseline always has integer anchors to compare.
THEOREM HlTypeCorrect == Spec => []TypeOK
<1>1. Init => TypeOK
  BY HlTypeInit
<1>2. TypeOK /\ [Next]_vars => TypeOK'
  BY HlTypeStep
<1>. QED  BY <1>1, <1>2, PTL DEF Spec

-----------------------------------------------------------------------------
(* What an account is worth, against what it was computed from               *)

\* Ledger times are positive, in the past and in order.
Timeline(l, t) ==
  /\ \A i \in DOMAIN l : 0 < l[i].time /\ l[i].time <= t
  /\ \A i, j \in DOMAIN l : i <= j => l[i].time <= l[j].time

\* FlowIsLedger of an account a computed from g, at time t.
FlowOK(a, g, l, t) ==
  /\ g.folded \subseteq DOMAIN l
  /\ a.flow = SumOf(l, g.folded)
  /\ a.cursor <= t
  /\ \A i \in g.folded : l[i].time <= a.cursor
  /\ g.folded # {} => \E k \in g.folded : l[k].time = a.cursor
  /\ \A i \in DOMAIN l : \A j \in g.folded : j <= i /\ l[i].time <= a.cursor =>
       i \in g.folded \/ \E k \in g.folded : l[k].time = l[i].time

\* Where every roll was clean, the equity rolled last is trading equity plus the
\* transfers since the first roll, and the high-water mark is the peak.
PeakOK(a, g, l) ==
  /\ a.base # None => a.hwm # None
  /\ a.hwm # None =>
       /\ g.first <= g.rolled /\ g.rolled <= Len(l)
       /\ g.origin = Start + SumOf(l, 1 .. g.first)
       /\ g.clean => a.hwm = g.peak /\ a.value = g.last + SumOf(l, (g.first + 1) .. g.rolled)

\* The days observed up to day d, and the day of the baseline among them.
DayOK(a, g, d) ==
  /\ \A e \in g.opens : e[1] <= d
  /\ a.base # None => /\ a.day <= d /\ \A e \in g.opens : e[1] <= a.day
                      /\ \E e \in g.opens : e[1] = a.day
  /\ a.trusted => /\ a.base # None /\ <<a.day, a.base>> \in g.opens
                  /\ \E e \in g.opens : e[1] + 1 = a.day

Now == (time \div Sec) * Sec

VenueInv ==
  /\ raw = Start + pnl + SumOf(ledger, 1 .. Len(ledger))
  /\ 0 < time /\ Timeline(ledger, time)
  /\ at <= Now

FlowInv == FlowOK(acct, seen, ledger, time) /\ FlowOK(copy, look, ledger, time) /\ FlowOK(held, glance, ledger, time)
PeakInv == PeakOK(acct, seen, ledger) /\ PeakOK(copy, look, ledger) /\ PeakOK(held, glance, ledger)
DayInv  == DayOK(acct, seen, UtcDay(Now)) /\ DayOK(copy, look, UtcDay(at)) /\ DayOK(held, glance, UtcDay(Now))

LEMMA EntryFacts ==
  ASSUME NEW l \in Seq(Entries)
  PROVE  /\ Len(l) \in Nat /\ DOMAIN l = 1 .. Len(l)
         /\ \A i \in DOMAIN l : l[i].time \in Nat /\ l[i].amount \in Int
<1>1. Len(l) \in Nat /\ DOMAIN l = 1 .. Len(l) /\ \A i \in DOMAIN l : l[i] \in Entries  OBVIOUS
<1>. QED  BY <1>1 DEF Entries

LEMMA AppendFacts ==
  ASSUME NEW l \in Seq(Entries), NEW e \in Entries
  PROVE  LET k == Append(l, e)
         IN  /\ k \in Seq(Entries) /\ Len(k) = Len(l) + 1
             /\ DOMAIN k = 1 .. (Len(l) + 1) /\ DOMAIN l = 1 .. Len(l)
             /\ k[Len(l) + 1] = e /\ \A i \in 1 .. Len(l) : k[i] = l[i]
OBVIOUS

LEMMA TimelineAppend ==
  ASSUME NEW l \in Seq(Entries), NEW e \in Entries, NEW t \in Nat, NEW u \in Nat, t <= u, 0 < u, e.time = u,
         Timeline(l, t)
  PROVE  Timeline(Append(l, e), u)
<1> DEFINE k == Append(l, e)
           L == Len(l)
<1>1. /\ L \in Nat /\ DOMAIN k = 1 .. (L + 1) /\ DOMAIN l = 1 .. L
      /\ k[L + 1] = e /\ \A i \in 1 .. L : k[i] = l[i]
  BY AppendFacts, EntryFacts
<1>2. \A i \in 1 .. L : l[i].time \in Nat /\ 0 < l[i].time /\ l[i].time <= t
  BY <1>1, EntryFacts DEF Timeline
<1>3. \A i, j \in 1 .. L : i <= j => l[i].time <= l[j].time
  BY <1>1 DEF Timeline
<1> HIDE DEF k, L
<1>4. \A i \in 1 .. (L + 1) : k[i].time \in Nat /\ 0 < k[i].time /\ k[i].time <= u
  <2> SUFFICES ASSUME NEW i \in 1 .. (L + 1) PROVE k[i].time \in Nat /\ 0 < k[i].time /\ k[i].time <= u  OBVIOUS
  <2>1. CASE i = L + 1  BY <1>1, <2>1
  <2>2. CASE i \in 1 .. L  BY <1>1, <1>2, <2>2
  <2>. QED  BY <1>1, <2>1, <2>2
<1>5. \A i, j \in 1 .. (L + 1) : i <= j => k[i].time <= k[j].time
  <2> SUFFICES ASSUME NEW i \in 1 .. (L + 1), NEW j \in 1 .. (L + 1), i <= j PROVE k[i].time <= k[j].time  OBVIOUS
  <2>1. CASE j = L + 1  BY <1>1, <1>4, <2>1
  <2>2. CASE j \in 1 .. L  
    <3>1. i \in 1 .. L  BY <1>1, <2>2
    <3>. QED  BY <1>1, <1>3, <2>2, <3>1
  <2>. QED  BY <1>1, <2>1, <2>2
<1>. QED  BY <1>1, <1>4, <1>5 DEF Timeline, k

LEMMA FlowAppend ==
  ASSUME NEW l \in Seq(Entries), NEW e \in Entries, NEW t \in Nat, NEW u \in Nat, t <= u, e.time = u,
         NEW a \in Account, NEW g \in Ghost, FlowOK(a, g, l, t)
  PROVE  FlowOK(a, g, Append(l, e), u)
<1> DEFINE k == Append(l, e)
           L == Len(l)
<1>1. /\ L \in Nat /\ DOMAIN k = 1 .. (L + 1) /\ DOMAIN l = 1 .. L
      /\ k[L + 1] = e /\ \A i \in 1 .. L : k[i] = l[i]
  BY AppendFacts, EntryFacts
<1>2. g.folded \subseteq 1 .. L /\ a.cursor \in Nat /\ a.cursor <= t  BY <1>1, AccountParts DEF FlowOK
<1>3. SumOf(k, g.folded) = SumOf(l, g.folded)
  <2>1. L + 1 \notin g.folded  BY <1>1, <1>2
  <2>2. SumOf(k, g.folded) = SumOf(l, g.folded) + 0  BY <2>1, SumAppend
  <2>. QED  BY <2>2, SumInt
<1> HIDE DEF k, L
<1>4. g.folded \subseteq DOMAIN k /\ a.cursor <= u  BY <1>1, <1>2
<1>5. \A i \in g.folded : k[i].time <= a.cursor /\ k[i] = l[i]  BY <1>1, <1>2 DEF FlowOK
<1>5a. g.folded # {} => \E n \in g.folded : k[n].time = a.cursor  BY <1>5 DEF FlowOK
<1>6. ASSUME NEW i \in DOMAIN k, NEW j \in g.folded, j <= i, k[i].time <= a.cursor
      PROVE  i \in g.folded \/ \E n \in g.folded : k[n].time = k[i].time
  <2>1. CASE i = L + 1
    <3>1. k[i].time = a.cursor  BY <1>1, <1>2, <1>6, <2>1
    <3>. QED  BY <1>5a, <3>1
  <2>2. CASE i # L + 1
    <3>1. i \in DOMAIN l /\ k[i] = l[i]  BY <1>1, <2>2
    <3>2. i \in g.folded \/ \E n \in g.folded : l[n].time = l[i].time  BY <1>6, <3>1 DEF FlowOK
    <3>. QED  BY <1>5, <3>1, <3>2
  <2>. QED  BY <2>1, <2>2
<1>7. a.flow = SumOf(k, g.folded)  BY <1>3 DEF FlowOK
<1>. QED  BY <1>4, <1>5, <1>5a, <1>6, <1>7 DEF FlowOK, k

LEMMA FlowLater ==
  ASSUME NEW l, NEW t \in Nat, NEW u \in Nat, t <= u, NEW a \in Account, NEW g, FlowOK(a, g, l, t)
  PROVE  FlowOK(a, g, l, u)
<1>1. a.cursor \in Nat  BY AccountParts
<1>. QED  BY <1>1 DEF FlowOK

LEMMA NothingFolded ==
  ASSUME NEW l \in Seq(Entries), NEW t \in Nat, NEW a, a.flow = 0, a.cursor = 0,
         NEW g, g.folded = {}
  PROVE  FlowOK(a, g, l, t)
BY SumEmpty DEF FlowOK

LEMMA PeakAppend ==
  ASSUME NEW l \in Seq(Entries), NEW e \in Entries, NEW a, NEW g \in Ghost, PeakOK(a, g, l)
  PROVE  PeakOK(a, g, Append(l, e))
<1> DEFINE k == Append(l, e)
           L == Len(l)
<1>1. L \in Nat /\ Len(k) = L + 1  BY AppendFacts, EntryFacts
<1>2. g.first \in Nat /\ g.rolled \in Nat  BY GhostParts
<1>3. ASSUME a.hwm # None
      PROVE  /\ g.rolled <= Len(k) /\ SumOf(k, 1 .. g.first) = SumOf(l, 1 .. g.first)
             /\ SumOf(k, (g.first + 1) .. g.rolled) = SumOf(l, (g.first + 1) .. g.rolled)
  <2>1. g.first <= g.rolled /\ g.rolled <= L  BY <1>3 DEF PeakOK
  <2>2. L + 1 \notin 1 .. g.first /\ L + 1 \notin (g.first + 1) .. g.rolled  BY <1>1, <1>2, <2>1
  <2>3. /\ SumOf(k, 1 .. g.first) = SumOf(l, 1 .. g.first) + 0
        /\ SumOf(k, (g.first + 1) .. g.rolled) = SumOf(l, (g.first + 1) .. g.rolled) + 0
    BY <2>2, SumAppend
  <2>4. SumOf(l, 1 .. g.first) \in Int /\ SumOf(l, (g.first + 1) .. g.rolled) \in Int  BY SumInt
  <2>. QED  BY <1>1, <1>2, <2>1, <2>3, <2>4
<1> HIDE DEF k, L
<1>. QED  BY <1>3 DEF PeakOK, k, L

LEMMA DayLater ==
  ASSUME NEW a \in Account, NEW g \in Ghost, NEW d \in Int, NEW c \in Int, d <= c, DayOK(a, g, d)
  PROVE  DayOK(a, g, c)
<1>1. a.day \in Int /\ \A e \in g.opens : e[1] \in Nat  BY AccountParts, GhostParts
<1>. QED  BY <1>1 DEF DayOK
-----------------------------------------------------------------------------
(* The steps                                                                 *)

LEMMA TypeFacts ==
  ASSUME TypeOK
  PROVE  /\ time \in Nat /\ raw \in Int /\ pnl \in Int /\ at \in Nat /\ ledger \in Seq(Entries)
         /\ acct \in Account /\ copy \in Account /\ held \in Account
         /\ seen \in Ghost /\ look \in Ghost /\ glance \in Ghost
         /\ Sec \in Nat \ {0} /\ Day \in Nat \ {0} /\ Start \in Int
         /\ Now \in Nat /\ Now <= time /\ UtcDay(Now) \in Nat /\ UtcDay(at) \in Nat
<1>1. /\ time \in Nat /\ raw \in Int /\ pnl \in Int /\ at \in Nat /\ ledger \in Seq(Entries)
      /\ acct \in Account /\ copy \in Account /\ held \in Account
      /\ seen \in Ghost /\ look \in Ghost /\ glance \in Ghost
  BY DEF TypeOK, Entries
<1>2. Sec \in Nat \ {0} /\ Day \in Nat \ {0} /\ Start \in Int  BY EquityAssumption
<1>3. Now \in Nat /\ Now <= time  BY <1>1, <1>2, DivFacts DEF Now
<1>. QED  BY <1>1, <1>2, <1>3, DivFacts DEF UtcDay

\* Time passes, and a day never gets earlier.
LEMMA LaterNow ==
  ASSUME TypeOK, TypeOK', time <= time'
  PROVE  Now' \in Nat /\ Now <= Now' /\ UtcDay(Now) <= UtcDay(Now') /\ UtcDay(Now') \in Nat
<1>t. time \in Nat /\ Sec \in Nat \ {0} /\ Day \in Nat \ {0} /\ Now \in Nat /\ UtcDay(Now) \in Nat
  BY TypeFacts
<1> USE <1>t
<1> DEFINE u == time'
<1>1. u \in Nat /\ time <= u  BY DEF TypeOK
<1> HIDE DEF u
<1>2. time \div Sec \in Nat /\ u \div Sec \in Nat /\ time \div Sec <= u \div Sec
  BY <1>1, DivFacts, DivMonotone
<1>3. (time \div Sec) * Sec <= (u \div Sec) * Sec /\ (u \div Sec) * Sec \in Nat
  BY <1>1, <1>2, TimesMonotone, DivFacts
<1>4. Now' = (u \div Sec) * Sec  BY DEF Now, u
<1>5. Now <= Now' /\ Now' \in Nat  BY <1>3, <1>4 DEF Now
<1>. QED  BY <1>5, DivMonotone, DivFacts DEF UtcDay

Moved == \E d \in Transfers, legible \in BOOLEAN : Transfer(d, legible)

\* What a transfer does to the ledger.
LEMMA TransferEntry ==
  ASSUME TypeOK, Moved
  PROVE  /\ \E e \in Entries : /\ e.time = time' /\ ledger' = Append(ledger, e)
                               /\ raw' - pnl' = raw - pnl + e.amount
         /\ time <= time' /\ time' \in Nat /\ raw' \in Int /\ pnl' \in Int
         /\ UNCHANGED <<trades, acct, seen, tick, writer, posts>>
<1>1. PICK d \in Transfers, legible \in BOOLEAN : Transfer(d, legible)  BY DEF Moved
<1> DEFINE m == IF legible THEN d ELSE 0
           e == [time |-> time', amount |-> m]
<1>2. d \in Int /\ m \in Int /\ time \in Nat /\ raw \in Int /\ pnl \in Int  BY EquityAssumption, TypeFacts
<1>3. /\ time' = time /\ raw' = raw + d /\ pnl' = pnl + (d - m)
      /\ ledger' = Append(ledger, e) /\ UNCHANGED <<trades, acct, seen, tick, writer, posts>>
  BY <1>1 DEF Transfer
<1>4. time <= time' /\ time' \in Nat  BY <1>2, <1>3
<1>5. e \in Entries /\ e.time = time' /\ e.amount = m  BY <1>2, <1>4 DEF Entries
<1> HIDE DEF e, m
<1>6. raw' - pnl' = raw - pnl + m /\ raw' \in Int /\ pnl' \in Int  BY <1>2, <1>3
<1>. QED  BY <1>3, <1>4, <1>5, <1>6

LEMMA VenueStep ==
  ASSUME TypeOK, VenueInv, [Next]_vars, TypeOK'
  PROVE  VenueInv'
<1>t. /\ time \in Nat /\ raw \in Int /\ pnl \in Int /\ at \in Nat /\ ledger \in Seq(Entries)
      /\ acct \in Account /\ copy \in Account /\ held \in Account
      /\ seen \in Ghost /\ look \in Ghost /\ glance \in Ghost
      /\ Sec \in Nat \ {0} /\ Day \in Nat \ {0} /\ Start \in Int /\ Now \in Nat /\ Now <= time
      /\ UtcDay(Now) \in Nat /\ UtcDay(at) \in Nat
  BY TypeFacts
<1> USE <1>t
<1>0. SumOf(ledger, 1 .. Len(ledger)) \in Int  BY SumInt
<1>1. ASSUME time <= time', at' = at PROVE (at <= Now)'
  <2>1. Now' \in Nat /\ Now <= Now'  BY <1>1, LaterNow
  <2>. QED  BY <1>1, <2>1 DEF VenueInv
<1>2. CASE Clock
  <2>1. UNCHANGED <<raw, ledger, pnl, at>> /\ time' = time + 1  BY <1>2 DEF Clock, tick
  <2>2. \A i \in DOMAIN ledger : ledger[i].time \in Nat  BY EntryFacts
  <2>3. 0 < time + 1 /\ Timeline(ledger, time + 1)  BY <2>2 DEF VenueInv, Timeline
  <2>4. time <= time'  BY <2>1
  <2>. QED  BY <1>1, <2>1, <2>3, <2>4 DEF VenueInv
<1>3. ASSUME NEW d \in Trades, Trade(d) PROVE VenueInv'
  <2>1. UNCHANGED <<time, ledger, at>> /\ raw' = raw + d /\ pnl' = pnl + d  BY <1>3 DEF Trade, tick
  <2>2. d \in Int  BY EquityAssumption
  <2> DEFINE S == SumOf(ledger, 1 .. Len(ledger))
  <2>3. raw = Start + pnl + S /\ S \in Int  BY <1>0 DEF VenueInv
  <2>4. SumOf(ledger', 1 .. Len(ledger')) = S  BY <2>1
  <2> HIDE DEF S
  <2>5. raw' = Start + pnl' + S  BY <2>1, <2>2, <2>3
  <2>. QED  BY <2>1, <2>4, <2>5 DEF VenueInv, Now
<1>4. CASE Moved
  <2>1. PICK e \in Entries : e.time = time' /\ ledger' = Append(ledger, e) /\ raw' - pnl' = raw - pnl + e.amount
    BY <1>4, TransferEntry
  <2>2. time <= time' /\ time' \in Nat /\ raw' \in Int /\ pnl' \in Int /\ at' = at
    BY <1>4, TransferEntry DEF tick
  <2>3. Timeline(ledger', time') /\ 0 < time'
    <3>1. 0 < time'  BY <2>2 DEF VenueInv
    <3>. QED  BY <2>1, <2>2, <3>1, TimelineAppend DEF VenueInv
  <2> DEFINE L == Len(ledger)
             U == 1 .. (L + 1)
             d == e.amount
  <2>4. L \in Nat /\ Len(ledger') = L + 1 /\ d \in Int  BY <2>1, AppendFacts, EntryFacts DEF Entries
  <2>5. SumOf(ledger', U) = SumOf(ledger, U) + d
    <3>1. L + 1 \in U  BY <2>4
    <3>. QED  BY <2>1, <3>1, SumAppend
  <2>6. SumOf(ledger, U) = SumOf(ledger, 1 .. L) + SumOf(ledger, {L + 1})
    <3>1. U = (1 .. L) \cup {L + 1} /\ (1 .. L) \cap {L + 1} = {}  BY <2>4
    <3> HIDE DEF U, L
    <3>. QED  BY <3>1, SumUnion
  <2>7. SumOf(ledger, {L + 1}) = 0  BY NoEntries, <2>4
  <2>8. raw' = Start + pnl' + SumOf(ledger', 1 .. Len(ledger'))
    <3> HIDE DEF U, d
    <3>1. SumOf(ledger', 1 .. Len(ledger')) = SumOf(ledger', U)  BY <2>4 DEF U
    <3> HIDE DEF L
    <3>2. raw = Start + pnl + SumOf(ledger, 1 .. L) /\ SumOf(ledger, 1 .. L) \in Int  BY <1>0 DEF VenueInv, L
    <3> DEFINE S == SumOf(ledger, 1 .. L)
               V == SumOf(ledger, U)
    <3>3. V = S + 0 /\ S \in Int /\ SumOf(ledger', U) = V + d  BY <2>5, <2>6, <2>7, <3>2
    <3>4. raw = Start + pnl + S  BY <3>2
    <3>6. raw' - pnl' = raw - pnl + d  BY <2>1 DEF d
    <3> HIDE DEF S, V
    <3>5. raw' = Start + pnl' + (V + d)
      <4> DEFINE r == raw'
                 q == pnl'
      <4>1. r \in Int /\ q \in Int /\ r - q = raw - pnl + d  BY <2>2, <3>6
      <4> HIDE DEF r, q
      <4>2. r = Start + q + (V + d)  BY <2>4, <3>3, <3>4, <4>1
      <4>. QED  BY <4>2 DEF r, q
    <3>. QED  BY <3>1, <3>3, <3>5
  <2>. QED  BY <1>1, <2>2, <2>3, <2>8 DEF VenueInv
<1>5. CASE Load
  <2>1. UNCHANGED venue /\ at' = Now  BY <1>5 DEF Load, Now
  <2>. QED  BY <2>1 DEF VenueInv, Now, venue
<1>6. CASE UNCHANGED <<venue, at>>  BY <1>6 DEF venue, VenueInv, Now
<1>7. CASE Save \/ Lost
  <2>1. UNCHANGED venue /\ at' = 0  BY <1>7 DEF Save, Lost, Idle
  <2>. QED  BY <2>1 DEF VenueInv, Now, venue
<1>8. CASE Polled \/ CoreFails \/ Longtail \/ LongtailSkipped
  BY <1>6, <1>8, PollObserves DEF Observe, CoreFails, Longtail, LongtailSkipped
<1>9. CASE Request \/ Replace \/ RequestSave \/ RequestFails \/ UNCHANGED vars
  BY <1>6, <1>9 DEF Request, Replace, RequestSave, RequestFails, tick, vars
<1>. QED  BY <1>2, <1>3, <1>4, <1>5, <1>7, <1>8, <1>9 DEF Next, Venue, Moved, Polled

\* What a core sync leaves, field by field.
LEMMA CoreParts ==
  ASSUME TypeOK, NEW v \in Int, Observe(v)
  PROVE  /\ copy' \in Account /\ look' \in Ghost /\ copy'.value = v /\ copy'.flow = copy.flow
         /\ copy'.hwm = IF copy.hwm = None THEN v - copy.flow
                        ELSE IF v - copy.flow > copy.hwm THEN v - copy.flow ELSE copy.hwm
         /\ look'.origin = IF copy.hwm = None THEN raw - pnl ELSE look.origin
         /\ look'.first = IF copy.hwm = None THEN Len(ledger) ELSE look.first
         /\ look'.rolled = Len(ledger) /\ look'.last = look'.origin + pnl /\ look'.folded = look.folded
         /\ look'.peak = IF copy.hwm = None \/ look'.last > look.peak THEN look'.last ELSE look.peak
         /\ look'.clean => v = raw /\ IF copy.hwm = None THEN look.folded = {}
                           ELSE look.clean /\ look.folded = (look.first + 1) .. Len(ledger)
         /\ look'.opens = IF \E e \in look.opens : e[1] = UtcDay(at) THEN look.opens
                          ELSE look.opens \cup {<<UtcDay(at), v - copy.flow>>}
         /\ UNCHANGED <<time, ledger, acct, seen, at>>
<1>1. look \in Ghost /\ copy \in Account /\ at \in Nat /\ raw \in Int  BY TypeFacts
<1>2. copy' = Roll([copy EXCEPT !.value = v], at) /\ look' = RollSeen(look, copy, v, at)  BY DEF Observe
<1>3. UNCHANGED <<time, ledger, acct, seen, at>>  BY DEF Observe, venue
<1>4. /\ copy' \in Account /\ copy'.value = v /\ copy'.flow = copy.flow
      /\ copy'.hwm = IF copy.hwm = None THEN v - copy.flow
                     ELSE IF v - copy.flow > copy.hwm THEN v - copy.flow ELSE copy.hwm
  BY <1>1, <1>2, RollParts
<1> DEFINE r == RollSeen(look, copy, v, at)
<1>5. /\ r \in Ghost
      /\ r.origin = IF copy.hwm = None THEN raw - pnl ELSE look.origin
      /\ r.first = IF copy.hwm = None THEN Len(ledger) ELSE look.first
      /\ r.rolled = Len(ledger) /\ r.last = r.origin + pnl /\ r.folded = look.folded
      /\ r.peak = IF copy.hwm = None \/ r.last > look.peak THEN r.last ELSE look.peak
      /\ r.clean => v = raw /\ IF copy.hwm = None THEN look.folded = {}
                    ELSE look.clean /\ look.folded = (look.first + 1) .. Len(ledger)
      /\ r.opens = IF \E e \in look.opens : e[1] = UtcDay(at) THEN look.opens
                   ELSE look.opens \cup {<<UtcDay(at), v - copy.flow>>}
  BY <1>1, RollSeenParts, ZenonT(60)
<1>6. look' = r  BY <1>2
<1> HIDE DEF r
<1>. QED  BY <1>3, <1>4, <1>5, <1>6, Zenon

\* A poll folds every entry it has not seen; nothing else touches the flow.
LEMMA FlowStep ==
  ASSUME TypeOK, VenueInv, FlowInv, [Next]_vars, TypeOK'
  PROVE  FlowInv'
<1>t. /\ time \in Nat /\ raw \in Int /\ pnl \in Int /\ at \in Nat /\ ledger \in Seq(Entries)
      /\ acct \in Account /\ copy \in Account /\ held \in Account
      /\ seen \in Ghost /\ look \in Ghost /\ glance \in Ghost
      /\ Sec \in Nat \ {0} /\ Day \in Nat \ {0} /\ Start \in Int /\ Now \in Nat /\ Now <= time
      /\ UtcDay(Now) \in Nat /\ UtcDay(at) \in Nat
  BY TypeFacts
<1> USE <1>t
<1>0. FlowOK(Default, Unseen({}), ledger, time)
  BY NothingFolded DEF Default, Unseen
<1>1. CASE Clock
  <2>1. UNCHANGED <<ledger, acct, seen, copy, look, held, glance>> /\ time' = time + 1 /\ time' \in Nat /\ time <= time'
    BY <1>1 DEF Clock, tick, writer
  <2>. QED  BY <2>1, FlowLater DEF FlowInv
<1>2. CASE UNCHANGED <<time, ledger, acct, seen, copy, look, held, glance>>
  BY <1>2 DEF FlowInv
<1>3. CASE Moved
  <2>1. PICK e \in Entries : e.time = time' /\ ledger' = Append(ledger, e)  BY <1>3, TransferEntry
  <2>2. UNCHANGED <<acct, seen, copy, look, held, glance>> /\ time' \in Nat /\ time <= time'
    BY <1>3, TransferEntry DEF tick, writer
  <2>. QED  BY <2>1, <2>2, FlowAppend DEF FlowInv
<1>4. CASE Load  BY <1>4 DEF Load, venue, writer, FlowInv
<1>5. ASSUME NEW v \in Int, Observe(v) PROVE FlowInv'
  <2>1. copy'.flow = copy.flow /\ copy'.cursor = copy.cursor  BY <1>5, RollParts DEF Observe
  <2>2. look'.folded = look.folded  BY <1>5, CoreParts, Zenon
  <2>3. FlowOK(copy', look', ledger, time)  BY <2>1, <2>2 DEF FlowInv, FlowOK
  <2>. QED  BY <1>5, <2>3 DEF Observe, venue, writer, FlowInv
<1>6. CASE CoreFails \/ LongtailSkipped  BY <1>6 DEF CoreFails, LongtailSkipped, venue, writer, FlowInv
<1>7. CASE Longtail
  <2> DEFINE s == Since
             N == NewerThan(s)
             F == look.folded
             c == NewCursor(s)
  <2>1. /\ copy'.flow = copy.flow + SumOf(ledger, N) /\ copy'.cursor = c /\ look'.folded = F \cup N
    BY <1>7 DEF Longtail, Account, Ghost
  <2>2. /\ N = {i \in DOMAIN ledger : ledger[i].time > s}
        /\ s = IF copy.cursor > 0 THEN copy.cursor ELSE at
        /\ c = IF N = {} THEN s ELSE ledger[Len(ledger)].time
    BY DEF NewerThan, Since, NewCursor
  <2>3. copy.cursor \in Nat /\ s \in Nat /\ s <= time
    <3>1. copy.cursor \in Nat  BY AccountParts
    <3>. QED  BY <2>2, <3>1 DEF FlowInv, FlowOK, VenueInv
  <2>4. /\ F \subseteq DOMAIN ledger /\ \A i \in F : ledger[i].time <= copy.cursor
        /\ F # {} => \E k \in F : ledger[k].time = copy.cursor
        /\ \A i \in DOMAIN ledger : \A j \in F : j <= i /\ ledger[i].time <= copy.cursor =>
             i \in F \/ \E k \in F : ledger[k].time = ledger[i].time
        /\ copy.flow = SumOf(ledger, F)
    BY DEF FlowInv, FlowOK
  <2>5. /\ \A i \in DOMAIN ledger : 0 < ledger[i].time /\ ledger[i].time <= time /\ ledger[i].time \in Nat
        /\ \A i, j \in DOMAIN ledger : i <= j => ledger[i].time <= ledger[j].time
        /\ DOMAIN ledger = 1 .. Len(ledger) /\ Len(ledger) \in Nat
    BY EntryFacts DEF VenueInv, Timeline
  <2> HIDE DEF s, N, F, c
  <2>6. copy.cursor = 0 => F = {}  BY <2>4, <2>5
  <2>7. F \cap N = {}  BY <2>2, <2>3, <2>4, <2>5, <2>6
  <2>8. copy'.flow = SumOf(ledger, F \cup N)  BY <2>1, <2>4, <2>7, SumUnion
  <2>9. F \cup N \subseteq DOMAIN ledger  BY <2>2, <2>4
  <2>10. c \in Nat /\ c <= time /\ \A i \in F \cup N : ledger[i].time <= c
    <3>1. CASE N = {}  BY <3>1, <2>2, <2>3, <2>4, <2>6
    <3>2. CASE N # {}
      <4>1. Len(ledger) \in DOMAIN ledger  BY <2>2, <2>5, <3>2
      <4>2. c = ledger[Len(ledger)].time  BY <2>2, <3>2
      <4>3. \A i \in DOMAIN ledger : ledger[i].time <= c  BY <2>5, <4>1, <4>2
      <4>. QED  BY <2>5, <2>9, <4>1, <4>2, <4>3
    <3>. QED  BY <3>1, <3>2
  <2>10a. F \cup N # {} => \E k \in F \cup N : ledger[k].time = c
    <3>1. CASE N = {}  BY <3>1, <2>2, <2>3, <2>4, <2>6
    <3>2. CASE N # {}
      <4>1. PICK n \in N : TRUE  BY <3>2
      <4>2. Len(ledger) \in DOMAIN ledger /\ ledger[n].time <= ledger[Len(ledger)].time  BY <2>2, <2>5, <4>1
      <4>3. Len(ledger) \in N  BY <2>2, <2>3, <2>5, <4>1, <4>2
      <4>. QED  BY <2>2, <3>2, <4>3
    <3>. QED  BY <3>1, <3>2
  <2>11. ASSUME NEW i \in DOMAIN ledger, NEW j \in F \cup N, j <= i, ledger[i].time <= c
         PROVE  i \in F \cup N \/ \E k \in F \cup N : ledger[k].time = ledger[i].time
    <3>1. CASE j \in N
      <4>1. ledger[j].time > s /\ ledger[j].time <= ledger[i].time  BY <2>2, <2>5, <2>11, <3>1
      <4>2. ledger[i].time \in Nat /\ ledger[j].time \in Nat  BY <2>2, <2>5, <3>1
      <4>3. ledger[i].time > s  BY <2>3, <4>1, <4>2
      <4>. QED  BY <2>2, <4>3
    <3>2. CASE j \in F
      <4>1. s = copy.cursor  BY <2>2, <2>3, <2>6, <3>2
      <4>2. CASE ledger[i].time <= copy.cursor  BY <2>4, <2>11, <3>2, <4>2
      <4>3. CASE ~(ledger[i].time <= copy.cursor)  BY <2>2, <2>3, <2>5, <4>1, <4>3
      <4>. QED  BY <4>2, <4>3
    <3>. QED  BY <3>1, <3>2
  <2>12. FlowOK(copy', look', ledger, time)
    BY <2>1, <2>8, <2>9, <2>10, <2>10a, <2>11 DEF FlowOK
  <2>. QED  BY <1>7, <2>12 DEF Longtail, venue, writer, FlowInv
<1>8. CASE Save \/ Lost
  <2>1. UNCHANGED <<ledger, time, held, glance>> /\ copy' = Default /\ look' = Unseen({})
    BY <1>8 DEF Save, Lost, Idle, venue, writer
  <2>2. (acct' = copy /\ seen' = look) \/ (acct' = acct /\ seen' = seen)  BY <1>8 DEF Save, Lost
  <2>. QED  BY <1>0, <2>1, <2>2 DEF FlowInv
<1>9. CASE Replace
  <2>1. held'.flow = 0 /\ held'.cursor = 0 /\ glance'.folded = {}  BY <1>9 DEF Replace, Default, Unseen
  <2>2. FlowOK(held', glance', ledger, time)  BY <2>1, NothingFolded
  <2>. QED  BY <1>9, <2>2 DEF Replace, venue, tick, FlowInv
<1>10. CASE Request  BY <1>10 DEF Request, venue, tick, FlowInv
<1>11. CASE RequestSave \/ RequestFails
  <2>1. UNCHANGED <<ledger, time, copy, look>> /\ held' = Default /\ glance' = Unseen({})
    BY <1>11 DEF RequestSave, RequestFails, Answer, venue, tick
  <2>2. (acct' = held /\ seen' = glance) \/ (acct' = acct /\ seen' = seen)  BY <1>11 DEF RequestSave, RequestFails
  <2>. QED  BY <1>0, <2>1, <2>2 DEF FlowInv
<1>12. CASE (\E d \in Trades : Trade(d)) \/ UNCHANGED vars
  BY <1>2, <1>12 DEF Trade, vars, venue, tick, writer
<1>13. CASE Polled  BY <1>5, <1>13, PollObserves
<1>. QED  BY <1>1, <1>3, <1>4, <1>6, <1>7, <1>8, <1>9, <1>10, <1>11, <1>12, <1>13 DEF Next, Venue, Moved, Polled

LEMMA CoreAnchors ==
  ASSUME TypeOK, NEW v \in Int, Observe(v)
  PROVE  LET same == copy.base # None /\ copy.day = UtcDay(at)
         IN  /\ same => copy'.base = copy.base /\ copy'.day = copy.day /\ copy'.trusted = copy.trusted
             /\ ~same => /\ copy'.base = v - copy.flow /\ copy'.day = UtcDay(at)
                         /\ copy'.trusted = (copy.base # None /\ copy.day + 1 = UtcDay(at))
<1>1. copy \in Account /\ at \in Nat /\ raw \in Int  BY TypeFacts
<1>2. copy' = Roll([copy EXCEPT !.value = v], at)  BY DEF Observe
<1>. QED  BY <1>1, <1>2, RollParts

\* A core sync keeps the relation of the copy to trading equity.
LEMMA CorePeak ==
  ASSUME TypeOK, VenueInv, FlowInv, PeakInv, NEW v \in Int, Observe(v)
  PROVE  PeakOK(copy', look', ledger)
<1>t. /\ time \in Nat /\ raw \in Int /\ pnl \in Int /\ at \in Nat /\ ledger \in Seq(Entries)
      /\ acct \in Account /\ copy \in Account /\ held \in Account
      /\ seen \in Ghost /\ look \in Ghost /\ glance \in Ghost
      /\ Sec \in Nat \ {0} /\ Day \in Nat \ {0} /\ Start \in Int /\ Now \in Nat /\ Now <= time
      /\ UtcDay(Now) \in Nat /\ UtcDay(at) \in Nat
  BY TypeFacts
<1> USE <1>t
<1> DEFINE L == Len(ledger)
           All == SumOf(ledger, 1 .. L)
<1>0. L \in Nat /\ All \in Int /\ raw = Start + pnl + All  BY SumInt, EntryFacts DEF VenueInv
<1>1. /\ copy.flow \in Int /\ copy.hwm \in Int \cup {None} /\ copy.flow = SumOf(ledger, look.folded)
      /\ None \notin Int
  BY AccountParts, EquityAssumption DEF FlowInv, FlowOK
<1>1g. look.origin \in Int /\ look.first \in Nat /\ look.peak \in Int  BY GhostParts
<1>2. /\ copy'.value = v
      /\ copy'.hwm = IF copy.hwm = None THEN v - copy.flow
                     ELSE IF v - copy.flow > copy.hwm THEN v - copy.flow ELSE copy.hwm
      /\ look'.origin = IF copy.hwm = None THEN raw - pnl ELSE look.origin
      /\ look'.first = IF copy.hwm = None THEN L ELSE look.first
      /\ look'.rolled = L /\ look'.last = look'.origin + pnl
      /\ look'.peak = IF copy.hwm = None \/ look'.last > look.peak THEN look'.last ELSE look.peak
      /\ look'.clean => v = raw /\ IF copy.hwm = None THEN look.folded = {}
                        ELSE look.clean /\ look.folded = (look.first + 1) .. L
  BY CoreParts, Zenon
<1> HIDE DEF L, All
<1>3. copy'.hwm \in Int /\ copy'.hwm # None  BY <1>1, <1>2
<1>4. CASE copy.hwm = None
  <2>1. look'.origin = Start + All /\ look'.first = L /\ look'.last = raw  BY <1>0, <1>2, <1>4
  <2>2. SumOf(ledger, (L + 1) .. L) = 0
    <3>1. (L + 1) .. L = {}  BY <1>0
    <3>. QED  BY <3>1, SumEmpty
  <2>3. look'.clean => copy'.hwm = look'.peak /\ copy'.value = look'.last + SumOf(ledger, (look'.first + 1) .. look'.rolled)
    <3> SUFFICES ASSUME look'.clean
                 PROVE  copy'.hwm = look'.peak /\ copy'.value = look'.last + SumOf(ledger, (look'.first + 1) .. look'.rolled)
      OBVIOUS
    <3>1. look.folded = {} /\ v = raw  BY <1>2, <1>4
    <3>2. copy.flow = 0  BY <1>1, <3>1, SumEmpty
    <3>3. copy'.hwm = look'.peak  BY <1>2, <1>4, <2>1, <3>1, <3>2
    <3>4. copy'.value = look'.last + 0  BY <1>2, <2>1, <3>1
    <3>5. SumOf(ledger, (look'.first + 1) .. look'.rolled) = 0  BY <1>2, <2>1, <2>2
    <3>. QED  BY <3>3, <3>4, <3>5
  <2>4. /\ look'.first <= look'.rolled /\ look'.rolled <= Len(ledger)
        /\ look'.origin = Start + SumOf(ledger, 1 .. look'.first)
    BY SMTT(30), ZenonT(60), <1>0, <1>2, <2>1 DEF L, All
  <2>. QED  BY <1>3, <2>3, <2>4 DEF PeakOK
<1>5. CASE copy.hwm # None
  <2> DEFINE f == look.first
             A == SumOf(ledger, 1 .. f)
             B == SumOf(ledger, (f + 1) .. L)
  <2>1. /\ f <= L /\ look.origin = Start + A /\ (look.clean => copy.hwm = look.peak)
    <3>1. f <= look.rolled /\ look.rolled <= L /\ look.origin = Start + A /\ (look.clean => copy.hwm = look.peak)
      BY <1>5 DEF PeakInv, PeakOK, L
    <3>2. look.rolled \in Nat  BY GhostParts
    <3>. QED  BY <3>1, <3>2, <1>0, <1>1g
  <2>2. All = A + B /\ A \in Int /\ B \in Int
    <3>1. 1 .. L = (1 .. f) \cup ((f + 1) .. L) /\ (1 .. f) \cap ((f + 1) .. L) = {}  BY <1>0, <1>1g, <2>1
    <3> DEFINE P == 1 .. f
               Q == (f + 1) .. L
    <3>2. All = SumOf(ledger, P \cup Q)  BY <3>1 DEF All
    <3> HIDE DEF P, Q
    <3>3. SumOf(ledger, P \cup Q) = SumOf(ledger, P) + SumOf(ledger, Q)  BY <3>1, SumUnion DEF P, Q
    <3>. QED  BY <3>2, <3>3, SumInt DEF P, Q
  <2> HIDE DEF A, B
  <2>3. look'.origin = Start + A /\ look'.first = f /\ look'.last = look.origin + pnl  BY <1>2, <1>5, <2>1
  <2>4. raw = look'.last + B
    <3>1. raw = Start + pnl + All /\ look'.last = (Start + A) + pnl  BY <1>0, <2>1, <2>3
    <3>. QED  BY <2>2, <3>1
  <2>5. look'.last \in Int  BY <1>1g, <2>3
  <2>6. ASSUME look'.clean PROVE copy'.hwm = look'.peak /\ v = raw
    <3>1. look.clean /\ look.folded = (f + 1) .. L /\ v = raw  BY <1>2, <1>5, <2>6
    <3>2. copy.flow = B  BY <1>1, <3>1 DEF B
    <3>3. v - copy.flow = look'.last  BY <2>2, <2>4, <2>5, <3>1, <3>2
    <3>4. copy.hwm = look.peak  BY <2>1, <3>1
    <3>. QED  BY <1>1, <1>1g, <1>2, <1>5, <2>5, <3>1, <3>3, <3>4
  <2>7. look'.first = f /\ look'.rolled = L /\ copy'.value = v /\ f <= L /\ L <= L  BY <1>0, <1>2, <2>1, <2>3
  <2>8. /\ look'.first <= look'.rolled /\ look'.rolled <= Len(ledger)
        /\ look'.origin = Start + SumOf(ledger, 1 .. look'.first)
    <3>1. SumOf(ledger, 1 .. look'.first) = A  BY <2>7 DEF A
    <3>. QED  BY <2>3, <2>7, <3>1 DEF L
  <2>9. look'.clean => copy'.value = look'.last + SumOf(ledger, (look'.first + 1) .. look'.rolled)
    <3>1. SumOf(ledger, (look'.first + 1) .. look'.rolled) = B  BY <2>7 DEF B
    <3>. QED  BY <2>4, <2>6, <2>7, <3>1
  <2>. QED  BY <1>3, <2>6, <2>8, <2>9 DEF PeakOK
<1>. QED  BY <1>4, <1>5

LEMMA PeakStep ==
  ASSUME TypeOK, VenueInv, FlowInv, PeakInv, [Next]_vars
  PROVE  PeakInv'
<1>t. /\ time \in Nat /\ raw \in Int /\ pnl \in Int /\ at \in Nat /\ ledger \in Seq(Entries)
      /\ acct \in Account /\ copy \in Account /\ held \in Account
      /\ seen \in Ghost /\ look \in Ghost /\ glance \in Ghost
      /\ Sec \in Nat \ {0} /\ Day \in Nat \ {0} /\ Start \in Int /\ Now \in Nat /\ Now <= time
      /\ UtcDay(Now) \in Nat /\ UtcDay(at) \in Nat
  BY TypeFacts
<1> USE <1>t
<1>0. PeakOK(Default, Unseen({}), ledger)  BY DEF PeakOK, Default
<1>1. CASE UNCHANGED <<ledger, acct, seen, copy, look, held, glance>>  BY <1>1 DEF PeakInv
<1>2. CASE Moved
  <2>1. PICK e \in Entries : ledger' = Append(ledger, e)  BY <1>2, TransferEntry
  <2>2. UNCHANGED <<acct, seen, copy, look, held, glance>>  BY <1>2, TransferEntry DEF tick, writer
  <2>. QED  BY <2>1, <2>2, PeakAppend DEF PeakInv
<1>3. CASE Load  BY <1>3 DEF Load, venue, writer, PeakInv
<1>4. ASSUME NEW v \in Int, Observe(v) PROVE PeakInv'
  <2>1. PeakOK(copy', look', ledger)  BY <1>4, CorePeak
  <2>. QED  BY <1>4, <2>1 DEF Observe, venue, writer, PeakInv
<1>4a. CASE Polled  BY <1>4, <1>4a, PollObserves
<1>5. CASE Longtail
  <2>1. copy'.value = copy.value /\ copy'.hwm = copy.hwm /\ copy'.base = copy.base
    BY <1>5 DEF Longtail, Account
  <2>2. /\ look'.origin = look.origin /\ look'.first = look.first /\ look'.rolled = look.rolled
        /\ look'.last = look.last /\ look'.peak = look.peak /\ look'.clean = look.clean
    BY <1>5 DEF Longtail, Ghost
  <2>3. PeakOK(copy', look', ledger)  BY <2>1, <2>2 DEF PeakInv, PeakOK
  <2>. QED  BY <1>5, <2>3 DEF Longtail, venue, writer, PeakInv
<1>6. CASE Save \/ Lost
  <2>1. UNCHANGED <<ledger, held, glance>> /\ copy' = Default /\ look' = Unseen({})
    BY <1>6 DEF Save, Lost, Idle, venue, writer
  <2>2. (acct' = copy /\ seen' = look) \/ (acct' = acct /\ seen' = seen)  BY <1>6 DEF Save, Lost
  <2>. QED  BY <1>0, <2>1, <2>2 DEF PeakInv
<1>7. CASE Replace
  <2>1. held'.hwm = None /\ held'.base = None  BY <1>7 DEF Replace, Default
  <2>2. PeakOK(held', glance', ledger)  BY <2>1 DEF PeakOK
  <2>. QED  BY <1>7, <2>2 DEF Replace, venue, tick, PeakInv
<1>8. CASE Request  BY <1>8 DEF Request, venue, tick, PeakInv
<1>9. CASE RequestSave \/ RequestFails
  <2>1. UNCHANGED <<ledger, copy, look>> /\ held' = Default /\ glance' = Unseen({})
    BY <1>9 DEF RequestSave, RequestFails, Answer, venue, tick
  <2>2. (acct' = held /\ seen' = glance) \/ (acct' = acct /\ seen' = seen)  BY <1>9 DEF RequestSave, RequestFails
  <2>. QED  BY <1>0, <2>1, <2>2 DEF PeakInv
<1>10. CASE \/ Clock \/ (\E d \in Trades : Trade(d))
            \/ CoreFails \/ LongtailSkipped \/ UNCHANGED vars
  BY <1>1, <1>10 DEF Clock, Trade, CoreFails, LongtailSkipped, vars, venue, tick, writer
<1>. QED  BY <1>2, <1>3, <1>4a, <1>5, <1>6, <1>7, <1>8, <1>9, <1>10 DEF Next, Venue, Moved, Polled

\* A core sync keeps the days in order.
LEMMA CoreDays ==
  ASSUME TypeOK, DayInv, NEW v \in Int, Observe(v)
  PROVE  DayOK(copy', look', UtcDay(at))
<1>t. /\ time \in Nat /\ raw \in Int /\ pnl \in Int /\ at \in Nat /\ ledger \in Seq(Entries)
      /\ acct \in Account /\ copy \in Account /\ held \in Account
      /\ seen \in Ghost /\ look \in Ghost /\ glance \in Ghost
      /\ Sec \in Nat \ {0} /\ Day \in Nat \ {0} /\ Start \in Int /\ Now \in Nat /\ Now <= time
      /\ UtcDay(Now) \in Nat /\ UtcDay(at) \in Nat
  BY TypeFacts
<1> USE <1>t
<1> DEFINE today == UtcDay(at)
           m == v - copy.flow
           O == look.opens
<1>0. /\ O \in SUBSET (Nat \X Int) /\ copy.day \in Int /\ m \in Int /\ today \in Nat /\ None \notin Int
  BY AccountParts, GhostParts, EquityAssumption
<1>1. look'.opens = IF \E e \in O : e[1] = today THEN O ELSE O \cup {<<today, m>>}
  BY CoreParts, Zenon
<1>2. /\ \A e \in O : e[1] <= today
      /\ copy.base # None => /\ copy.day <= today /\ \A e \in O : e[1] <= copy.day
                             /\ \E e \in O : e[1] = copy.day
      /\ copy.trusted => /\ copy.base # None /\ <<copy.day, copy.base>> \in O
                         /\ \E e \in O : e[1] + 1 = copy.day
  BY DEF DayInv, DayOK
<1>3. CASE copy.base # None /\ copy.day = today
  <2>1. copy'.base = copy.base /\ copy'.day = copy.day /\ copy'.trusted = copy.trusted
    BY <1>3, CoreAnchors
  <2>2. look'.opens = O  BY <1>1, <1>2, <1>3
  <2>3. DayOK(copy, look, UtcDay(at))  BY DEF DayInv
  <2>. QED  BY <2>1, <2>2, <2>3 DEF DayOK
<1>4. CASE ~(copy.base # None /\ copy.day = today)
  <2>1. copy'.base = m /\ copy'.day = today /\ copy'.trusted = (copy.base # None /\ copy.day + 1 = today)
    BY <1>4, CoreAnchors
  <2> HIDE DEF today, m, O
  <2>2. \A e \in look'.opens : e[1] <= today
    <3>1. <<today, m>>[1] = today /\ today <= today  BY <1>0
    <3>. QED  BY <1>1, <1>2, <3>1
  <2>3. \E e \in look'.opens : e[1] = today
    <3>1. <<today, m>>[1] = today  OBVIOUS
    <3>2. CASE \E e \in O : e[1] = today  BY <1>1, <3>2
    <3>3. CASE ~(\E e \in O : e[1] = today)
      <4>1. <<today, m>> \in look'.opens  BY <1>1, <3>3
      <4>. QED  BY <3>1, <4>1
    <3>. QED  BY <3>2, <3>3
  <2>4. copy'.trusted => <<today, m>> \in look'.opens /\ \E e \in look'.opens : e[1] + 1 = today
    <3> SUFFICES ASSUME copy.base # None, copy.day + 1 = today
                 PROVE  <<today, m>> \in look'.opens /\ \E e \in look'.opens : e[1] + 1 = today
      BY <2>1
    <3>1. \A e \in O : e[1] # today
      <4> SUFFICES ASSUME NEW e \in O, e[1] = today PROVE FALSE  OBVIOUS
      <4>1. today <= copy.day  BY <1>2
      <4>. QED  BY <1>0, <4>1
    <3>2. look'.opens = O \cup {<<today, m>>}  BY <1>1, <3>1
    <3>3. PICK e \in O : e[1] = copy.day  BY <1>2
    <3>. QED  BY <3>2, <3>3
  <2>5. copy'.base # None  BY <1>0, <2>1
  <2>. QED  BY <1>0, <2>1, <2>2, <2>3, <2>4, <2>5 DEF DayOK, today
<1>. QED  BY <1>3, <1>4

LEMMA DayStep ==
  ASSUME TypeOK, VenueInv, DayInv, [Next]_vars, TypeOK'
  PROVE  DayInv'
<1>t. /\ time \in Nat /\ raw \in Int /\ pnl \in Int /\ at \in Nat /\ ledger \in Seq(Entries)
      /\ acct \in Account /\ copy \in Account /\ held \in Account
      /\ seen \in Ghost /\ look \in Ghost /\ glance \in Ghost
      /\ Sec \in Nat \ {0} /\ Day \in Nat \ {0} /\ Start \in Int /\ Now \in Nat /\ Now <= time
      /\ UtcDay(Now) \in Nat /\ UtcDay(at) \in Nat
  BY TypeFacts
<1> USE <1>t
<1>0. \A d \in Int : DayOK(Default, Unseen({}), d)  BY DEF DayOK, Default, Unseen
<1>0a. UtcDay(0) \in Int  BY DivFacts DEF UtcDay
<1>1. CASE UNCHANGED <<time, acct, seen, copy, look, at, held, glance>>  BY <1>1 DEF DayInv, Now
<1>2. CASE Clock \/ Moved
  <2>1. UNCHANGED <<acct, seen, copy, look, at, held, glance>> /\ time <= time'
    <3>1. CASE Clock  BY <3>1 DEF Clock, tick, writer
    <3>2. CASE Moved  BY <3>2, TransferEntry DEF tick, writer
    <3>. QED  BY <1>2, <3>1, <3>2
  <2>2. UtcDay(Now) <= UtcDay(Now') /\ UtcDay(Now') \in Nat  BY <2>1, LaterNow
  <2>3. DayOK(acct, seen, UtcDay(Now')) /\ DayOK(held, glance, UtcDay(Now'))  BY <2>2, DayLater DEF DayInv
  <2>. QED  BY <2>1, <2>3 DEF DayInv
<1>3. CASE Load
  <2>1. UNCHANGED <<time, acct, seen, held, glance>> /\ at' = Now /\ copy' = acct /\ look' = seen
    BY <1>3 DEF Load, venue, writer, Now
  <2>. QED  BY <2>1 DEF DayInv, Now
<1>4. ASSUME NEW v \in Int, Observe(v) PROVE DayInv'
  <2>1. DayOK(copy', look', UtcDay(at))  BY <1>4, CoreDays
  <2>. QED  BY <1>4, <2>1 DEF Observe, venue, writer, DayInv, Now
<1>4a. CASE Polled  BY <1>4, <1>4a, PollObserves
<1>5. CASE Longtail
  <2>1. copy'.day = copy.day /\ copy'.trusted = copy.trusted /\ copy'.base = copy.base
    BY <1>5 DEF Longtail, Account
  <2>2. look'.opens = look.opens  BY <1>5 DEF Longtail, Ghost
  <2>3. DayOK(copy', look', UtcDay(at))  BY <2>1, <2>2 DEF DayInv, DayOK
  <2>. QED  BY <1>5, <2>3 DEF Longtail, venue, writer, DayInv, Now
<1>6. CASE Save \/ Lost
  <2>1. UNCHANGED <<time, held, glance>> /\ at' = 0 /\ copy' = Default /\ look' = Unseen({})
    BY <1>6 DEF Save, Lost, Idle, venue, writer
  <2>2. UtcDay(at) <= UtcDay(Now)  BY DivMonotone DEF VenueInv, UtcDay
  <2>3. DayOK(copy, look, UtcDay(Now))  BY <2>2, DayLater DEF DayInv
  <2>4. (acct' = copy /\ seen' = look) \/ (acct' = acct /\ seen' = seen)  BY <1>6 DEF Save, Lost
  <2>. QED  BY <1>0, <1>0a, <2>1, <2>3, <2>4 DEF DayInv, Now
<1>7. CASE Replace
  <2>1. held'.base = None /\ held'.trusted = FALSE /\ glance'.opens = glance.opens
    BY <1>7 DEF Replace, Default, Unseen
  <2>2. DayOK(held', glance', UtcDay(Now))  BY <2>1 DEF DayOK, DayInv
  <2>. QED  BY <1>7, <2>2 DEF Replace, venue, tick, DayInv, Now
<1>8. CASE Request  BY <1>8 DEF Request, venue, tick, DayInv, Now
<1>9. CASE RequestSave \/ RequestFails
  <2>1. UNCHANGED <<time, at, copy, look>> /\ held' = Default /\ glance' = Unseen({})
    BY <1>9 DEF RequestSave, RequestFails, Answer, venue, tick
  <2>2. (acct' = held /\ seen' = glance) \/ (acct' = acct /\ seen' = seen)  BY <1>9 DEF RequestSave, RequestFails
  <2>3. DayOK(Default, Unseen({}), UtcDay(Now))  BY <1>0
  <2>. QED  BY <2>1, <2>2, <2>3 DEF DayInv, Now
<1>10. CASE (\E d \in Trades : Trade(d)) \/ CoreFails \/ LongtailSkipped \/ UNCHANGED vars
  BY <1>1, <1>10 DEF Trade, CoreFails, LongtailSkipped, vars, venue, tick, writer
<1>. QED  BY <1>2, <1>3, <1>4a, <1>5, <1>6, <1>7, <1>8, <1>9, <1>10 DEF Next, Venue, Moved, Polled

-----------------------------------------------------------------------------
(* The theorems                                                              *)

\* The inductive invariant: what the venue did, and for the saved account and the
\* running tick's and request's copies alike, what each was computed from.
EquityInv == TypeOK /\ VenueInv /\ FlowInv /\ PeakInv /\ DayInv

LEMMA EquityInductive == Spec => []EquityInv
<1>1. Init => EquityInv
  <2> SUFFICES ASSUME Init PROVE EquityInv  OBVIOUS
  <2>1. TypeOK  BY HlTypeInit
  <2>2. ledger = <<>> /\ time = 1 /\ raw = Start /\ pnl = 0 /\ at = 0  BY DEF Init
  <2>3. /\ acct = Default /\ copy = Default /\ held = Default
        /\ seen = Unseen({}) /\ look = Unseen({}) /\ glance = Unseen({})
    BY DEF Init
  <2>4. VenueInv
    <3>1. SumOf(ledger, 1 .. Len(ledger)) = 0
      <4>1. ledger \in Seq(Entries) /\ 1 .. Len(ledger) = {}  BY <2>2
      <4>. QED  BY <4>1, SumEmpty
    <3>2. at <= Now  BY <2>1, <2>2, TypeFacts
    <3>3. Timeline(ledger, time)  BY <2>2 DEF Timeline
    <3>. QED  BY <2>2, <3>1, <3>2, <3>3, EquityAssumption DEF VenueInv
  <2>5. FlowInv
    <3>1. ledger \in Seq(Entries) /\ time \in Nat  BY <2>2
    <3>2. FlowOK(Default, Unseen({}), ledger, time)  BY <3>1, NothingFolded DEF Default, Unseen
    <3>. QED  BY <2>3, <3>2 DEF FlowInv
  <2>6. PeakInv  BY <2>3 DEF PeakInv, PeakOK, Default
  <2>7. DayInv  BY <2>3 DEF DayInv, DayOK, Default, Unseen
  <2>. QED  BY <2>1, <2>4, <2>5, <2>6, <2>7 DEF EquityInv
<1>2. EquityInv /\ [Next]_vars => EquityInv'
  BY HlTypeStep, VenueStep, FlowStep, PeakStep, DayStep DEF EquityInv
<1>. QED  BY <1>1, <1>2, PTL DEF Spec

\* FlowFromLedger: however polls, ticks and requests fail or overtake each other
\* and transfers fall between them, cumulative_net_flow sums each ledger entry it
\* counted once, and since the first of them the cursor passes none by but one
\* of the same millisecond as an entry counted before (FlowIsLedger).
THEOREM FlowFromLedger == Spec => []FlowIsLedger
<1>1. EquityInv => FlowIsLedger
  <2> SUFFICES ASSUME EquityInv PROVE FlowIsLedger  OBVIOUS
  <2>1. FlowOK(acct, seen, ledger, time) /\ ledger \in Seq(Entries) /\ acct.cursor \in Nat
    BY TypeFacts, AccountParts DEF EquityInv, FlowInv
  <2>2. ASSUME NEW i \in DOMAIN ledger, ledger[i].time > acct.cursor PROVE i \notin seen.folded
    <3>1. ledger[i].time \in Nat  BY <2>1, EntryFacts
    <3>. QED  BY <2>1, <2>2, <3>1 DEF FlowOK
  <2>. QED  BY <2>1, <2>2 DEF FlowOK, FlowIsLedger
<1>. QED  BY <1>1, EquityInductive, PTL

\* TrustedBaseline: a baseline marked trusted is the first observation of its UTC
\* day that the row was computed from, and the day before was observed, through
\* requests, failed, partial and lost ticks (TrustedIsDayOpen).
THEOREM TrustedBaseline == Spec => []TrustedIsDayOpen
<1>1. EquityInv => TrustedIsDayOpen
  BY DEF EquityInv, DayInv, DayOK, TrustedIsDayOpen
<1>. QED  BY <1>1, EquityInductive, PTL

\* DrawdownServed: where every roll saw all the dexes and found the transfers
\* folded, the drawdown served is that of trading equity from its best
\* observation (DrawdownIsReal); a poll that missed a builder's dex is outside.
THEOREM DrawdownServed == Spec => []DrawdownIsReal
<1>1. EquityInv => DrawdownIsReal
  <2> SUFFICES ASSUME EquityInv, Served(acct), seen.peak > 0, seen.clean, seen.folded = (seen.first + 1) .. seen.rolled
               PROVE  PeakDrawdown(acct) = DrawdownBps(seen.peak, seen.last)
    BY DEF DrawdownIsReal
  <2>1. acct \in Account /\ seen \in Ghost /\ ledger \in Seq(Entries)  BY TypeFacts DEF EquityInv
  <2>2. acct.hwm # None  BY DEF Served, EquityInv, PeakInv, PeakOK
  <2>3. acct.value = seen.last + SumOf(ledger, seen.folded) /\ acct.hwm = seen.peak
    BY <2>2 DEF EquityInv, PeakInv, PeakOK
  <2>4. acct.flow = SumOf(ledger, seen.folded)  BY DEF EquityInv, FlowInv, FlowOK
  <2>5. seen.last \in Int /\ acct.flow \in Int  BY <2>1, AccountParts, GhostParts
  <2>6. Neutral(acct) = seen.last  BY <2>3, <2>4, <2>5 DEF Neutral
  <2>. QED  BY <2>3, <2>6 DEF PeakDrawdown
<1>. QED  BY <1>1, EquityInductive, PTL
=============================================================================
