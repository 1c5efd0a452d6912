---------------------------- MODULE TaxYearsProofs ----------------------------
(***************************************************************************)
(* The capital gains years for every sale, rate, close and index number:   *)
(* first the netting of one year (`_year_cgt` from its bucketed gains on), *)
(* then the sums that bring a year's sales into it, the years worked out   *)
(* in turn, and the four invariants of TaxYears that rest on them.         *)
(***************************************************************************)
EXTENDS TaxYears, FiniteSetTheorems, WellFoundedInduction, TLAPS

\* Losses take from each bucket no more than it has, and all they can.
LEMMA AppliedFits ==
    ASSUME NEW left \in [Buckets -> Nat], NEW losses \in Nat
    PROVE  /\ Applied(losses, left) \in [Buckets -> Nat]
           /\ \A b \in Buckets : Applied(losses, left)[b] <= left[b]
           /\ AllOf(Applied(losses, left)) = Lesser(losses, AllOf(left))
<1> DEFINE first == Lesser(losses, left["other"])
           second == Lesser(losses - first, left["discountable"])
           third == Lesser(losses - first - second, left["from_july_2027"])
<1>1. left["other"] \in Nat /\ left["discountable"] \in Nat /\ left["from_july_2027"] \in Nat
  BY DEF Buckets
<1>2. first \in Nat /\ first <= losses /\ first <= left["other"]
  BY <1>1 DEF Lesser
<1>3. second \in Nat /\ second <= losses - first /\ second <= left["discountable"]
  BY <1>1, <1>2 DEF Lesser
<1>4. third \in Nat /\ third <= left["from_july_2027"]
  BY <1>1, <1>2, <1>3 DEF Lesser
<1>5. first + second + third = Lesser(losses, AllOf(left))
  BY <1>1 DEF Lesser, AllOf
<1>6. Applied(losses, left)
          = [other |-> first, discountable |-> second, from_july_2027 |-> third]
  BY DEF Applied
<1> HIDE DEF first, second, third
<1> QED  BY <1>2, <1>3, <1>4, <1>5, <1>6 DEF Buckets, AllOf

\* What is left of the gains once losses are set against them.
LEMMA LessFits ==
    ASSUME NEW left \in [Buckets -> Nat], NEW losses \in Nat
    PROVE  /\ Less(left, Applied(losses, left)) \in [Buckets -> Nat]
           /\ AllOf(Less(left, Applied(losses, left)))
                  = AllOf(left) - Lesser(losses, AllOf(left))
<1> DEFINE used == Applied(losses, left)
<1>1. /\ used \in [Buckets -> Nat]
      /\ \A b \in Buckets : used[b] <= left[b]
      /\ AllOf(used) = Lesser(losses, AllOf(left))
  BY AppliedFits
<1> HIDE DEF used
<1>2. Less(left, used) \in [Buckets -> Nat]
  BY <1>1 DEF Less
<1>3. AllOf(Less(left, used)) = AllOf(left) - AllOf(used)
  BY <1>1 DEF Less, AllOf, Buckets
<1> QED  BY <1>1, <1>2, <1>3 DEF used

\* A year's money adds up: its gains less its losses are what is taxed and what
\* is discounted, less what its losses add to those carried on, so that none is
\* used in two years ("what goes on to the next, this year's own loss included").
THEOREM NettedBalances ==
    ASSUME NEW gains \in [Buckets -> Nat], NEW losses \in Nat, NEW carried \in Nat
    PROVE  LET r == Netted(gains, losses, carried)
           IN  /\ AllOf(gains) - losses
                      = r.net_capital_gain + r.discount - (r.carried_out - r.carried_in)
               /\ r.carried_out \in Nat
<1> DEFINE own == Applied(losses, gains)
           left == Less(gains, own)
           earlier == Applied(carried, left)
           last == Less(left, earlier)
           discount == last["discountable"] \div 2
<1>1. left \in [Buckets -> Nat] /\ AllOf(left) = AllOf(gains) - Lesser(losses, AllOf(gains))
  BY LessFits
<1>2. AllOf(own) = Lesser(losses, AllOf(gains))
  BY AppliedFits
<1> HIDE DEF left
<1>3. last \in [Buckets -> Nat] /\ AllOf(last) = AllOf(left) - Lesser(carried, AllOf(left))
  BY <1>1, LessFits
<1>4. AllOf(earlier) = Lesser(carried, AllOf(left))
  BY <1>1, AppliedFits
<1>5. AllOf(gains) \in Nat /\ AllOf(left) \in Nat
  BY <1>1 DEF AllOf, Buckets
<1> DEFINE r == Netted(gains, losses, carried)
<1>6. /\ r.carried_in = carried /\ r.discount = discount
      /\ r.net_capital_gain = IF losses - AllOf(own) > 0 THEN 0 ELSE AllOf(last) - discount
      /\ r.carried_out = carried - AllOf(earlier) + (losses - AllOf(own))
  BY DEF Netted, CarriedOut, left
<1>7. last["discountable"] \in Nat /\ discount \in Nat
  BY <1>3 DEF Buckets
<1> HIDE DEF last
<1>8. AllOf(last) = 0 => discount = 0
  <2>1. AllOf(last) = 0 => last["discountable"] = 0
    <3>1. last["other"] \in Nat /\ last["from_july_2027"] \in Nat
      BY <1>3 DEF Buckets
    <3> QED  BY <1>7, <3>1 DEF AllOf
  <2>2. \A n \in Nat : n = 0 => n \div 2 = 0
    OBVIOUS
  <2> QED  BY <1>7, <2>1, <2>2
<1> HIDE DEF own, earlier, discount, r
<1>9. CASE losses > AllOf(gains)
  <2>1. AllOf(own) = AllOf(gains) /\ AllOf(left) = 0 /\ AllOf(earlier) = 0 /\ AllOf(last) = 0
    BY <1>1, <1>2, <1>3, <1>4, <1>5, <1>9 DEF Lesser
  <2> QED  BY <1>5, <1>6, <1>8, <1>9, <2>1 DEF r
<1>10. CASE losses <= AllOf(gains)
  <2>1. AllOf(own) = losses /\ AllOf(left) = AllOf(gains) - losses
    BY <1>1, <1>2, <1>5, <1>10 DEF Lesser
  <2>2. AllOf(last) = AllOf(left) - AllOf(earlier) /\ AllOf(earlier) <= carried /\ AllOf(earlier) \in Nat
    BY <1>3, <1>4, <1>5 DEF Lesser
  <2> QED  BY <1>5, <1>6, <1>7, <1>10, <2>1, <2>2 DEF r
<1> QED  BY <1>5, <1>9, <1>10

\* A year never has both a net capital gain and a net capital loss, and uses
\* nothing carried in while its own losses are not used up.
THEOREM NeverBoth ==
    ASSUME NEW gains \in [Buckets -> Nat], NEW losses \in Nat, NEW carried \in Nat
    PROVE  LET r == Netted(gains, losses, carried)
           IN  r.net_capital_loss > 0 => r.net_capital_gain = 0 /\ r.carried_applied = 0
<1> DEFINE own == Applied(losses, gains)
           left == Less(gains, own)
           earlier == Applied(carried, left)
           r == Netted(gains, losses, carried)
<1>1. AllOf(own) = Lesser(losses, AllOf(gains))
  BY AppliedFits
<1>2. left \in [Buckets -> Nat] /\ AllOf(left) = AllOf(gains) - Lesser(losses, AllOf(gains))
  BY LessFits
<1> HIDE DEF left
<1>3. AllOf(earlier) = Lesser(carried, AllOf(left))
  BY <1>2, AppliedFits
<1>4. AllOf(gains) \in Nat
  BY DEF AllOf, Buckets
<1>5. /\ r.net_capital_loss = losses - AllOf(own)
      /\ r.carried_applied = AllOf(earlier)
      /\ losses - AllOf(own) > 0 => r.net_capital_gain = 0
  BY DEF Netted, left
<1> HIDE DEF own, earlier, r
<1>6. losses - AllOf(own) > 0 => AllOf(earlier) = 0
  BY <1>1, <1>2, <1>3, <1>4 DEF Lesser
<1> QED  BY <1>5, <1>6 DEF r

\* With no gain from 1 July 2027, no other way of setting the losses against the
\* gains leaves a smaller net capital gain (the order of s102-5(1)).
THEOREM OrderIsLeast ==
    ASSUME NEW gains \in [Buckets -> Nat], NEW losses \in Nat, NEW carried \in Nat,
           gains["from_july_2027"] = 0
    PROVE  Least(Netted(gains, losses, carried))
<1> DEFINE o == gains["other"]
           d == gains["discountable"]
           own == Applied(losses, gains)
           left == Less(gains, own)
           earlier == Applied(carried, left)
           last == Less(left, earlier)
           r == Netted(gains, losses, carried)
<1>1. o \in Nat /\ d \in Nat
  BY DEF Buckets
<1>2. /\ left = [b \in Buckets |-> gains[b] - own[b]]
      /\ own["other"] = Lesser(losses, o)
      /\ own["discountable"] = Lesser(losses - own["other"], d)
      /\ own["from_july_2027"] = 0
  <2>1. Lesser(losses - Lesser(losses, o) - Lesser(losses - Lesser(losses, o), d), 0) = 0
    BY <1>1 DEF Lesser
  <2> QED  BY <2>1 DEF Applied, Less
<1>3. own["other"] \in Nat /\ own["discountable"] \in Nat
  BY <1>1, <1>2 DEF Lesser
<1> DEFINE lo == o - own["other"]
           ld == d - own["discountable"]
<1>4. left["other"] = lo /\ left["discountable"] = ld /\ left["from_july_2027"] = 0
  BY <1>1, <1>2 DEF Buckets
<1>5. lo \in Nat /\ ld \in Nat
  BY <1>1, <1>2 DEF Lesser
<1> HIDE DEF left
<1>6. /\ earlier["other"] = Lesser(carried, lo)
      /\ earlier["discountable"] = Lesser(carried - earlier["other"], ld)
      /\ earlier["from_july_2027"] = 0
  <2>1. Lesser(carried - Lesser(carried, lo) - Lesser(carried - Lesser(carried, lo), ld), 0) = 0
    BY <1>5 DEF Lesser
  <2> QED  BY <1>4, <2>1 DEF Applied
<1>7. /\ last["other"] = lo - earlier["other"]
      /\ last["discountable"] = ld - earlier["discountable"]
      /\ last["from_july_2027"] = 0
  BY <1>4, <1>6 DEF Less, Buckets
<1> DEFINE t == losses + carried
           no == last["other"]
           nd == last["discountable"]
<1>8. no \in Nat /\ nd \in Nat /\ no + nd = (o + d) - Lesser(t, o + d) /\ (no > 0 => nd = d)
  <2> DEFINE a == own["other"]
             b == own["discountable"]
             x == earlier["other"]
             y == earlier["discountable"]
  <2>1. /\ a = Lesser(losses, o) /\ b = Lesser(losses - a, d)
        /\ x = Lesser(carried, o - a) /\ y = Lesser(carried - x, d - b)
        /\ no = o - a - x /\ nd = d - b - y
    BY <1>1, <1>2, <1>6, <1>7
  <2> HIDE DEF a, b, x, y, no, nd, o, d
  <2>2. a \in Nat /\ b \in Nat /\ a <= o /\ b <= d /\ a + b = Lesser(losses, o + d)
    BY <1>1, <2>1 DEF Lesser
  <2>3. x \in Nat /\ y \in Nat /\ x <= o - a /\ y <= d - b
    BY <1>1, <2>1, <2>2 DEF Lesser
  <2>4. x + y = Lesser(carried, (o - a) + (d - b))
    BY <1>1, <2>1, <2>2 DEF Lesser
  <2>5. no \in Nat /\ nd \in Nat /\ no + nd = (o + d) - Lesser(t, o + d)
    BY <1>1, <2>1, <2>2, <2>3, <2>4 DEF Lesser
  <2>6. no > 0 => b = 0 /\ y = 0
    BY <1>1, <2>1, <2>2, <2>3 DEF Lesser
  <2> QED  BY <1>1, <2>1, <2>5, <2>6
<1>9. r.net_capital_gain <= no + nd - nd \div 2
  <2>1. r.net_capital_gain = IF losses - AllOf(own) > 0 THEN 0 ELSE AllOf(last) - nd \div 2
    BY DEF Netted, left
  <2>2. AllOf(last) = no + nd
    BY <1>7, <1>8 DEF AllOf
  <2> HIDE DEF no, nd, last, own, r
  <2> QED  BY <1>8, <2>1, <2>2
<1>10. r.gains = gains /\ r.losses = losses /\ r.carried_in = carried
  BY DEF Netted
<1> SUFFICES ASSUME NEW first \in 0 .. o, NEW second \in 0 .. d, first + second <= t
             PROVE  r.net_capital_gain
                        <= o - first + (d - second) - (d - second) \div 2
  BY <1>10 DEF Least
<1> DEFINE other == o - first
           rest == d - second
<1>11. other \in Nat /\ rest \in Nat /\ rest <= d /\ no + nd <= other + rest
  BY <1>1, <1>8 DEF Lesser
<1>12. r.net_capital_gain \in Int
  <2>1. r.net_capital_gain = IF losses - AllOf(own) > 0 THEN 0 ELSE AllOf(last) - nd \div 2
    BY DEF Netted, left
  <2>2. AllOf(last) = no + nd
    BY <1>7, <1>8 DEF AllOf
  <2> HIDE DEF no, nd, last, own, r
  <2> QED  BY <1>8, <2>1, <2>2
<1> HIDE DEF no, nd, other, rest, r, last, own, earlier
<1>13. no + nd - nd \div 2 <= other + rest - rest \div 2
  BY <1>1, <1>8, <1>11
<1> QED  BY <1>1, <1>8, <1>9, <1>11, <1>12, <1>13 DEF other, rest

\* Indexing cannot make a loss: a gain is lowered to nil at the least, and a loss
\* is worked from the cost base as it was (`ParcelUse.indexed_gain`).
THEOREM IndexingMakesNoLoss ==
    ASSUME NEW proceeds \in Int, NEW cost \in Int, NEW indexed \in Int, cost <= indexed
    PROVE  /\ IndexedGain(proceeds, cost, indexed) <= proceeds - cost \/ proceeds < cost
           /\ proceeds >= cost => IndexedGain(proceeds, cost, indexed) >= 0
           /\ proceeds < cost => IndexedGain(proceeds, cost, indexed) = proceeds - cost
  BY DEF IndexedGain

-----------------------------------------------------------------------------
(***************************************************************************)
(* Induction, by a least counterexample: over numbers, over years, and over *)
(* the parts of a finite set.                                              *)
(***************************************************************************)
LEMMA LeastNat ==
    ASSUME NEW S \in SUBSET Nat, S # {}
    PROVE  \E m \in S : \A n \in S : m <= n
<1> DEFINE R == OpToRel(<, Nat)
<1>1. IsWellFoundedOn(R, Nat)
  BY NatLessThanWellFounded
<1>2. \A a, b \in Nat : a < b => <<a, b>> \in R
  BY DEF OpToRel
<1> HIDE DEF R
<1>3. PICK m \in S : \A y \in S : ~ (<<y, m>> \in R)
  BY <1>1, WFMin
<1>4. ASSUME NEW n \in S PROVE m <= n
  <2>1. m \in Nat /\ n \in Nat
    OBVIOUS
  <2>2. ~(n < m)
    BY <1>2, <1>3, <2>1
  <2> QED  BY <2>1, <2>2
<1> QED  BY <1>4

\* Every year from m to n is good, if m is and the next after a good one is.
LEMMA Climb ==
    ASSUME NEW m \in Int, NEW n \in Int, NEW G, m \in G,
           \A k \in m .. n - 1 : k \in G => k + 1 \in G
    PROVE  \A k \in m .. n : k \in G
<1> SUFFICES ASSUME NEW k \in m .. n, k \notin G PROVE FALSE
  OBVIOUS
<1> DEFINE bad == {i \in Nat : m + i \in m .. n /\ m + i \notin G}
<1>1. bad \in SUBSET Nat /\ k - m \in bad
  OBVIOUS
<1>2. PICK i \in bad : \A j \in bad : i <= j
  BY <1>1, LeastNat
<1>3. i \in Nat /\ m + i \in m .. n /\ m + i \notin G /\ i # 0
  OBVIOUS
<1>4. i - 1 \in Nat /\ m + (i - 1) \in m .. n - 1 /\ i - 1 \notin bad
  BY <1>2, <1>3
<1>5. m + (i - 1) \in G
  BY <1>3, <1>4
<1>6. m + (i - 1) + 1 = m + i
  BY <1>3
<1> QED  BY <1>3, <1>4, <1>5, <1>6

\* Every subset of a finite set is good, if a set is whose parts less one are.
LEMMA Subsets ==
    ASSUME NEW R, NEW G, IsFiniteSet(R),
           \A S \in SUBSET R : (\A x \in S : S \ {x} \in G) => S \in G
    PROVE  \A S \in SUBSET R : S \in G
<1> SUFFICES ASSUME NEW Q \in SUBSET R, Q \notin G PROVE FALSE
  OBVIOUS
<1> DEFINE bad == {S \in SUBSET R : S \notin G}
           sizes == {Cardinality(S) : S \in bad}
<1>1. \A S \in SUBSET R : IsFiniteSet(S) /\ Cardinality(S) \in Nat
  BY FS_Subset, FS_CardinalityType
<1>2. sizes \in SUBSET Nat /\ sizes # {}
  BY <1>1
<1>3. PICK m \in sizes : \A i \in sizes : m <= i
  BY <1>2, LeastNat
<1>4. PICK S \in bad : m = Cardinality(S)
  OBVIOUS
<1>5. PICK x \in S : S \ {x} \notin G
  BY <1>4
<1>6. S \ {x} \in bad
  BY <1>5
<1>7. Cardinality(S \ {x}) \in sizes
  BY <1>6
<1>8. Cardinality(S \ {x}) = Cardinality(S) - 1 /\ Cardinality(S) \in Nat
  BY <1>1, <1>5, FS_RemoveElement
<1> QED  BY <1>3, <1>4, <1>7, <1>8

\* ... so the whole set is of that kind.
LEMMA Whole ==
    ASSUME NEW R, NEW G, IsFiniteSet(R),
           \A S \in SUBSET R : (\A x \in S : S \ {x} \in G) => S \in G
    PROVE  R \in G
<1>1. \A S \in SUBSET R : S \in G
  BY Subsets, Zenon
<1> QED  BY <1>1

-----------------------------------------------------------------------------
(***************************************************************************)
(* SumFunctionOnSet, whose recursive function over the parts of a set takes *)
(* them in an order of its own: it exists, and any element may come first. *)
(***************************************************************************)
Chosen(S) == CHOOSE x \in S : TRUE

Sums(g, f, D) ==
    g = [s \in D |-> IF s = {} THEN 0
                     ELSE LET x == CHOOSE x \in s : TRUE IN f[x] + g[s \ {x}]]

LEMMA SumIs ==
    ASSUME NEW f, NEW S
    PROVE  SumFunctionOnSet(f, S) = LET g == CHOOSE g : Sums(g, f, SUBSET S) IN g[S]
  BY DEF SumFunctionOnSet, FoldFunctionOnSet, MapThenFoldSet, Sums

LEMMA SumsAt ==
    ASSUME NEW g, NEW f, NEW D, Sums(g, f, D), NEW s \in D
    PROVE  g[s] = IF s = {} THEN 0 ELSE f[Chosen(s)] + g[s \ {Chosen(s)}]
  BY DEF Sums, Chosen

LEMMA SumsExist ==
    ASSUME NEW R, NEW f, IsFiniteSet(R)
    PROVE  \E g : Sums(g, f, SUBSET R)
<1> DEFINE D(n) == {S \in SUBSET R : Cardinality(S) <= n}
           G == {n \in Nat : \E g : Sums(g, f, D(n))}
<1>1. IsFiniteSet(R) /\ Cardinality(R) \in Nat
      /\ \A S \in SUBSET R : IsFiniteSet(S) /\ Cardinality(S) \in Nat
                             /\ Cardinality(S) <= Cardinality(R)
  BY FS_Subset, FS_CardinalityType
<1>2. 0 \in G
  <2>1. D(0) = {{}}
    <3>1. \A S \in SUBSET R : Cardinality(S) <= 0 => S = {}
      BY <1>1, FS_EmptySet
    <3>2. {} \in SUBSET R /\ Cardinality({}) = 0
      BY FS_EmptySet
    <3> QED  BY <3>1, <3>2
  <2>2. Sums([S \in D(0) |-> 0], f, D(0))
    BY <2>1 DEF Sums
  <2> QED  BY <2>2
<1>3. ASSUME NEW k \in Nat, k \in G
      PROVE  k + 1 \in G
  <2>1. PICK g : Sums(g, f, D(k))
    BY <1>3
  <2> DEFINE h == [S \in D(k + 1) |-> IF S = {} THEN 0 ELSE f[Chosen(S)] + g[S \ {Chosen(S)}]]
  <2>2. ASSUME NEW S \in D(k + 1), S # {}
        PROVE  h[S \ {Chosen(S)}] = g[S \ {Chosen(S)}]
    <3>1. Chosen(S) \in S
      BY <2>2 DEF Chosen
    <3>2. Cardinality(S \ {Chosen(S)}) = Cardinality(S) - 1 /\ Cardinality(S) \in Nat
      BY <1>1, <3>1, FS_RemoveElement
    <3>3. S \ {Chosen(S)} \in D(k) /\ S \ {Chosen(S)} \in D(k + 1)
      BY <3>2
    <3> DEFINE T == S \ {Chosen(S)}
               E == D(k)
    <3>4. T \in E /\ Sums(g, f, E)
      BY <2>1, <3>3
    <3>5. h[T] = IF T = {} THEN 0 ELSE f[Chosen(T)] + g[T \ {Chosen(T)}]
      BY <3>3
    <3> HIDE DEF T, E
    <3>6. g[T] = IF T = {} THEN 0 ELSE f[Chosen(T)] + g[T \ {Chosen(T)}]
      BY <3>4, SumsAt, Zenon
    <3>7. h[T] = g[T]
      BY <3>5, <3>6, Zenon
    <3> QED  BY <3>7 DEF T
  <2>3. h = [S \in D(k + 1) |-> IF S = {} THEN 0 ELSE f[Chosen(S)] + h[S \ {Chosen(S)}]]
    <3> HIDE DEF D
    <3> QED  BY <2>2
  <2>4. Sums(h, f, D(k + 1))
    <3> HIDE DEF h, D
    <3> QED  BY <2>3 DEF Sums, Chosen
  <2>5. \E i : Sums(i, f, D(k + 1))
    <3> HIDE DEF h, D
    <3> QED  BY <2>4
  <2>6. k + 1 \in Nat
    OBVIOUS
  <2> HIDE DEF D
  <2> QED  BY <2>5, <2>6, Zenon
<1> HIDE DEF G
<1>4. \A k \in 0 .. Cardinality(R) - 1 : k \in G => k + 1 \in G
  <2>1. \A k \in 0 .. Cardinality(R) - 1 : k \in Nat
    OBVIOUS
  <2> QED  BY <1>3, <2>1, Zenon
<1>5. Cardinality(R) \in G
  <2>1. \A k \in 0 .. Cardinality(R) : k \in G
    BY <1>1, <1>2, <1>4, Climb
  <2> QED  BY <1>1, <2>1
<1>6. PICK g : Sums(g, f, D(Cardinality(R)))
  BY <1>5 DEF G
<1>7. D(Cardinality(R)) = SUBSET R
  BY <1>1
<1> QED  BY <1>6, <1>7

\* Two such functions agree where both are defined.
LEMMA SumsAgree ==
    ASSUME NEW R, NEW Q, NEW f, NEW g, NEW h, IsFiniteSet(R), Q \in SUBSET R,
           Sums(g, f, SUBSET R), Sums(h, f, SUBSET Q)
    PROVE  g[Q] = h[Q]
<1> DEFINE G == {S \in SUBSET Q : g[S] = h[S]}
<1>1. ASSUME NEW S \in SUBSET Q, \A x \in S : S \ {x} \in G
      PROVE  S \in G
  <2>1. g[S] = IF S = {} THEN 0 ELSE f[Chosen(S)] + g[S \ {Chosen(S)}]
    <3>1. g = [s \in SUBSET R |-> IF s = {} THEN 0
                                 ELSE LET x == CHOOSE x \in s : TRUE IN f[x] + g[s \ {x}]]
      BY DEF Sums
    <3> QED  BY <3>1 DEF Chosen
  <2>2. h[S] = IF S = {} THEN 0 ELSE f[Chosen(S)] + h[S \ {Chosen(S)}]
    <3>1. h = [s \in SUBSET Q |-> IF s = {} THEN 0
                                 ELSE LET x == CHOOSE x \in s : TRUE IN f[x] + h[s \ {x}]]
      BY DEF Sums
    <3> QED  BY <3>1 DEF Chosen
  <2>3. S # {} => Chosen(S) \in S
    BY DEF Chosen
  <2> QED  BY <1>1, <2>1, <2>2, <2>3
<1>2. IsFiniteSet(Q)
  BY FS_Subset
<1> HIDE DEF G
<1>3. Q \in G
  BY <1>1, <1>2, Whole, Zenon
<1> QED  BY <1>3 DEF G

LEMMA SumOfNone ==
    ASSUME NEW f
    PROVE  SumFunctionOnSet(f, {}) = 0
<1> DEFINE g == CHOOSE g : Sums(g, f, SUBSET {})
<1>1. Sums(g, f, SUBSET {})
  BY FS_EmptySet, SumsExist
<1>2. SumFunctionOnSet(f, {}) = g[{}]
  BY SumIs
<1> HIDE DEF g
<1> QED  BY <1>1, <1>2, SumsAt

LEMMA SumUnfolds ==
    ASSUME NEW f, NEW S, IsFiniteSet(S), S # {}
    PROVE  /\ Chosen(S) \in S
           /\ SumFunctionOnSet(f, S) = f[Chosen(S)] + SumFunctionOnSet(f, S \ {Chosen(S)})
<1> DEFINE Q == S \ {Chosen(S)}
           g == CHOOSE g : Sums(g, f, SUBSET S)
           k == CHOOSE k : Sums(k, f, SUBSET Q)
<1>1. Chosen(S) \in S
  BY DEF Chosen
<1>2. IsFiniteSet(Q) /\ Q \in SUBSET S
  BY FS_Subset
<1>3. Sums(g, f, SUBSET S) /\ Sums(k, f, SUBSET Q)
  BY <1>2, SumsExist
<1>4. SumFunctionOnSet(f, S) = g[S] /\ SumFunctionOnSet(f, Q) = k[Q]
  BY SumIs
<1> HIDE DEF g, k
<1>5. g[S] = f[Chosen(S)] + g[Q]
  <2>1. S \in SUBSET S
    OBVIOUS
  <2>2. g[S] = IF S = {} THEN 0 ELSE f[Chosen(S)] + g[Q]
    BY <1>3, <2>1, SumsAt, Zenon
  <2> QED  BY <2>2
<1>6. g[Q] = k[Q]
  <2> HIDE DEF Q
  <2>1. Q \in SUBSET S /\ Sums(g, f, SUBSET S) /\ Sums(k, f, SUBSET Q)
    BY <1>2, <1>3
  <2>2. \A a, b : Sums(a, f, SUBSET S) /\ Sums(b, f, SUBSET Q) => a[Q] = b[Q]
    BY <2>1, SumsAgree, Zenon
  <2> QED  BY <2>1, <2>2, Zenon
<1> QED  BY <1>1, <1>4, <1>5, <1>6

Same(f, h, Q) == \A x \in Q : f[x] = h[x]

LEMMA SumSame ==
    ASSUME NEW R, NEW f, NEW h, IsFiniteSet(R), Same(f, h, R)
    PROVE  SumFunctionOnSet(f, R) = SumFunctionOnSet(h, R)
<1> DEFINE G == {S \in SUBSET R : SumFunctionOnSet(f, S) = SumFunctionOnSet(h, S)}
<1>1. ASSUME NEW S \in SUBSET R, \A x \in S : S \ {x} \in G
      PROVE  S \in G
  <2>1. IsFiniteSet(S)
    BY FS_Subset
  <2>2. CASE S = {}
    BY <2>2, SumOfNone
  <2>3. CASE S # {}
    <3>1. /\ Chosen(S) \in S
          /\ SumFunctionOnSet(f, S) = f[Chosen(S)] + SumFunctionOnSet(f, S \ {Chosen(S)})
      BY <2>1, <2>3, SumUnfolds
    <3>2. SumFunctionOnSet(h, S) = h[Chosen(S)] + SumFunctionOnSet(h, S \ {Chosen(S)})
      BY <2>1, <2>3, SumUnfolds
    <3>3. S \ {Chosen(S)} \in G /\ f[Chosen(S)] = h[Chosen(S)]
      BY <1>1, <3>1 DEF Same
    <3> QED  BY <3>1, <3>2, <3>3
  <2> QED  BY <2>2, <2>3
<1> HIDE DEF G
<1>2. R \in G
  BY <1>1, Whole, Zenon
<1> QED  BY <1>2 DEF G

Numbers(f, R) == \A x \in R : f[x] \in Int

LEMMA SumInt ==
    ASSUME NEW R, NEW f, IsFiniteSet(R), Numbers(f, R)
    PROVE  SumFunctionOnSet(f, R) \in Int
<1> DEFINE G == {S \in SUBSET R : SumFunctionOnSet(f, S) \in Int}
<1>1. ASSUME NEW S \in SUBSET R, \A x \in S : S \ {x} \in G
      PROVE  S \in G
  <2>1. IsFiniteSet(S)
    BY FS_Subset
  <2>2. CASE S = {}
    BY <2>2, SumOfNone
  <2>3. CASE S # {}
    <3>1. /\ Chosen(S) \in S
          /\ SumFunctionOnSet(f, S) = f[Chosen(S)] + SumFunctionOnSet(f, S \ {Chosen(S)})
      BY <2>1, <2>3, SumUnfolds
    <3>2. S \ {Chosen(S)} \in G /\ f[Chosen(S)] \in Int
      BY <1>1, <3>1 DEF Numbers
    <3> QED  BY <3>1, <3>2
  <2> QED  BY <2>2, <2>3
<1> HIDE DEF G
<1>2. R \in G
  BY <1>1, Whole, Zenon
<1> QED  BY <1>2 DEF G

\* Any of the numbers may be the last one added.
LEMMA SumRemove ==
    ASSUME NEW R, NEW f, IsFiniteSet(R), Numbers(f, R)
    PROVE  \A x \in R : SumFunctionOnSet(f, R) = f[x] + SumFunctionOnSet(f, R \ {x})
<1> DEFINE Sum(S) == SumFunctionOnSet(f, S)
           G == {S \in SUBSET R : \A x \in S : Sum(S) = f[x] + Sum(S \ {x})}
<1>0. \A S \in SUBSET R : IsFiniteSet(S) /\ Sum(S) \in Int
  <2> TAKE S \in SUBSET R
  <2>1. IsFiniteSet(S) /\ Numbers(f, S)
    BY FS_Subset DEF Numbers
  <2> QED  BY <2>1, SumInt
<1>1. ASSUME NEW S \in SUBSET R, \A x \in S : S \ {x} \in G
      PROVE  S \in G
  <2> SUFFICES ASSUME NEW x \in S PROVE Sum(S) = f[x] + Sum(S \ {x})
    OBVIOUS
  <2> DEFINE c == Chosen(S)
  <2>1. c \in S /\ Sum(S) = f[c] + Sum(S \ {c})
    <3>1. IsFiniteSet(S) /\ S # {}
      BY <1>0
    <3> QED  BY <3>1, SumUnfolds
  <2> HIDE DEF c
  <2>2. CASE x = c
    BY <2>1, <2>2
  <2>3. CASE x # c
    <3>1. x \in S \ {c} /\ c \in S \ {x} /\ S \ {x} \in G /\ S \ {c} \in G
      BY <1>1, <2>1, <2>3
    <3>2. Sum(S \ {c}) = f[x] + Sum((S \ {c}) \ {x})
      BY <3>1
    <3>3. Sum(S \ {x}) = f[c] + Sum((S \ {x}) \ {c})
      BY <3>1
    <3>4. (S \ {x}) \ {c} = (S \ {c}) \ {x} /\ (S \ {c}) \ {x} \in SUBSET R
      OBVIOUS
    <3> DEFINE a == Sum((S \ {c}) \ {x})
               b == Sum(S \ {c})
               d == Sum(S \ {x})
               e == Sum(S)
    <3>5. f[x] \in Int /\ f[c] \in Int
      BY <2>1 DEF Numbers
    <3>6. a \in Int /\ b = f[x] + a /\ d = f[c] + a /\ e = f[c] + b
      BY <1>0, <2>1, <3>2, <3>3, <3>4
    <3> HIDE DEF a, b, d, e, Sum
    <3>7. e = f[x] + d
      BY <3>5, <3>6
    <3> QED  BY <3>7 DEF d, e
  <2> QED  BY <2>2, <2>3
<1> HIDE DEF G
<1>2. R \in G
  BY <1>1, Whole, Zenon
<1> QED  BY <1>2 DEF G

LEMMA SumAdd ==
    ASSUME NEW R, NEW f, NEW x, IsFiniteSet(R), x \notin R, Numbers(f, R \union {x})
    PROVE  SumFunctionOnSet(f, R \union {x}) = SumFunctionOnSet(f, R) + f[x]
<1> DEFINE Q == R \union {x}
<1>1. IsFiniteSet(Q) /\ x \in Q /\ Q \ {x} = R /\ Numbers(f, Q) /\ Numbers(f, R)
  BY FS_AddElement DEF Numbers
<1> HIDE DEF Q
<1>2. SumFunctionOnSet(f, Q) = f[x] + SumFunctionOnSet(f, R)
  BY <1>1, SumRemove
<1>3. SumFunctionOnSet(f, R) \in Int /\ f[x] \in Int
  BY <1>1, SumInt DEF Numbers
<1> QED  BY <1>2, <1>3 DEF Q

LEMMA SumOfOne ==
    ASSUME NEW f, NEW x, f[x] \in Int
    PROVE  SumFunctionOnSet(f, {x}) = f[x]
<1>1. IsFiniteSet({}) /\ x \notin {} /\ Numbers(f, {} \union {x}) /\ {} \union {x} = {x}
  BY FS_EmptySet DEF Numbers
<1>2. SumFunctionOnSet(f, {} \union {x}) = SumFunctionOnSet(f, {}) + f[x]
  BY <1>1, SumAdd
<1> QED  BY <1>1, <1>2, SumOfNone

LEMMA SumNat ==
    ASSUME NEW R, NEW f, IsFiniteSet(R), \A x \in R : f[x] \in Nat
    PROVE  SumFunctionOnSet(f, R) \in Nat
<1> DEFINE G == {S \in SUBSET R : SumFunctionOnSet(f, S) \in Nat}
<1>1. ASSUME NEW S \in SUBSET R, \A x \in S : S \ {x} \in G
      PROVE  S \in G
  <2>1. IsFiniteSet(S)
    BY FS_Subset
  <2>2. CASE S = {}
    BY <2>2, SumOfNone
  <2>3. CASE S # {}
    <3>1. /\ Chosen(S) \in S
          /\ SumFunctionOnSet(f, S) = f[Chosen(S)] + SumFunctionOnSet(f, S \ {Chosen(S)})
      BY <2>1, <2>3, SumUnfolds
    <3>2. S \ {Chosen(S)} \in G /\ f[Chosen(S)] \in Nat
      BY <1>1, <3>1
    <3> QED  BY <3>1, <3>2
  <2> QED  BY <2>2, <2>3
<1> HIDE DEF G
<1>2. R \in G
  <2>1. \A S \in SUBSET R : (\A x \in S : S \ {x} \in G) => S \in G
    BY <1>1, Zenon
  <2>2. \A S \in SUBSET R : S \in G
    BY <2>1, Subsets
  <2> QED  BY <2>2
<1> QED  BY <1>2 DEF G

LEMMA SumZero ==
    ASSUME NEW R, NEW f, IsFiniteSet(R), \A x \in R : f[x] = 0
    PROVE  SumFunctionOnSet(f, R) = 0
<1> DEFINE G == {S \in SUBSET R : SumFunctionOnSet(f, S) = 0}
<1>1. ASSUME NEW S \in SUBSET R, \A x \in S : S \ {x} \in G
      PROVE  S \in G
  <2>1. IsFiniteSet(S)
    BY FS_Subset
  <2>2. CASE S = {}
    BY <2>2, SumOfNone
  <2>3. CASE S # {}
    <3>1. /\ Chosen(S) \in S
          /\ SumFunctionOnSet(f, S) = f[Chosen(S)] + SumFunctionOnSet(f, S \ {Chosen(S)})
      BY <2>1, <2>3, SumUnfolds
    <3>2. S \ {Chosen(S)} \in G /\ f[Chosen(S)] = 0
      BY <1>1, <3>1
    <3> QED  BY <3>1, <3>2
  <2> QED  BY <2>2, <2>3
<1> HIDE DEF G
<1>2. \A S \in SUBSET R : S \in G
  <2>1. \A S \in SUBSET R : (\A x \in S : S \ {x} \in G) => S \in G
    BY <1>1, Zenon
  <2> QED  BY <2>1, Subsets
<1>3. R \in G
  BY <1>2
<1> QED  BY <1>3 DEF G

\* The sum of sums.
Adds(f, g, h, R) == \A x \in R : h[x] = f[x] + g[x]

LEMMA SumPlus ==
    ASSUME NEW R, NEW f, NEW g, NEW h, IsFiniteSet(R), Numbers(f, R), Numbers(g, R),
           Adds(f, g, h, R)
    PROVE  SumFunctionOnSet(h, R) = SumFunctionOnSet(f, R) + SumFunctionOnSet(g, R)
<1> DEFINE F(S) == SumFunctionOnSet(f, S)
           H(S) == SumFunctionOnSet(g, S)
           K(S) == SumFunctionOnSet(h, S)
           G == {S \in SUBSET R : K(S) = F(S) + H(S)}
<1>0. \A S \in SUBSET R : IsFiniteSet(S) /\ F(S) \in Int /\ H(S) \in Int
  <2> TAKE S \in SUBSET R
  <2>1. IsFiniteSet(S) /\ Numbers(f, S) /\ Numbers(g, S)
    BY FS_Subset DEF Numbers
  <2> QED  BY <2>1, SumInt
<1>1. ASSUME NEW S \in SUBSET R, \A x \in S : S \ {x} \in G
      PROVE  S \in G
  <2>1. IsFiniteSet(S)
    BY <1>0
  <2>2. CASE S = {}
    BY <2>2, SumOfNone
  <2>3. CASE S # {}
    <3> DEFINE c == Chosen(S)
               Q == S \ {c}
    <3>1. c \in S /\ F(S) = f[c] + F(Q)
      BY <2>1, <2>3, SumUnfolds
    <3>2. H(S) = g[c] + H(Q)
      BY <2>1, <2>3, SumUnfolds
    <3>3. K(S) = h[c] + K(Q)
      BY <2>1, <2>3, SumUnfolds
    <3>4. Q \in G /\ Q \in SUBSET R /\ f[c] \in Int /\ g[c] \in Int /\ h[c] = f[c] + g[c]
      BY <1>1, <3>1 DEF Numbers, Adds
    <3>5. K(Q) = F(Q) + H(Q) /\ F(Q) \in Int /\ H(Q) \in Int
      BY <1>0, <3>4
    <3> HIDE DEF c, Q, F, H, K
    <3>6. K(S) = F(S) + H(S)
      BY <3>1, <3>2, <3>3, <3>4, <3>5
    <3> QED  BY <3>6
  <2> QED  BY <2>2, <2>3
<1> HIDE DEF G
<1>2. R \in G
  BY <1>1, Whole, Zenon
<1> QED  BY <1>2 DEF G

\* What a function sums to, over all its domain.
LEMMA WholeSum ==
    ASSUME NEW f, IsFiniteSet(DOMAIN f), Numbers(f, DOMAIN f)
    PROVE  SumFunction(f) = SumFunctionOnSet(f, DOMAIN f) /\ SumFunction(f) \in Int
<1>1. SumFunction(f) = SumFunctionOnSet(f, DOMAIN f)
  BY DEF SumFunction
<1>2. SumFunctionOnSet(f, DOMAIN f) \in Int
  <2> DEFINE R == DOMAIN f
  <2>1. IsFiniteSet(R) /\ Numbers(f, R)
    OBVIOUS
  <2> HIDE DEF R
  <2>2. SumFunctionOnSet(f, R) \in Int
    BY <2>1, SumInt
  <2> QED  BY <2>2 DEF R
<1> QED  BY <1>1, <1>2

-----------------------------------------------------------------------------
(***************************************************************************)
(* A use of a parcel: every figure of it is a whole number, whatever index *)
(* numbers are stored.                                                     *)
(***************************************************************************)
IsFacts(facts) ==
    /\ facts.cpi \in [Years -> Nat] /\ facts.estimate \in BOOLEAN

IsASale(s) == s.year \in Nat /\ s.of \in DisposalType

SpentType == [when : Int, amount : Int, indexed : BOOLEAN]

LEMMA YearsAre ==
    /\ FirstYear \in Nat /\ LastYear \in Nat /\ FirstYear <= LastYear /\ NewRules \in Nat
    /\ \A y : y \in Years <=> y \in Nat /\ FirstYear <= y /\ y <= LastYear
  BY YearsAssumption DEF Years

LEMMA NewestIs ==
    ASSUME NEW ys, ys \subseteq Years, ys # {}
    PROVE  Newest(ys) \in ys
<1> DEFINE S == {n \in Nat : LastYear - n \in ys}
<1>1. \A y \in ys : y \in Nat /\ y <= LastYear
  BY YearsAre
<1>2. S # {}
  <2>1. PICK y \in ys : TRUE
    OBVIOUS
  <2>2. LastYear - y \in Nat /\ LastYear - (LastYear - y) = y
    BY <1>1, YearsAre
  <2> QED  BY <2>1, <2>2
<1>3. PICK m \in S : \A n \in S : m <= n
  BY <1>2, LeastNat
<1>4. LastYear - m \in ys /\ m \in Nat
  OBVIOUS
<1>5. ASSUME NEW z \in ys PROVE z <= LastYear - m
  <2>1. z \in Nat /\ z <= LastYear /\ LastYear - z \in Nat /\ LastYear - (LastYear - z) = z
    BY <1>1, YearsAre
  <2>2. LastYear - z \in S
    BY <2>1
  <2>3. m <= LastYear - z
    BY <1>3, <2>2
  <2> QED  BY <1>4, <2>1, <2>3, YearsAre
<1>6. \E y \in ys : \A z \in ys : z <= y
  BY <1>4, <1>5
<1> QED  BY <1>6 DEF Newest

LEMMA IndexNat ==
    ASSUME NEW facts, IsFacts(facts), NEW y
    PROVE  Index(facts, y) \in Nat
<1>1. Stored(facts) \subseteq Years /\ \A z \in Years : facts.cpi[z] \in Nat
  BY DEF Stored, IsFacts
<1>2. Stored(facts) # {} => facts.cpi[Newest(Stored(facts))] \in Nat
  BY <1>1, NewestIs
<1> QED  BY <1>1, <1>2 DEF Index, Unknown

LEMMA DivInt ==
    ASSUME NEW a \in Int, NEW b \in Nat, b # 0
    PROVE  a \div b \in Int /\ a % b \in Int
  OBVIOUS

LEMMA FactorNat ==
    ASSUME NEW facts, IsFacts(facts), NEW when, NEW sold
    PROVE  Factor(facts, when, sold) \in Nat
<1> DEFINE then == Index(facts, when)
           now == Index(facts, sold)
           worked == (2000 * now + then) \div (2 * then)
<1>1. then \in Nat /\ now \in Nat
  BY IndexNat
<1>2. Factor(facts, when, sold) = IF when = sold THEN 1000
                                  ELSE IF then = Unknown \/ now = Unknown THEN Unknown
                                  ELSE IF worked > 1000 THEN worked ELSE 1000
  BY DEF Factor
<1> HIDE DEF then, now
<1>3. then # 0 => worked \in Int
  <2>1. then # 0 => 2000 * now + then \in Int /\ 2 * then \in Nat /\ 2 * then # 0
    BY <1>1
  <2> QED  BY <2>1, DivInt
<1> HIDE DEF worked
<1>4. then # 0 /\ worked > 1000 => worked \in Nat
  BY <1>3
<1> QED  BY <1>2, <1>4 DEF Unknown

LEMMA RoundInt ==
    ASSUME NEW n \in Int, NEW d \in Nat, d # 0
    PROVE  RoundHalfEven(n, d) \in Int
<1>1. n \div d \in Int
  BY DivInt
<1> QED  BY <1>1 DEF RoundHalfEven

LEMMA SeqSum ==
    ASSUME NEW q, NEW n \in Nat, NEW f, DOMAIN q = 1 .. n, DOMAIN f = DOMAIN q, Numbers(f, DOMAIN q)
    PROVE  SumFunction(f) \in Int /\ SumFunction(f) = SumFunctionOnSet(f, DOMAIN q)
<1>1. IsFiniteSet(DOMAIN f)
  BY FS_Interval
<1> QED  BY <1>1, WholeSum

LEMMA Elements ==
    ASSUME NEW S, NEW q \in Seq(S)
    PROVE  DOMAIN q = 1 .. Len(q) /\ Len(q) \in Nat /\ \A k \in DOMAIN q : q[k] \in S
  OBVIOUS

LEMMA AmountsInt ==
    ASSUME NEW q \in Seq([when : Int, amount : Int]) \union Seq(SpentType)
    PROVE  SumOf(LAMBDA x : x.amount, q) \in Int
<1> DEFINE f == [k \in DOMAIN q |-> q[k].amount]
<1>1. DOMAIN q = 1 .. Len(q) /\ Len(q) \in Nat
  OBVIOUS
<1>2. \A k \in DOMAIN q : q[k].amount \in Int
  <2>1. CASE q \in Seq([when : Int, amount : Int])
    <3>1. \A k \in DOMAIN q : q[k] \in [when : Int, amount : Int]
      BY <2>1, Elements
    <3> QED  BY <3>1
  <2>2. CASE q \in Seq(SpentType)
    <3>1. \A k \in DOMAIN q : q[k] \in SpentType
      BY <2>2, Elements
    <3> QED  BY <3>1 DEF SpentType
  <2> QED  BY <2>1, <2>2
<1>3. DOMAIN f = DOMAIN q /\ Numbers(f, DOMAIN q)
  BY <1>2 DEF Numbers
<1>4. SumOf(LAMBDA x : x.amount, q) = SumFunction(f)
  BY DEF SumOf
<1> HIDE DEF f
<1> QED  BY <1>1, <1>3, <1>4, SeqSum

LEMMA SpentSeq ==
    ASSUME NEW u \in UseType, NEW s, IsASale(s)
    PROVE  Spent(u, s) \in Seq(SpentType)
<1> DEFINE a == IF HeldThrough(u, s)
                THEN <<[when |-> NewRules, amount |-> u.value, indexed |-> TRUE]>>
                ELSE IF u.acquired >= NewRules
                THEN <<[when |-> u.acquired, amount |-> u.cost, indexed |-> TRUE]>>
                ELSE <<>>
           b == [k \in DOMAIN u.moved |-> [when |-> u.moved[k].when, amount |-> u.moved[k].amount,
                                           indexed |-> u.moved[k].amount > 0]]
<1>1. u.acquired \in Int /\ u.cost \in Int /\ u.value \in Int
      /\ u.moved \in Seq([when : Int, amount : Int]) /\ NewRules \in Int
  BY YearsAre DEF UseType
<1>2. a \in Seq(SpentType)
  <2>1. [when |-> NewRules, amount |-> u.value, indexed |-> TRUE] \in SpentType
    BY <1>1 DEF SpentType
  <2>2. [when |-> u.acquired, amount |-> u.cost, indexed |-> TRUE] \in SpentType
    BY <1>1 DEF SpentType
  <2> QED  BY <2>1, <2>2
<1>3. b \in Seq(SpentType)
  <2>1. DOMAIN u.moved = 1 .. Len(u.moved) /\ Len(u.moved) \in Nat
        /\ \A k \in DOMAIN u.moved : u.moved[k].when \in Int /\ u.moved[k].amount \in Int
    <3>1. DOMAIN u.moved = 1 .. Len(u.moved) /\ Len(u.moved) \in Nat
      BY <1>1
    <3>2. \A k \in DOMAIN u.moved : u.moved[k] \in [when : Int, amount : Int]
      BY <1>1, Elements
    <3> QED  BY <3>1, <3>2
  <2>2. \A k \in 1 .. Len(u.moved) : b[k] \in SpentType
    BY <2>1 DEF SpentType
  <2>3. DOMAIN b = 1 .. Len(u.moved) /\ b = [k \in 1 .. Len(u.moved) |-> b[k]]
    BY <2>1
  <2> HIDE DEF b
  <2> QED  BY <2>1, <2>2, <2>3
<1> HIDE DEF a, b
<1> QED  BY <1>2, <1>3 DEF Spent, a, b

LEMMA UseIs ==
    ASSUME NEW u \in UseType
    PROVE  /\ u.acquired \in Int /\ u.cost \in Int /\ u.value \in Int /\ u.proceeds \in Int
           /\ u.moved \in Seq([when : Int, amount : Int])
  BY DEF UseType

LEMMA CostBaseInt ==
    ASSUME NEW u \in UseType, NEW s, IsASale(s)
    PROVE  CostBase(u, s) \in Int /\ Total(u, s) \in Int
<1>1. SumOf(LAMBDA x : x.amount, Spent(u, s)) \in Int
  BY SpentSeq, AmountsInt
<1>2. SumOf(LAMBDA x : x.amount, u.moved) \in Int
  BY UseIs, AmountsInt
<1> QED  BY <1>1, <1>2, UseIs DEF CostBase, Total

LEMMA IndexedCostInt ==
    ASSUME NEW u \in UseType, NEW s, IsASale(s), NEW facts, IsFacts(facts)
    PROVE  IndexedCost(u, s, facts) \in Int
<1> DEFINE q == Spent(u, s)
           f == [k \in DOMAIN q |-> q[k].amount * FactorOf(q[k], s, facts)]
           t == SumOf(LAMBDA x : x.amount * FactorOf(x, s, facts), q)
<1>1. CostBase(u, s) \in Int /\ Total(u, s) \in Int
  BY CostBaseInt
<1>2. DOMAIN q = 1 .. Len(q) /\ Len(q) \in Nat /\ \A k \in DOMAIN q : q[k] \in SpentType
  BY SpentSeq, Elements
<1>3. t = SumFunction(f)
  BY DEF SumOf
<1> HIDE DEF q, t
<1>4. Numbers(f, DOMAIN q)
  <2> SUFFICES ASSUME NEW k \in DOMAIN q PROVE q[k].amount * FactorOf(q[k], s, facts) \in Int
    BY DEF Numbers
  <2>1. q[k].amount \in Int
    BY <1>2 DEF SpentType
  <2>2. FactorOf(q[k], s, facts) \in Int
    BY FactorNat DEF FactorOf
  <2> QED  BY <2>1, <2>2
<1>5. t \in Int
  <2>1. DOMAIN f = DOMAIN q
    OBVIOUS
  <2> HIDE DEF f
  <2> QED  BY <1>2, <1>3, <1>4, <2>1, SeqSum
<1>6. IndexedCost(u, s, facts) = IF Indexed(u, s, facts) /\ Total(u, s) > 0
                                 THEN Cents(CostBase(u, s) * t, 1000 * Total(u, s))
                                 ELSE CostBase(u, s)
  BY DEF IndexedCost, t, q
<1> DEFINE n == CostBase(u, s) * t
           d == 2 * (1000 * Total(u, s))
<1>7. n \in Int
  BY <1>1, <1>5
<1>8. Total(u, s) > 0 => d \in Nat /\ d # 0
  BY <1>1
<1> HIDE DEF n, d
<1>9. Total(u, s) > 0 => RoundHalfEven(n, d) \in Int
  BY <1>7, <1>8, RoundInt
<1>10. Cents(CostBase(u, s) * t, 1000 * Total(u, s)) = 2 * RoundHalfEven(n, d)
  BY DEF Cents, n, d
<1> QED  BY <1>1, <1>6, <1>9, <1>10

LEMMA AfterInt ==
    ASSUME NEW u \in UseType, NEW s, IsASale(s), NEW facts, IsFacts(facts)
    PROVE  After(u, s, facts) \in Int /\ Deferred(u) \in Int /\ GainOf(u, s, facts) \in Int
<1>1. CostBase(u, s) \in Int /\ IndexedCost(u, s, facts) \in Int
  BY CostBaseInt, IndexedCostInt
<1>2. After(u, s, facts) \in Int /\ Deferred(u) \in Int
  BY <1>1, UseIs DEF After, IndexedGain, Deferred
<1> QED  BY <1>1, <1>2, UseIs DEF GainOf

-----------------------------------------------------------------------------
(***************************************************************************)
(* A sale's parts: each of its uses' gains goes whole into the kinds.      *)
(***************************************************************************)
PartType == [bucket : Buckets, amount : Int]

Kinds == Buckets \union {"loss"}

LEMMA PartsSeq ==
    ASSUME NEW u \in UseType, NEW s, IsASale(s), NEW facts, IsFacts(facts)
    PROVE  /\ Parts(u, s, facts) \in Seq(PartType)
           /\ Len(Parts(u, s, facts)) = IF New(s) /\ HeldThrough(u, s) THEN 2 ELSE 1
           /\ LET q == Parts(u, s, facts)
              IN  IF New(s) /\ HeldThrough(u, s)
                  THEN q[1].amount + q[2].amount = GainOf(u, s, facts)
                  ELSE q[1].amount = GainOf(u, s, facts)
<1> DEFINE old == IF Discountable(u, s) THEN "discountable" ELSE "other"
           a == After(u, s, facts)
           d == Deferred(u)
           g == GainOf(u, s, facts)
           p == Parts(u, s, facts)
<1>1. a \in Int /\ d \in Int /\ g \in Int
  BY AfterInt
<1>2. old \in Buckets /\ "from_july_2027" \in Buckets
  BY DEF Buckets
<1>3. ~New(s) => p = <<[bucket |-> old, amount |-> g]>>
  BY DEF Parts
<1>4. New(s) => g = a + IF HeldThrough(u, s) THEN d ELSE 0
  BY DEF GainOf
<1>5. New(s) => p = (IF HeldThrough(u, s) THEN <<[bucket |-> old, amount |-> d]>> ELSE <<>>)
                     \o <<[bucket |-> "from_july_2027", amount |-> a]>>
  BY DEF Parts
<1> HIDE DEF old, a, d, g, p
<1>6. CASE ~New(s)
  <2> DEFINE x == [bucket |-> old, amount |-> g]
  <2>1. x \in PartType /\ x.amount = g
    BY <1>1, <1>2 DEF PartType
  <2>2. p = <<x>>
    BY <1>3, <1>6
  <2> HIDE DEF x
  <2>3. p \in Seq(PartType) /\ Len(p) = 1 /\ p[1] = x
    BY <2>1, <2>2
  <2> QED  BY <1>6, <2>1, <2>3 DEF p, g
<1>7. CASE New(s) /\ ~HeldThrough(u, s)
  <2> DEFINE x == [bucket |-> "from_july_2027", amount |-> a]
  <2>1. x \in PartType /\ x.amount = a
    BY <1>1, <1>2 DEF PartType
  <2>2. p = <<>> \o <<x>>
    BY <1>5, <1>7
  <2> HIDE DEF x
  <2>3. p \in Seq(PartType) /\ Len(p) = 1 /\ p[1] = x
    BY <2>1, <2>2
  <2>4. g = a
    BY <1>1, <1>4, <1>7
  <2> QED  BY <1>7, <2>1, <2>3, <2>4 DEF p, g
<1>8. CASE New(s) /\ HeldThrough(u, s)
  <2> DEFINE x == [bucket |-> old, amount |-> d]
             y == [bucket |-> "from_july_2027", amount |-> a]
  <2>1. x \in PartType /\ y \in PartType /\ x.amount = d /\ y.amount = a
    BY <1>1, <1>2 DEF PartType
  <2>2. p = <<x>> \o <<y>>
    BY <1>5, <1>8
  <2> HIDE DEF x, y
  <2>3. p \in Seq(PartType) /\ Len(p) = 2 /\ p[1] = x /\ p[2] = y
    BY <2>1, <2>2
  <2>4. g = d + a
    BY <1>1, <1>4, <1>8
  <2> QED  BY <1>1, <1>8, <2>1, <2>3, <2>4 DEF p, g
<1> QED  BY <1>6, <1>7, <1>8

\* What a part counts as of a kind: all of it of its own, nothing of another.
Count(p, kind) == IF KindOf(p) = kind THEN p.amount ELSE 0

UseAmount(u, s, facts, kind) ==
    SumOf(LAMBDA p : IF KindOf(p) = kind THEN p.amount ELSE 0, Parts(u, s, facts))

LEMMA CountIs ==
    ASSUME NEW p \in PartType
    PROVE  /\ \A kind \in Kinds : Count(p, kind) \in Int
           /\ \A kind \in Buckets : Count(p, kind) \in Nat
           /\ -Count(p, "loss") \in Nat
           /\ Count(p, "other") + Count(p, "discountable") + Count(p, "from_july_2027")
                + Count(p, "loss") = p.amount
<1>1. p.bucket \in Buckets /\ p.amount \in Int
  BY DEF PartType
<1>2. KindOf(p) \in Kinds /\ (KindOf(p) = "loss" <=> p.amount < 0)
  BY <1>1 DEF KindOf, Kinds, Buckets
<1>3. \A kind : Count(p, kind) = IF KindOf(p) = kind THEN p.amount ELSE 0
  BY DEF Count
<1>4. KindOf(p) \in {"other", "discountable", "from_july_2027", "loss"}
  BY <1>2 DEF Kinds, Buckets
<1>5. "loss" \notin Buckets
  BY DEF Buckets
<1>6. \A kind : Count(p, kind) \in Int
  BY <1>1, <1>3
<1>7. \A kind \in Buckets : Count(p, kind) \in Nat
  BY <1>1, <1>2, <1>3, <1>5
<1>8. -Count(p, "loss") \in Nat
  BY <1>1, <1>2, <1>3
<1>9. Count(p, "other") + Count(p, "discountable") + Count(p, "from_july_2027")
        + Count(p, "loss") = p.amount
  <2> DEFINE k == KindOf(p)
             m == p.amount
             a == Count(p, "other")
             b == Count(p, "discountable")
             c == Count(p, "from_july_2027")
             d == Count(p, "loss")
  <2>1. /\ m \in Int /\ k \in {"other", "discountable", "from_july_2027", "loss"}
        /\ a = (IF k = "other" THEN m ELSE 0) /\ b = (IF k = "discountable" THEN m ELSE 0)
        /\ c = (IF k = "from_july_2027" THEN m ELSE 0) /\ d = (IF k = "loss" THEN m ELSE 0)
    BY <1>1, <1>3, <1>4
  <2> HIDE DEF k, m, a, b, c, d
  <2>2. a + b + c + d = m
    BY <2>1
  <2> QED  BY <2>2 DEF a, b, c, d, m
<1> QED  BY <1>6, <1>7, <1>8, <1>9

LEMMA UseAmountIs ==
    ASSUME NEW u \in UseType, NEW s, IsASale(s), NEW facts, IsFacts(facts), NEW kind
    PROVE  LET q == Parts(u, s, facts)
           IN  UseAmount(u, s, facts, kind)
                   = IF Len(q) = 2 THEN Count(q[1], kind) + Count(q[2], kind)
                     ELSE Count(q[1], kind)
<1> DEFINE q == Parts(u, s, facts)
           f == [k \in DOMAIN q |-> IF KindOf(q[k]) = kind THEN q[k].amount ELSE 0]
<1>1. q \in Seq(PartType) /\ Len(q) \in {1, 2}
  BY PartsSeq
<1>2. DOMAIN q = 1 .. Len(q) /\ Len(q) \in Nat /\ \A k \in DOMAIN q : q[k] \in PartType
  BY <1>1, Elements
<1>3. UseAmount(u, s, facts, kind) = SumFunction(f)
  BY DEF UseAmount, SumOf
<1> HIDE DEF q
<1>4. \A k \in DOMAIN q : f[k] = Count(q[k], kind) /\ f[k] \in Int
  BY <1>2 DEF Count, PartType
<1>5. DOMAIN f = DOMAIN q /\ Numbers(f, DOMAIN q)
  BY <1>4 DEF Numbers
<1> HIDE DEF f
<1>6. SumFunction(f) = SumFunctionOnSet(f, 1 .. Len(q))
  BY <1>2, <1>5, SeqSum
<1>7. CASE Len(q) = 1
  <2>1. 1 .. Len(q) = {1} /\ 1 \in DOMAIN q
    BY <1>2, <1>7
  <2>2. SumFunctionOnSet(f, {1}) = f[1]
    BY <1>4, <2>1, SumOfOne
  <2> QED  BY <1>3, <1>4, <1>6, <1>7, <2>1, <2>2 DEF q
<1>8. CASE Len(q) = 2
  <2>1. 1 .. Len(q) = {1} \union {2} /\ 1 \in DOMAIN q /\ 2 \in DOMAIN q
    BY <1>2, <1>8
  <2>2. SumFunctionOnSet(f, {1}) = f[1]
    BY <1>4, <2>1, SumOfOne
  <2>3. SumFunctionOnSet(f, {1} \union {2}) = SumFunctionOnSet(f, {1}) + f[2]
    <3>1. IsFiniteSet({1}) /\ 2 \notin {1}
      <4> DEFINE one == 1
      <4>1. IsFiniteSet({one})
        <5> HIDE DEF one
        <5> QED  BY FS_Singleton
      <4> QED  BY <4>1
    <3>2. Numbers(f, {1} \union {2})
      BY <1>4, <2>1 DEF Numbers
    <3> QED  BY <3>1, <3>2, SumAdd
  <2> QED  BY <1>3, <1>4, <1>6, <1>8, <2>1, <2>2, <2>3 DEF q
<1> QED  BY <1>1, <1>7, <1>8

LEMMA UseAddsUp ==
    ASSUME NEW u \in UseType, NEW s, IsASale(s), NEW facts, IsFacts(facts)
    PROVE  /\ \A kind \in Kinds : UseAmount(u, s, facts, kind) \in Int
           /\ \A kind \in Buckets : UseAmount(u, s, facts, kind) \in Nat
           /\ -UseAmount(u, s, facts, "loss") \in Nat
           /\ UseAmount(u, s, facts, "other") + UseAmount(u, s, facts, "discountable")
                + UseAmount(u, s, facts, "from_july_2027") + UseAmount(u, s, facts, "loss")
                = GainOf(u, s, facts)
<1> DEFINE q == Parts(u, s, facts)
           g == GainOf(u, s, facts)
           A(kind) == UseAmount(u, s, facts, kind)
<1>1. q \in Seq(PartType) /\ (Len(q) = 1 \/ Len(q) = 2)
      /\ (Len(q) = 2 => q[1].amount + q[2].amount = g) /\ (Len(q) = 1 => q[1].amount = g)
  BY PartsSeq
<1>2. DOMAIN q = 1 .. Len(q) /\ \A k \in DOMAIN q : q[k] \in PartType
  BY <1>1, Elements
<1>3. \A kind : A(kind) = IF Len(q) = 2 THEN Count(q[1], kind) + Count(q[2], kind)
                          ELSE Count(q[1], kind)
  BY UseAmountIs
<1> HIDE DEF q, g, A
<1>4. {"other", "discountable", "from_july_2027", "loss"} \subseteq Kinds
  BY DEF Kinds, Buckets
<1>5. CASE Len(q) = 1
  <2>1. q[1] \in PartType /\ \A kind : A(kind) = Count(q[1], kind)
    BY <1>2, <1>3, <1>5
  <2>2. q[1].amount = g
    BY <1>1, <1>5
  <2>3. /\ \A kind \in Kinds : A(kind) \in Int
        /\ \A kind \in Buckets : A(kind) \in Nat
        /\ -A("loss") \in Nat
        /\ A("other") + A("discountable") + A("from_july_2027") + A("loss") = g
    BY <2>1, <2>2, CountIs
  <2> QED  BY <2>3 DEF A, g
<1>6. CASE Len(q) = 2
  <2> DEFINE v == q[1]
             w == q[2]
  <2>1. v \in PartType /\ w \in PartType /\ \A kind : A(kind) = Count(v, kind) + Count(w, kind)
    BY <1>2, <1>3, <1>6
  <2>2. v.amount + w.amount = g
    BY <1>1, <1>6
  <2> HIDE DEF v, w
  <2>3. \A kind \in Kinds : Count(v, kind) \in Int /\ Count(w, kind) \in Int
    BY <2>1, CountIs
  <2>4. \A kind \in Buckets : Count(v, kind) \in Nat /\ Count(w, kind) \in Nat
    BY <2>1, CountIs
  <2>5. -Count(v, "loss") \in Nat /\ -Count(w, "loss") \in Nat
    BY <2>1, CountIs
  <2>6. /\ \A kind \in Kinds : A(kind) \in Int
        /\ \A kind \in Buckets : A(kind) \in Nat
    BY <2>1, <2>3, <2>4
  <2>7. -A("loss") \in Nat
    <3> DEFINE a == Count(v, "loss")
               b == Count(w, "loss")
    <3>1. a \in Int /\ b \in Int /\ -a \in Nat /\ -b \in Nat /\ A("loss") = a + b
      BY <1>4, <2>1, <2>3, <2>5
    <3> HIDE DEF a, b
    <3> QED  BY <3>1
  <2>8. A("other") + A("discountable") + A("from_july_2027") + A("loss") = g
    <3> DEFINE va == Count(v, "other")
               vb == Count(v, "discountable")
               vc == Count(v, "from_july_2027")
               vd == Count(v, "loss")
               wa == Count(w, "other")
               wb == Count(w, "discountable")
               wc == Count(w, "from_july_2027")
               wd == Count(w, "loss")
    <3>1. va \in Int /\ vb \in Int /\ vc \in Int /\ vd \in Int /\ va + vb + vc + vd = v.amount
      BY <1>4, <2>1, <2>3, CountIs
    <3>2. wa \in Int /\ wb \in Int /\ wc \in Int /\ wd \in Int /\ wa + wb + wc + wd = w.amount
      BY <1>4, <2>1, <2>3, CountIs
    <3>3. A("other") = va + wa /\ A("discountable") = vb + wb
          /\ A("from_july_2027") = vc + wc /\ A("loss") = vd + wd
      BY <2>1
    <3> HIDE DEF va, vb, vc, vd, wa, wb, wc, wd
    <3> QED  BY <2>2, <3>1, <3>2, <3>3
  <2> QED  BY <2>6, <2>7, <2>8 DEF A, g
<1> QED  BY <1>1, <1>5, <1>6

LEMMA AmountIs ==
    ASSUME NEW s, IsASale(s), NEW facts, IsFacts(facts), NEW kind \in Kinds
    PROVE  LET f == [k \in DOMAIN s.of.uses |-> UseAmount(s.of.uses[k], s, facts, kind)]
           IN  /\ Numbers(f, DOMAIN s.of.uses)
               /\ Amount(s, facts, kind) = SumFunctionOnSet(f, DOMAIN s.of.uses)
               /\ Amount(s, facts, kind) \in Int
<1> DEFINE q == s.of.uses
           f == [k \in DOMAIN q |-> UseAmount(q[k], s, facts, kind)]
<1>1. q \in Seq(UseType)
  BY DEF IsASale, DisposalType
<1>2. DOMAIN q = 1 .. Len(q) /\ Len(q) \in Nat /\ \A k \in DOMAIN q : q[k] \in UseType
  BY <1>1, Elements
<1>3. Amount(s, facts, kind) = SumFunction(f)
  BY DEF Amount, SumOf, UseAmount
<1> HIDE DEF q
<1>4. DOMAIN f = DOMAIN q /\ Numbers(f, DOMAIN q)
  BY <1>2, UseAddsUp DEF Numbers
<1> HIDE DEF f
<1>5. SumFunction(f) \in Int /\ SumFunction(f) = SumFunctionOnSet(f, DOMAIN q)
  BY <1>2, <1>4, SeqSum
<1> QED  BY <1>3, <1>4, <1>5 DEF f, q

\* A sale's gains and losses are all of what its uses gain and lose.
LEMMA SaleSplits ==
    ASSUME NEW s, IsASale(s), NEW facts, IsFacts(facts)
    PROVE  /\ \A kind \in Kinds : Amount(s, facts, kind) \in Int
           /\ \A kind \in Buckets : Amount(s, facts, kind) \in Nat
           /\ -Amount(s, facts, "loss") \in Nat
           /\ Amount(s, facts, "other") + Amount(s, facts, "discountable")
                + Amount(s, facts, "from_july_2027") + Amount(s, facts, "loss")
                = GainOfSale(s, facts)
<1> DEFINE q == s.of.uses
           D == DOMAIN s.of.uses
           f(kind) == [k \in DOMAIN s.of.uses |-> UseAmount(s.of.uses[k], s, facts, kind)]
           A(kind) == Amount(s, facts, kind)
<1>1. q \in Seq(UseType)
  BY DEF IsASale, DisposalType
<1>2. D = 1 .. Len(q) /\ Len(q) \in Nat /\ \A k \in D : q[k] \in UseType
  BY <1>1, Elements
<1>3. IsFiniteSet(D)
  BY <1>2, FS_Interval
<1>4. \A kind \in Kinds : Numbers(f(kind), D) /\ A(kind) = SumFunctionOnSet(f(kind), D) /\ A(kind) \in Int
  BY AmountIs
<1>5. ASSUME NEW kind \in Buckets PROVE A(kind) \in Nat
  <2> DEFINE h == f(kind)
  <2>1. \A k \in D : h[k] \in Nat
    BY <1>2, UseAddsUp
  <2>2. A(kind) = SumFunctionOnSet(h, D)
    BY <1>4 DEF Kinds
  <2> HIDE DEF h, D, A
  <2> QED  BY <1>3, <2>1, <2>2, SumNat
<1>6. -A("loss") \in Nat
  <2> DEFINE h == f("loss")
             m == [k \in D |-> -h[k]]
             z == [k \in D |-> 0]
  <2>1. \A k \in D : h[k] \in Int /\ -h[k] \in Nat
    BY <1>2, UseAddsUp DEF Kinds
  <2>2. A("loss") = SumFunctionOnSet(h, D) /\ A("loss") \in Int
    BY <1>4 DEF Kinds
  <2> HIDE DEF h, D, A
  <2>3. \A k \in D : m[k] \in Nat /\ z[k] \in Nat /\ z[k] = h[k] + m[k] /\ z[k] = 0
    BY <2>1
  <2>4. Numbers(h, D) /\ Numbers(m, D) /\ Adds(h, m, z, D)
    BY <2>1, <2>3 DEF Numbers, Adds
  <2> HIDE DEF m, z
  <2>5. SumFunctionOnSet(z, D) = SumFunctionOnSet(h, D) + SumFunctionOnSet(m, D)
    BY <1>3, <2>4, SumPlus
  <2>6. SumFunctionOnSet(m, D) \in Nat
    BY <1>3, <2>3, SumNat
  <2>7. SumFunctionOnSet(z, D) = 0
    BY <1>3, <2>3, SumZero
  <2> QED  BY <2>2, <2>5, <2>6, <2>7
<1>7. A("other") + A("discountable") + A("from_july_2027") + A("loss") = GainOfSale(s, facts)
  <2> DEFINE a == f("other")
             b == f("discountable")
             c == f("from_july_2027")
             d == f("loss")
             ab == [k \in D |-> a[k] + b[k]]
             abc == [k \in D |-> ab[k] + c[k]]
             g == [k \in DOMAIN s.of.uses |-> GainOf(s.of.uses[k], s, facts)]
  <2>1. GainOfSale(s, facts) = SumFunctionOnSet(g, D)
    <3>1. \A k \in D : g[k] \in Int
      BY <1>2, AfterInt
    <3>2. GainOfSale(s, facts) = SumFunction(g) /\ DOMAIN g = D
      BY DEF GainOfSale, SumOf
    <3> HIDE DEF g
    <3>3. DOMAIN g = DOMAIN q /\ Numbers(g, DOMAIN q)
      BY <3>1, <3>2 DEF Numbers
    <3> HIDE DEF q
    <3>4. SumFunction(g) = SumFunctionOnSet(g, DOMAIN q)
      <4>1. DOMAIN q = 1 .. Len(q)
        BY <1>2 DEF q
      <4> QED  BY <1>2, <3>3, <4>1, SeqSum
    <3> QED  BY <3>2, <3>3, <3>4
  <2>2. /\ "other" \in Kinds /\ "discountable" \in Kinds
        /\ "from_july_2027" \in Kinds /\ "loss" \in Kinds
    BY DEF Kinds, Buckets
  <2>3. \A k \in D : g[k] = a[k] + b[k] + c[k] + d[k]
    BY <1>2, UseAddsUp
  <2>4. /\ A("other") = SumFunctionOnSet(a, D) /\ A("discountable") = SumFunctionOnSet(b, D)
        /\ A("from_july_2027") = SumFunctionOnSet(c, D) /\ A("loss") = SumFunctionOnSet(d, D)
        /\ Numbers(a, D) /\ Numbers(b, D) /\ Numbers(c, D) /\ Numbers(d, D)
    BY <1>4, <2>2
  <2> HIDE DEF a, b, c, d, g, A, D
  <2>5. \A k \in D : ab[k] = a[k] + b[k] /\ abc[k] = ab[k] + c[k]
    OBVIOUS
  <2> HIDE DEF ab, abc
  <2>6. Numbers(ab, D) /\ Numbers(abc, D)
    BY <2>4, <2>5 DEF Numbers
  <2>7. Adds(a, b, ab, D) /\ Adds(ab, c, abc, D) /\ Adds(abc, d, g, D)
    BY <2>3, <2>5 DEF Adds
  <2>8. SumFunctionOnSet(ab, D) = SumFunctionOnSet(a, D) + SumFunctionOnSet(b, D)
    BY <1>3, <2>4, <2>7, SumPlus
  <2>9. SumFunctionOnSet(abc, D) = SumFunctionOnSet(ab, D) + SumFunctionOnSet(c, D)
    BY <1>3, <2>4, <2>6, <2>7, SumPlus
  <2>10. SumFunctionOnSet(g, D) = SumFunctionOnSet(abc, D) + SumFunctionOnSet(d, D)
    BY <1>3, <2>4, <2>6, <2>7, SumPlus
  <2> QED  BY <2>1, <2>4, <2>8, <2>9, <2>10
<1> HIDE DEF A
<1>8. \A kind \in Kinds : A(kind) \in Int
  BY <1>4
<1> QED  BY <1>5, <1>6, <1>7, <1>8 DEF A

-----------------------------------------------------------------------------
(***************************************************************************)
(* A year's gains and losses, and the year worked out of them.             *)
(***************************************************************************)
AreSales(sold) == IsFiniteSet(sold) /\ \A s \in sold : IsASale(s)

LEMMA AmountsAre ==
    ASSUME NEW sold, AreSales(sold), NEW facts, IsFacts(facts), NEW kind \in Kinds
    PROVE  LET known == {s \in sold : Known(s, facts)}
               f == [s \in known |-> Amount(s, facts, kind)]
           IN  /\ IsFiniteSet(known) /\ Numbers(f, known)
               /\ Amounts(sold, facts, kind) = SumFunctionOnSet(f, known)
               /\ Amounts(sold, facts, kind) \in Int
               /\ kind \in Buckets => Amounts(sold, facts, kind) \in Nat
               /\ kind = "loss" => -Amounts(sold, facts, kind) \in Nat
<1> DEFINE known == {s \in sold : Known(s, facts)}
           f == [s \in known |-> Amount(s, facts, kind)]
           A == Amounts(sold, facts, kind)
<1>1. IsFiniteSet(known) /\ \A s \in known : IsASale(s)
  BY FS_Subset DEF AreSales
<1>2. A = SumFunction(f)
  BY DEF Amounts
<1> HIDE DEF known, A
<1>3. /\ \A s \in known : f[s] \in Int
      /\ kind \in Buckets => \A s \in known : f[s] \in Nat
      /\ kind = "loss" => \A s \in known : -f[s] \in Nat
  BY <1>1, SaleSplits
<1>4. DOMAIN f = known
  OBVIOUS
<1> HIDE DEF f
<1>5. Numbers(f, known) /\ Numbers(f, DOMAIN f) /\ IsFiniteSet(DOMAIN f)
  BY <1>1, <1>3, <1>4 DEF Numbers
<1>6. A \in Int /\ A = SumFunctionOnSet(f, known)
  BY <1>2, <1>4, <1>5, WholeSum
<1>7. kind \in Buckets => A \in Nat
  BY <1>1, <1>3, <1>6, SumNat
<1>8. kind = "loss" => -A \in Nat
  <2> SUFFICES ASSUME kind = "loss" PROVE -A \in Nat
    OBVIOUS
  <2> DEFINE m == [k \in known |-> -f[k]]
             z == [k \in known |-> 0]
  <2>1. \A k \in known : m[k] \in Nat /\ z[k] = f[k] + m[k] /\ z[k] = 0
    BY <1>3
  <2>2. Numbers(m, known) /\ Adds(f, m, z, known)
    BY <2>1 DEF Numbers, Adds
  <2> HIDE DEF m, z
  <2>3. SumFunctionOnSet(z, known) = SumFunctionOnSet(f, known) + SumFunctionOnSet(m, known)
    BY <1>1, <1>5, <2>2, SumPlus
  <2>4. SumFunctionOnSet(m, known) \in Nat
    BY <1>1, <2>1, SumNat
  <2>5. SumFunctionOnSet(z, known) = 0
    BY <1>1, <2>1, SumZero
  <2> QED  BY <1>6, <2>3, <2>4, <2>5
<1>9. /\ IsFiniteSet(known) /\ Numbers(f, known) /\ A = SumFunctionOnSet(f, known) /\ A \in Int
      /\ kind \in Buckets => A \in Nat
      /\ kind = "loss" => -A \in Nat
  BY <1>1, <1>5, <1>6, <1>7, <1>8
<1> QED  BY <1>9 DEF A, f, known

GainsOf(sold, facts, y) == [b \in Buckets |-> Amounts(YearOf(sold, y), facts, b)]
LossesOf(sold, facts, y) == -Amounts(YearOf(sold, y), facts, "loss")

Oversold(sold, y) == \E s \in YearOf(sold, y) : ~s.of.matched

LEMMA GainsAre ==
    ASSUME NEW sold, AreSales(sold), NEW facts, IsFacts(facts), NEW y
    PROVE  /\ GainsOf(sold, facts, y) \in [Buckets -> Nat]
           /\ LossesOf(sold, facts, y) \in Nat
<1> DEFINE mine == YearOf(sold, y)
<1>1. AreSales(mine)
  BY FS_Subset DEF AreSales, YearOf
<1> HIDE DEF mine
<1>2. \A b \in Buckets : Amounts(mine, facts, b) \in Nat
  BY <1>1, AmountsAre DEF Kinds
<1>3. -Amounts(mine, facts, "loss") \in Nat
  <2>1. "loss" \in Kinds
    BY DEF Kinds
  <2> QED  BY <1>1, <2>1, AmountsAre
<1> QED  BY <1>2, <1>3 DEF GainsOf, LossesOf, mine

\* A year is refused or netted, and carries a whole number on either way.
LEMMA YearIs ==
    ASSUME NEW sold, AreSales(sold), NEW facts, IsFacts(facts), NEW y, NEW carried \in Nat
    PROVE  LET r == YearCgt(sold, facts, y, carried)
               gains == GainsOf(sold, facts, y)
               losses == LossesOf(sold, facts, y)
           IN  /\ r.oversold = Oversold(sold, y)
               /\ r.carried_out \in Nat
               /\ ~Oversold(sold, y) => /\ r = Netted(gains, losses, carried)
                                        /\ r.gains = gains /\ r.losses = losses
                                        /\ r.carried_in = carried
<1> DEFINE r == YearCgt(sold, facts, y, carried)
           gains == GainsOf(sold, facts, y)
           losses == LossesOf(sold, facts, y)
           none == [b \in Buckets |-> 0]
           refused == [Netted(none, 0, 0) EXCEPT !.oversold = TRUE]
<1>1. gains \in [Buckets -> Nat] /\ losses \in Nat
  BY GainsAre
<1>2. r = IF Oversold(sold, y) THEN refused ELSE Netted(gains, losses, carried)
  BY DEF YearCgt, GainsOf, LossesOf, Oversold
<1> HIDE DEF r, gains, losses
<1>3. /\ Netted(gains, losses, carried).carried_out \in Nat
      /\ Netted(gains, losses, carried).oversold = FALSE
      /\ Netted(gains, losses, carried).gains = gains
      /\ Netted(gains, losses, carried).losses = losses
      /\ Netted(gains, losses, carried).carried_in = carried
  <2>1. Netted(gains, losses, carried).carried_out \in Nat
    BY <1>1, NettedBalances
  <2> QED  BY <2>1 DEF Netted
<1>4. refused.oversold = TRUE /\ refused.carried_out \in Nat
  <2> DEFINE zero == 0
             n == Netted(none, zero, zero)
  <2>1. none \in [Buckets -> Nat] /\ zero \in Nat
    OBVIOUS
  <2>2. n.carried_out \in Nat
    <3> HIDE DEF none, zero
    <3> QED  BY <2>1, NettedBalances
  <2>3. {"oversold", "carried_out"} \subseteq DOMAIN n
    BY DEF Netted
  <2>4. refused = [n EXCEPT !.oversold = TRUE]
    OBVIOUS
  <2> HIDE DEF n, refused
  <2> QED  BY <2>2, <2>3, <2>4
<1> HIDE DEF refused
<1>5. Oversold(sold, y) \in BOOLEAN
  BY DEF Oversold
<1>6. CASE Oversold(sold, y)
  BY <1>2, <1>4, <1>6 DEF r
<1>7. CASE ~Oversold(sold, y)
  BY <1>2, <1>3, <1>5, <1>7 DEF r, gains, losses
<1> QED  BY <1>6, <1>7

-----------------------------------------------------------------------------
(***************************************************************************)
(* The years in turn: `upTo` of FyCgt exists, and a year is worked out of  *)
(* the one before it.                                                      *)
(***************************************************************************)
Step(sold, facts, k, last) ==
    IF last.oversold THEN last ELSE YearCgt(sold, facts, k, last.carried_out)

Walk(w, sold, facts, first, y) ==
    w = [k \in first .. y |-> IF k = first THEN YearCgt(sold, facts, k, 0)
                              ELSE Step(sold, facts, k, w[k - 1])]

LEMMA FirstIs ==
    ASSUME NEW sold, AreSales(sold), NEW y \in Nat
    PROVE  /\ First(sold, y) \in Nat /\ First(sold, y) <= y
           /\ \A s \in sold : IsSale(s) /\ s.year <= y => First(sold, y) <= s.year
           /\ First(sold, y) < y => y - 1 \in Nat /\ First(sold, y - 1) = First(sold, y)
           /\ \A k \in First(sold, y) .. y : First(sold, k) = First(sold, y)
           /\ First(sold, y) = y \/ \E s \in sold : IsSale(s) /\ s.year = First(sold, y)
<1> DEFINE sells == {s.year : s \in {t \in sold : IsSale(t)}}
           least == CHOOSE first \in sells : \A other \in sells : first <= other
<1>1. sells \in SUBSET Nat
  BY DEF AreSales, IsASale
<1>2. sells # {} => least \in sells /\ \A other \in sells : least <= other
  BY <1>1, LeastNat
<1>3. \A z : First(sold, z) = IF sells = {} THEN z ELSE Lesser(z, least)
  BY DEF First
<1>4. \A s \in sold : IsSale(s) => s.year \in sells
  OBVIOUS
<1>4a. \A year \in sells : \E s \in sold : IsSale(s) /\ s.year = year
  OBVIOUS
<1> HIDE DEF sells, least
<1>5. CASE sells = {}
  BY <1>3, <1>4, <1>5
<1>6. CASE sells # {}
  <2>1. least \in Nat /\ \A z : First(sold, z) = IF z <= least THEN z ELSE least
    BY <1>1, <1>2, <1>3, <1>6 DEF Lesser
  <2>2. \A s \in sold : IsSale(s) => s.year \in Nat /\ least <= s.year
    BY <1>1, <1>2, <1>4, <1>6
  <2>3. First(sold, y) < y => y - 1 \in Nat /\ First(sold, y - 1) = First(sold, y)
    BY <2>1
  <2>4. \A s \in sold : IsSale(s) /\ s.year <= y => First(sold, y) <= s.year
    BY <2>1, <2>2
  <2>5. \A k \in First(sold, y) .. y : First(sold, k) = First(sold, y)
    BY <2>1
  <2>6. First(sold, y) = y \/ \E s \in sold : IsSale(s) /\ s.year = First(sold, y)
    BY <1>2, <1>4a, <1>6, <2>1
  <2> QED  BY <2>1, <2>3, <2>4, <2>5, <2>6
<1> QED  BY <1>5, <1>6

LEMMA WalkExists ==
    ASSUME NEW sold, NEW facts, NEW first \in Nat, NEW y \in Nat, first <= y
    PROVE  \E w : Walk(w, sold, facts, first, y)
<1> DEFINE G == {n \in first .. y : \E w : Walk(w, sold, facts, first, n)}
<1>1. first \in G
  <2> DEFINE w == [k \in first .. first |-> YearCgt(sold, facts, k, 0)]
  <2>1. \A k \in first .. first : k = first
    OBVIOUS
  <2>2. Walk(w, sold, facts, first, first)
    BY <2>1 DEF Walk
  <2> HIDE DEF w
  <2> QED  BY <2>2
<1>2. ASSUME NEW n \in first .. y - 1, n \in G PROVE n + 1 \in G
  <2>1. PICK w : Walk(w, sold, facts, first, n)
    BY <1>2
  <2> DEFINE v == [k \in first .. n + 1 |-> IF k = first THEN YearCgt(sold, facts, k, 0)
                                           ELSE Step(sold, facts, k, w[k - 1])]
  <2>2. ASSUME NEW k \in first .. n + 1, k # first PROVE v[k - 1] = w[k - 1]
    <3> DEFINE j == k - 1
    <3>1. j \in first .. n /\ j \in first .. n + 1
      BY <2>2
    <3> HIDE DEF j
    <3>2. v[j] = IF j = first THEN YearCgt(sold, facts, j, 0) ELSE Step(sold, facts, j, w[j - 1])
      BY <3>1
    <3>3. w[j] = IF j = first THEN YearCgt(sold, facts, j, 0) ELSE Step(sold, facts, j, w[j - 1])
      BY <2>1, <3>1 DEF Walk
    <3> QED  BY <3>2, <3>3 DEF j
  <2>3. v = [k \in first .. n + 1 |-> IF k = first THEN YearCgt(sold, facts, k, 0)
                                      ELSE Step(sold, facts, k, v[k - 1])]
    BY <2>2
  <2>4. Walk(v, sold, facts, first, n + 1)
    <3> HIDE DEF v
    <3> QED  BY <2>3 DEF Walk
  <2>5. n + 1 \in first .. y
    OBVIOUS
  <2> HIDE DEF v
  <2> QED  BY <2>4, <2>5
<1> HIDE DEF G
<1>3. \A k \in first .. y : k \in G
  <2>1. \A k \in first .. y - 1 : k \in G => k + 1 \in G
    BY <1>2
  <2> QED  BY <1>1, <2>1, Climb
<1>4. y \in G
  BY <1>3
<1> QED  BY <1>4 DEF G

LEMMA WalksSame ==
    ASSUME NEW sold, NEW facts, NEW first \in Nat, NEW y \in Nat, NEW z \in Nat, NEW v, NEW w,
           first <= z, z <= y,
           Walk(v, sold, facts, first, y), Walk(w, sold, facts, first, z)
    PROVE  v[z] = w[z]
<1> DEFINE G == {n \in first .. z : v[n] = w[n]}
<1>1. \A k \in first .. z : v[k] = IF k = first THEN YearCgt(sold, facts, k, 0)
                                   ELSE Step(sold, facts, k, v[k - 1])
  BY DEF Walk
<1>2. \A k \in first .. z : w[k] = IF k = first THEN YearCgt(sold, facts, k, 0)
                                   ELSE Step(sold, facts, k, w[k - 1])
  BY DEF Walk
<1>3. first \in G
  BY <1>1, <1>2
<1>4. ASSUME NEW n \in first .. z - 1, n \in G PROVE n + 1 \in G
  <2>1. n + 1 \in first .. z /\ n + 1 # first /\ (n + 1) - 1 = n
    OBVIOUS
  <2>2. v[n + 1] = Step(sold, facts, n + 1, v[n]) /\ w[n + 1] = Step(sold, facts, n + 1, w[n])
    BY <1>1, <1>2, <2>1
  <2> QED  BY <1>4, <2>1, <2>2
<1> HIDE DEF G
<1>5. \A k \in first .. z : k \in G
  BY <1>3, <1>4, Climb
<1>6. z \in G
  BY <1>5
<1> QED  BY <1>6 DEF G

LEMMA FyWalk ==
    ASSUME NEW sold, AreSales(sold), NEW facts, NEW y \in Nat
    PROVE  \E w : Walk(w, sold, facts, First(sold, y), y) /\ FyCgt(sold, facts, y) = w[y]
<1> DEFINE first == First(sold, y)
           w == CHOOSE w : Walk(w, sold, facts, first, y)
<1>1. FyCgt(sold, facts, y) = w[y]
  BY DEF FyCgt, Walk, Step
<1>2. first \in Nat /\ first <= y
  BY FirstIs
<1> HIDE DEF first
<1>3. Walk(w, sold, facts, first, y)
  BY <1>2, WalkExists
<1> QED  BY <1>1, <1>3 DEF first

\* A year is the first one, or is worked out of the year before it.
LEMMA FyIs ==
    ASSUME NEW sold, AreSales(sold), NEW facts, NEW y \in Nat
    PROVE  FyCgt(sold, facts, y) = IF First(sold, y) = y THEN YearCgt(sold, facts, y, 0)
                                   ELSE Step(sold, facts, y, FyCgt(sold, facts, y - 1))
<1> DEFINE first == First(sold, y)
<1>1. first \in Nat /\ first <= y /\ (first < y => y - 1 \in Nat /\ First(sold, y - 1) = first)
  BY FirstIs
<1>2. PICK v : Walk(v, sold, facts, first, y) /\ FyCgt(sold, facts, y) = v[y]
  BY FyWalk
<1>3. v[y] = IF y = first THEN YearCgt(sold, facts, y, 0) ELSE Step(sold, facts, y, v[y - 1])
  <2> HIDE DEF first
  <2>1. y \in first .. y
    BY <1>1
  <2> QED  BY <1>2, <2>1 DEF Walk
<1>4. CASE first = y
  BY <1>2, <1>3, <1>4
<1>5. CASE first # y
  <2> DEFINE z == y - 1
  <2>1. z \in Nat /\ First(sold, z) = first /\ first <= z /\ z <= y
    BY <1>1, <1>5
  <2> HIDE DEF z
  <2>2. PICK w : Walk(w, sold, facts, First(sold, z), z) /\ FyCgt(sold, facts, z) = w[z]
    BY <2>1, FyWalk
  <2>3. Walk(w, sold, facts, first, z)
    BY <2>1, <2>2
  <2> HIDE DEF first
  <2>4. v[z] = w[z]
    BY <1>1, <1>2, <2>1, <2>3, WalksSame
  <2>5. v[y] = Step(sold, facts, y, v[z])
    BY <1>3, <1>5 DEF z
  <2> QED  BY <1>2, <1>5, <2>2, <2>4, <2>5 DEF z, first
<1> QED  BY <1>4, <1>5

LEMMA NettedInts ==
    ASSUME NEW gains \in [Buckets -> Nat], NEW losses \in Nat, NEW carried \in Nat
    PROVE  LET r == Netted(gains, losses, carried)
           IN  r.net_capital_gain \in Int /\ r.discount \in Int /\ AllOf(gains) \in Nat
<1> DEFINE own == Applied(losses, gains)
           left == Less(gains, own)
           earlier == Applied(carried, left)
           last == Less(left, earlier)
           r == Netted(gains, losses, carried)
<1>1. left \in [Buckets -> Nat]
  BY LessFits
<1>2. /\ r.discount = last["discountable"] \div 2
      /\ r.net_capital_gain = IF losses - AllOf(own) > 0 THEN 0 ELSE AllOf(last) - r.discount
  BY DEF Netted
<1> HIDE DEF left, r
<1>3. last \in [Buckets -> Nat]
  BY <1>1, LessFits
<1> HIDE DEF last, own
<1>4. last["discountable"] \in Nat /\ AllOf(last) \in Nat /\ AllOf(gains) \in Nat
  BY <1>3 DEF AllOf, Buckets
<1>5. r.discount \in Int
  BY <1>2, <1>4
<1> QED  BY <1>2, <1>4, <1>5 DEF r

\* A year that is not refused is netted, with what the year before carried on.
Follows(sold, facts, y) ==
    LET r == FyCgt(sold, facts, y)
        before == FyCgt(sold, facts, y - 1)
        gains == GainsOf(sold, facts, y)
        losses == LossesOf(sold, facts, y)
    IN  /\ r.oversold \in BOOLEAN /\ r.carried_out \in Nat
        /\ ~r.oversold =>
              /\ r.carried_in \in Nat /\ r = Netted(gains, losses, r.carried_in)
              /\ r.gains = gains /\ r.losses = losses
              /\ First(sold, y) = y => r.carried_in = 0
              /\ First(sold, y) # y => ~before.oversold /\ r.carried_in = before.carried_out

LEMMA FyFollows ==
    ASSUME NEW sold, AreSales(sold), NEW facts, IsFacts(facts), NEW y \in Nat
    PROVE  Follows(sold, facts, y)
<1> DEFINE G == {k \in 0 .. y : Follows(sold, facts, k)}
<1>1. ASSUME NEW k \in 0 .. y, First(sold, k) # k => k - 1 \in G
      PROVE  k \in G
  <2> DEFINE r == FyCgt(sold, facts, k)
             before == FyCgt(sold, facts, k - 1)
  <2>1. r = IF First(sold, k) = k THEN YearCgt(sold, facts, k, 0) ELSE Step(sold, facts, k, before)
    BY FyIs
  <2>2. CASE First(sold, k) = k
    <3> DEFINE zero == 0
    <3>1. r = YearCgt(sold, facts, k, zero) /\ zero \in Nat
      BY <2>1, <2>2
    <3> HIDE DEF zero, r
    <3>2. /\ r.oversold = Oversold(sold, k) /\ r.carried_out \in Nat
          /\ ~Oversold(sold, k) =>
                /\ r = Netted(GainsOf(sold, facts, k), LossesOf(sold, facts, k), zero)
                /\ r.gains = GainsOf(sold, facts, k) /\ r.losses = LossesOf(sold, facts, k)
                /\ r.carried_in = zero
      BY <3>1, YearIs
    <3>3. Oversold(sold, k) \in BOOLEAN
      BY DEF Oversold
    <3> QED  BY <2>2, <3>1, <3>2, <3>3 DEF Follows, r, zero
  <2>3. CASE First(sold, k) # k
    <3>1. before.oversold \in BOOLEAN /\ before.carried_out \in Nat
      BY <1>1, <2>3 DEF Follows
    <3> DEFINE carried == before.carried_out
    <3>2. CASE before.oversold
      <4>1. r = before
        BY <2>1, <2>3, <3>2 DEF Step
      <4> HIDE DEF r, before
      <4>2. r.oversold = TRUE /\ r.carried_out \in Nat
        BY <3>1, <3>2, <4>1
      <4> QED  BY <4>2 DEF Follows, r
    <3>3. CASE ~before.oversold
      <4>1. r = YearCgt(sold, facts, k, carried) /\ carried \in Nat
        BY <2>1, <2>3, <3>1, <3>3 DEF Step
      <4> HIDE DEF r, carried
      <4>2. /\ r.oversold = Oversold(sold, k) /\ r.carried_out \in Nat
            /\ ~Oversold(sold, k) =>
                  /\ r = Netted(GainsOf(sold, facts, k), LossesOf(sold, facts, k), carried)
                  /\ r.gains = GainsOf(sold, facts, k) /\ r.losses = LossesOf(sold, facts, k)
                  /\ r.carried_in = carried
        BY <4>1, YearIs
      <4>3. Oversold(sold, k) \in BOOLEAN
        BY DEF Oversold
      <4> HIDE DEF before
      <4> QED  BY <2>3, <3>3, <4>1, <4>2, <4>3 DEF Follows, r, before, carried
    <3> QED  BY <3>1, <3>2, <3>3
  <2> QED  BY <2>2, <2>3
<1> HIDE DEF G
<1>2. 0 \in G
  <2> DEFINE zero == 0
  <2>1. zero \in Nat /\ zero \in 0 .. y
    OBVIOUS
  <2> HIDE DEF zero
  <2>2. First(sold, zero) \in Nat /\ First(sold, zero) <= zero
    BY <2>1, FirstIs
  <2>3. First(sold, zero) = zero
    BY <2>2 DEF zero
  <2>4. zero \in G
    BY <1>1, <2>1, <2>3
  <2> QED  BY <2>4 DEF zero
<1>3. ASSUME NEW k \in 0 .. y - 1, k \in G PROVE k + 1 \in G
  <2>1. k + 1 \in 0 .. y /\ (k + 1) - 1 = k
    OBVIOUS
  <2> QED  BY <1>1, <1>3, <2>1
<1>4. \A k \in 0 .. y : k \in G
  <2>1. \A k \in 0 .. y - 1 : k \in G => k + 1 \in G
    BY <1>3
  <2> QED  BY <1>2, <2>1, Climb
<1>5. y \in G
  BY <1>4
<1> QED  BY <1>5 DEF G

-----------------------------------------------------------------------------
(***************************************************************************)
(* Every loss meets a gain once: the years add up because each does.       *)
(***************************************************************************)
Brought(sold, facts) ==
    [k \in Nat |-> AllOf(FyCgt(sold, facts, k).gains) - FyCgt(sold, facts, k).losses]

Met(sold, facts) ==
    [k \in Nat |-> FyCgt(sold, facts, k).net_capital_gain + FyCgt(sold, facts, k).discount]

LEMMA YearBalances ==
    ASSUME NEW sold, AreSales(sold), NEW facts, IsFacts(facts), NEW y \in Nat,
           ~FyCgt(sold, facts, y).oversold
    PROVE  LET r == FyCgt(sold, facts, y)
           IN  /\ r.carried_in \in Nat /\ r.carried_out \in Nat
               /\ Brought(sold, facts)[y] \in Int /\ Met(sold, facts)[y] \in Int
               /\ Brought(sold, facts)[y]
                      = Met(sold, facts)[y] - (r.carried_out - r.carried_in)
               /\ First(sold, y) = y => r.carried_in = 0
               /\ First(sold, y) # y => /\ ~FyCgt(sold, facts, y - 1).oversold
                                        /\ r.carried_in = FyCgt(sold, facts, y - 1).carried_out
<1> DEFINE r == FyCgt(sold, facts, y)
           before == FyCgt(sold, facts, y - 1)
           gains == GainsOf(sold, facts, y)
           losses == LossesOf(sold, facts, y)
           carried == r.carried_in
           g == r.net_capital_gain
           d == r.discount
           out == r.carried_out
           all == AllOf(gains)
           b == Brought(sold, facts)[y]
           m == Met(sold, facts)[y]
<1>1. /\ carried \in Nat /\ r = Netted(gains, losses, carried)
      /\ r.gains = gains /\ r.losses = losses
      /\ First(sold, y) = y => carried = 0
      /\ First(sold, y) # y => ~before.oversold /\ carried = before.carried_out
  BY FyFollows DEF Follows
<1>2. gains \in [Buckets -> Nat] /\ losses \in Nat
  BY GainsAre
<1>3. b = AllOf(r.gains) - r.losses /\ m = g + d
  BY DEF Brought, Met
<1>4. b = all - losses
  BY <1>1, <1>3
<1> DEFINE n == Netted(gains, losses, carried)
<1>5. /\ all - losses = n.net_capital_gain + n.discount - (n.carried_out - n.carried_in)
      /\ n.carried_out \in Nat
  <2> HIDE DEF gains, losses, carried
  <2> QED  BY <1>1, <1>2, NettedBalances
<1>6. n.net_capital_gain \in Int /\ n.discount \in Int /\ all \in Nat
  <2> HIDE DEF gains, losses, carried
  <2> QED  BY <1>1, <1>2, NettedInts
<1>7. r = n
  BY <1>1
<1>8. /\ g \in Int /\ d \in Int /\ all \in Nat /\ out \in Nat
      /\ all - losses = g + d - (out - carried)
  <2> HIDE DEF n, r, all, losses
  <2> QED  BY <1>5, <1>6, <1>7
<1> HIDE DEF r, before, gains, losses, carried, g, d, out, all, b, m, n
<1>9. b \in Int /\ m \in Int /\ b = m - (out - carried)
  BY <1>1, <1>2, <1>3, <1>4, <1>8
<1> QED  BY <1>1, <1>8, <1>9 DEF r, before, carried, out, b, m

LEMMA RunAdds ==
    ASSUME NEW sold, AreSales(sold), NEW facts, IsFacts(facts), NEW y \in Nat,
           ~FyCgt(sold, facts, y).oversold
    PROVE  LET years == First(sold, y) .. y
           IN  /\ SumFunctionOnSet(Brought(sold, facts), years)
                      = SumFunctionOnSet(Met(sold, facts), years) - FyCgt(sold, facts, y).carried_out
               /\ Numbers(Brought(sold, facts), years) /\ Numbers(Met(sold, facts), years)
<1> DEFINE first == First(sold, y)
           r(k) == FyCgt(sold, facts, k)
           b == Brought(sold, facts)
           m == Met(sold, facts)
           Good(k) == /\ SumFunctionOnSet(b, first .. k)
                             = SumFunctionOnSet(m, first .. k) - r(k).carried_out
                      /\ Numbers(b, first .. k) /\ Numbers(m, first .. k)
           G == {k \in first .. y : ~r(k).oversold => Good(k)}
<1>1. first \in Nat /\ first <= y /\ \A k \in first .. y : First(sold, k) = first
  BY FirstIs
<1>2. ASSUME NEW k \in first .. y, ~r(k).oversold
      PROVE  /\ r(k).carried_in \in Nat /\ r(k).carried_out \in Nat
             /\ b[k] \in Int /\ m[k] \in Int
             /\ b[k] = m[k] - (r(k).carried_out - r(k).carried_in)
             /\ k = first => r(k).carried_in = 0
             /\ k # first => ~r(k - 1).oversold /\ r(k).carried_in = r(k - 1).carried_out
  <2>1. k \in Nat /\ First(sold, k) = first
    BY <1>1
  <2> QED  BY <1>2, <2>1, YearBalances
<1> HIDE DEF r, b, m, first
<1>3. first \in G
  <2> SUFFICES ASSUME ~r(first).oversold PROVE Good(first)
    BY <1>1
  <2>1. /\ r(first).carried_out \in Nat /\ b[first] \in Int /\ m[first] \in Int
        /\ b[first] = m[first] - (r(first).carried_out - 0)
    <3>1. first \in first .. y
      BY <1>1
    <3> QED  BY <1>2, <3>1
  <2>2. first .. first = {first}
    BY <1>1
  <2>3. SumFunctionOnSet(b, {first}) = b[first] /\ SumFunctionOnSet(m, {first}) = m[first]
    BY <2>1, SumOfOne
  <2>4. Numbers(b, {first}) /\ Numbers(m, {first})
    BY <2>1 DEF Numbers
  <2> QED  BY <2>1, <2>2, <2>3, <2>4
<1>4. ASSUME NEW k \in first .. y - 1, k \in G PROVE k + 1 \in G
  <2>1. k + 1 \in first .. y /\ k + 1 # first /\ (k + 1) - 1 = k /\ k \in first .. y
    BY <1>1
  <2> DEFINE j == k + 1
  <2> SUFFICES ASSUME ~r(j).oversold PROVE Good(j)
    BY <2>1
  <2>2. /\ r(j).carried_in \in Nat /\ r(j).carried_out \in Nat
        /\ b[j] \in Int /\ m[j] \in Int
        /\ b[j] = m[j] - (r(j).carried_out - r(j).carried_in)
        /\ ~r(k).oversold /\ r(j).carried_in = r(k).carried_out
    BY <1>2, <2>1
  <2>3. Good(k)
    BY <1>4, <2>2
  <2> DEFINE Q == first .. k
  <2>4. first .. j = Q \union {j} /\ j \notin Q
    <3>1. k \in Int /\ first \in Int /\ first <= k /\ j = k + 1
      BY <1>1, <2>1
    <3> HIDE DEF j
    <3> QED  BY <3>1
  <2>4a. IsFiniteSet(Q)
    BY <1>1, <2>1, FS_Interval
  <2>5. Numbers(b, Q \union {j}) /\ Numbers(m, Q \union {j})
    BY <2>2, <2>3 DEF Numbers
  <2>6. SumFunctionOnSet(b, first .. j) = SumFunctionOnSet(b, Q) + b[j]
    <3> HIDE DEF Q, j
    <3>1. SumFunctionOnSet(b, Q \union {j}) = SumFunctionOnSet(b, Q) + b[j]
      BY <2>4, <2>4a, <2>5, SumAdd, Zenon
    <3> QED  BY <2>4, <3>1, Zenon
  <2>7. SumFunctionOnSet(m, first .. j) = SumFunctionOnSet(m, Q) + m[j]
    <3> HIDE DEF Q, j
    <3>1. SumFunctionOnSet(m, Q \union {j}) = SumFunctionOnSet(m, Q) + m[j]
      BY <2>4, <2>4a, <2>5, SumAdd, Zenon
    <3> QED  BY <2>4, <3>1, Zenon
  <2>8. SumFunctionOnSet(b, first .. k) \in Int /\ SumFunctionOnSet(m, first .. k) \in Int
    BY <2>3, <2>4a, SumInt
  <2> DEFINE x == SumFunctionOnSet(b, first .. k)
             z == SumFunctionOnSet(m, first .. k)
             u == r(k).carried_out
             v == r(j).carried_out
  <2>9. x \in Int /\ z \in Int /\ x = z - u /\ u \in Nat /\ v \in Nat /\ b[j] = m[j] - (v - u)
    BY <2>2, <2>3, <2>8
  <2> HIDE DEF x, z, u, v
  <2>10. x + b[j] = (z + m[j]) - v
    BY <2>2, <2>9
  <2>11. SumFunctionOnSet(b, first .. j) = SumFunctionOnSet(m, first .. j) - r(j).carried_out
    BY <2>6, <2>7, <2>10 DEF x, z, v
  <2> QED  BY <2>4, <2>5, <2>11
<1> HIDE DEF G
<1>5. \A k \in first .. y : k \in G
  <2>1. \A k \in first .. y - 1 : k \in G => k + 1 \in G
    BY <1>4
  <2> QED  BY <1>1, <1>3, <2>1, Climb
<1>6. Good(y)
  <2>1. y \in G /\ ~r(y).oversold
    BY <1>1, <1>5 DEF r
  <2> QED  BY <2>1 DEF G
<1> QED  BY <1>6 DEF first, r, b, m

-----------------------------------------------------------------------------
(***************************************************************************)
(* The invariant: the shape of every variable, and a sale that is recorded *)
(* is numbered from one, so that a simulated one is never among them.      *)
(***************************************************************************)
IInv == TypeOK /\ \A s \in sales : s.nth # 0

LEMMA FactsAre ==
    ASSUME TypeOK, NEW estimate \in BOOLEAN
    PROVE  IsFacts(Facts(estimate)) /\ AreSales(sales)
<1>1. Indexes \union {Unknown} \subseteq Nat
  BY YearsAssumption DEF Unknown
<1>2. IsFacts(Facts(estimate))
  BY <1>1 DEF IsFacts, Facts, TypeOK
<1>3. AreSales(sales)
  BY YearsAssumption, YearsAre DEF AreSales, IsASale, TypeOK
<1> QED  BY <1>2, <1>3

LEMMA InitIInv == Init => IInv
<1> SUFFICES ASSUME Init PROVE IInv
  OBVIOUS
<1>1. today \in Years /\ reference \in References
  BY YearsAre, YearsAssumption DEF Init
<1>2. IsFiniteSet(sales) /\ sales = {}
  BY FS_EmptySet DEF Init
<1>3. rates \subseteq Tickers /\ closes \subseteq Tickers
  BY YearsAssumption DEF Init, Tickers
<1>4. cpi \in [Years -> Indexes \union {Unknown}]
  BY DEF Init
<1> QED  BY <1>1, <1>2, <1>3, <1>4 DEF IInv, TypeOK

LEMMA NextIInv == IInv /\ [Next]_vars => IInv'
<1> SUFFICES ASSUME IInv, [Next]_vars PROVE IInv'
  OBVIOUS
<1> USE DEF IInv, TypeOK
<1>1. ASSUME NEW y \in Years, NEW d \in Disposals, Record(y, d) PROVE IInv'
  <2> DEFINE n == Cardinality({s \in sales : s.year = y /\ s.of = d})
             new == [year |-> y, of |-> d, nth |-> 1 + n]
  <2>1. sales' = sales \union {new}
    BY <1>1 DEF Record
  <2>2. n \in Nat
    <3> DEFINE same == {s \in sales : s.year = y /\ s.of = d}
    <3>1. IsFiniteSet(same)
      BY FS_Subset
    <3>2. Cardinality(same) \in Nat
      <4> HIDE DEF same
      <4> QED  BY <3>1, FS_CardinalityType
    <3> QED  BY <3>2
  <2>3. new.year \in Years /\ new.of \in Disposals /\ new.nth \in Nat /\ new.nth # 0
    <3> HIDE DEF n
    <3> QED  BY <2>2
  <2> HIDE DEF new
  <2>4. IsFiniteSet(sales')
    BY <2>1, FS_AddElement
  <2>5. \A s \in sales' : s.year \in Years /\ s.of \in Disposals /\ s.nth \in Nat /\ s.nth # 0
    BY <2>1, <2>3
  <2>6. UNCHANGED <<today, rates, closes, cpi, reference>>
    BY <1>1 DEF Record
  <2> QED  BY <2>4, <2>5, <2>6
<1>2. ASSUME NEW s \in sales, Delete(s) PROVE IInv'
  <2>1. sales' \subseteq sales /\ UNCHANGED <<today, rates, closes, cpi, reference>>
    BY <1>2 DEF Delete
  <2>2. IsFiniteSet(sales')
    BY <2>1, FS_Subset
  <2> QED  BY <2>1, <2>2
<1>3. ASSUME NEW ticker \in Tickers, RateArrives(ticker) PROVE IInv'
  BY <1>3 DEF RateArrives
<1>4. ASSUME NEW ticker \in Tickers, CloseArrives(ticker) PROVE IInv'
  BY <1>4 DEF CloseArrives
<1>5. ASSUME NEW last \in NewRules .. today - 1, NEW period \in References,
             NEW published \in [NewRules .. last -> Indexes], Refresh(last, published, period)
      PROVE  IInv'
  <2> DEFINE kept == IF period = reference THEN cpi ELSE [y \in Years |-> Unknown]
  <2>1. cpi' = [y \in Years |-> IF y \in NewRules .. last /\ kept[y] = Unknown
                                THEN published[y] ELSE kept[y]]
    BY <1>5 DEF Refresh
  <2>2. kept \in [Years -> Indexes \union {Unknown}]
    OBVIOUS
  <2> HIDE DEF kept
  <2>3. cpi' \in [Years -> Indexes \union {Unknown}]
    BY <2>1, <2>2
  <2>4. reference' \in References /\ UNCHANGED <<today, sales, rates, closes>>
    BY <1>5 DEF Refresh
  <2> QED  BY <2>3, <2>4
<1>6. CASE NewYear
  <2>1. today' = today + 1 /\ today < LastYear /\ UNCHANGED <<sales, rates, closes, cpi, reference>>
    BY <1>6 DEF NewYear
  <2>2. today' \in Years
    BY <2>1, YearsAre
  <2> QED  BY <2>1, <2>2
<1>7. ASSUME NEW d \in Disposals, NEW e \in Disposals, NearerArrives(d, e) PROVE IInv'
  <2> DEFINE Renewed(s) == [s EXCEPT !.of = IF @ = d THEN e ELSE @]
  <2>1. sales' = {Renewed(s) : s \in sales} /\ UNCHANGED <<today, rates, closes, cpi, reference>>
    BY <1>7 DEF NearerArrives
  <2> DEFINE f == [s \in sales |-> Renewed(s)]
  <2>2. IsFiniteSet(sales')
    <3>1. f \in Surjection(sales, sales')
      BY <2>1 DEF Surjection
    <3> HIDE DEF f
    <3> QED  BY <3>1, FS_Surjection DEF IInv, TypeOK
  <2>3. ASSUME NEW s \in sales
        PROVE  /\ Renewed(s).year \in Years /\ Renewed(s).of \in Disposals
               /\ Renewed(s).nth \in Nat /\ Renewed(s).nth # 0
    OBVIOUS
  <2> QED  BY <2>1, <2>2, <2>3
<1>8. CASE UNCHANGED vars
  BY <1>8 DEF vars
<1> QED  BY <1>1, <1>2, <1>3, <1>4, <1>5, <1>6, <1>7, <1>8 DEF Next

\* The invariant holds throughout.
THEOREM Invariant == Spec => []IInv
  BY InitIInv, NextIInv, PTL DEF Spec

\* Every variable keeps its shape: a recorded disposal is one of those there may
\* be, of a year that can be told, and an index number one that was published.
THEOREM TypeCorrect == Spec => []TypeOK
<1>1. IInv => TypeOK
  BY DEF IInv
<1> QED  BY <1>1, Invariant, PTL

\* Over all the years worked out of whatever sales are recorded, every gain is
\* taxed, discounted or met by a loss, and every loss meets a gain once or is
\* still carried (`fy_cgt` carrying `carried_out` from year to year).
THEOREM NoLossTwice == Spec => []LossesOnce
<1>1. IInv => LossesOnce
  <2> SUFFICES ASSUME IInv PROVE LossesOnce
    OBVIOUS
  <2> DEFINE facts == Facts(FALSE)
             told == [y \in Years |-> Told(y)]
  <2>1. IsFacts(facts) /\ AreSales(sales)
    BY FactsAre DEF IInv
  <2>2. \A y \in Years : told[y] = FyCgt(sales, facts, y)
    BY DEF Told
  <2> SUFFICES ASSUME NEW y \in Years, ~told[y].oversold
               PROVE  LET years == First(sales, y) .. y
                      IN  SumOver(LAMBDA k : AllOf(told[k].gains) - told[k].losses, years)
                              = SumOver(LAMBDA k : told[k].net_capital_gain + told[k].discount,
                                        years)
                                - told[y].carried_out
    BY DEF LossesOnce, MeetsOnce
  <2> DEFINE years == First(sales, y) .. y
             b == Brought(sales, facts)
             m == Met(sales, facts)
             bs == [k \in years |-> AllOf(told[k].gains) - told[k].losses]
             ms == [k \in years |-> told[k].net_capital_gain + told[k].discount]
  <2>3. years \subseteq Years /\ IsFiniteSet(years) /\ y \in Nat
    <3>1. y \in Nat /\ FirstYear <= y /\ y <= LastYear
      BY YearsAre
    <3>2. First(sales, y) \in Nat
          /\ (First(sales, y) = y \/ \E s \in sales : s.year = First(sales, y))
      BY <2>1, <3>1, FirstIs
    <3>3. First(sales, y) \in Nat /\ FirstYear <= First(sales, y)
      BY <3>1, <3>2, YearsAre DEF IInv, TypeOK
    <3> DEFINE first == First(sales, y)
    <3>4. IsFiniteSet(first .. y)
      <4> HIDE DEF first
      <4> QED  BY <3>1, <3>3, FS_Interval DEF first
    <3>5. \A k \in years : k \in Years
      BY <3>1, <3>3, YearsAre
    <3> QED  BY <3>1, <3>4, <3>5
  <2>4. /\ SumFunctionOnSet(b, years)
               = SumFunctionOnSet(m, years) - FyCgt(sales, facts, y).carried_out
        /\ Numbers(b, years) /\ Numbers(m, years)
    BY <2>1, <2>2, <2>3, RunAdds
  <2>5. Same(bs, b, years) /\ Same(ms, m, years)
    <3>1. \A k \in years : k \in Nat /\ told[k] = FyCgt(sales, facts, k)
      BY <2>2, <2>3, YearsAre
    <3> HIDE DEF told, facts, years
    <3> QED  BY <3>1 DEF Same, Brought, Met
  <2>6. /\ SumOver(LAMBDA k : AllOf(told[k].gains) - told[k].losses, years) = SumFunction(bs)
        /\ SumOver(LAMBDA k : told[k].net_capital_gain + told[k].discount, years) = SumFunction(ms)
    BY DEF SumOver
  <2>7. DOMAIN bs = years /\ DOMAIN ms = years
    OBVIOUS
  <2>8. told[y].carried_out = FyCgt(sales, facts, y).carried_out
    BY <2>2
  <2> HIDE DEF bs, ms, b, m, years, told, facts
  <2>9. SumFunctionOnSet(bs, years) = SumFunctionOnSet(b, years)
        /\ SumFunctionOnSet(ms, years) = SumFunctionOnSet(m, years)
    BY <2>3, <2>5, SumSame
  <2>10. SumFunction(bs) = SumFunctionOnSet(bs, years) /\ SumFunction(ms) = SumFunctionOnSet(ms, years)
    BY <2>7 DEF SumFunction
  <2>11. SumFunction(bs) = SumFunction(ms) - told[y].carried_out
    BY <2>4, <2>8, <2>9, <2>10
  <2> QED  BY <2>6, <2>11 DEF years
<1> QED  BY <1>1, Invariant, PTL

-----------------------------------------------------------------------------
(***************************************************************************)
(* Before 1 July 2027 a sale has no gain of the later kind.                *)
(***************************************************************************)
LEMMA OldSale ==
    ASSUME NEW s, IsASale(s), s.year < NewRules, NEW facts, IsFacts(facts)
    PROVE  Amount(s, facts, "from_july_2027") = 0
<1> DEFINE kind == "from_july_2027"
           D == DOMAIN s.of.uses
           f == [k \in DOMAIN s.of.uses |-> UseAmount(s.of.uses[k], s, facts, kind)]
<1>1. kind \in Kinds
  BY DEF Kinds, Buckets
<1>2. Amount(s, facts, kind) = SumFunctionOnSet(f, D)
  BY <1>1, AmountIs
<1>3. s.of.uses \in Seq(UseType)
  BY DEF IsASale, DisposalType
<1>4. D = 1 .. Len(s.of.uses) /\ Len(s.of.uses) \in Nat /\ \A k \in D : s.of.uses[k] \in UseType
  BY <1>3, Elements
<1>5. IsFiniteSet(D)
  BY <1>4, FS_Interval
<1>6. ~New(s)
  BY YearsAre DEF New, IsASale
<1>7. ASSUME NEW u \in UseType PROVE UseAmount(u, s, facts, kind) = 0
  <2> DEFINE old == IF Discountable(u, s) THEN "discountable" ELSE "other"
             x == [bucket |-> old, amount |-> GainOf(u, s, facts)]
             q == Parts(u, s, facts)
  <2>1. q = <<x>>
    BY <1>6 DEF Parts
  <2>2. UseAmount(u, s, facts, kind) = IF Len(q) = 2 THEN Count(q[1], kind) + Count(q[2], kind)
                                       ELSE Count(q[1], kind)
    BY UseAmountIs
  <2>3. KindOf(x) # kind
    BY DEF KindOf
  <2> HIDE DEF x, q, kind
  <2>4. Len(q) # 2 /\ q[1] = x
    BY <2>1
  <2> QED  BY <2>2, <2>3, <2>4 DEF Count
<1>8. \A k \in D : f[k] = 0
  BY <1>4, <1>7
<1> HIDE DEF f, D
<1>9. SumFunctionOnSet(f, D) = 0
  BY <1>5, <1>8, SumZero
<1> QED  BY <1>2, <1>9

LEMMA OldYear ==
    ASSUME NEW sold, AreSales(sold), NEW facts, IsFacts(facts), NEW y \in Nat, y < NewRules
    PROVE  GainsOf(sold, facts, y)["from_july_2027"] = 0
<1> DEFINE kind == "from_july_2027"
           mine == YearOf(sold, y)
           known == {s \in mine : Known(s, facts)}
           f == [s \in known |-> Amount(s, facts, kind)]
<1>1. kind \in Kinds /\ kind \in Buckets
  BY DEF Kinds, Buckets
<1>2. AreSales(mine) /\ \A s \in mine : s.year = y
  BY FS_Subset DEF AreSales, YearOf
<1> HIDE DEF mine
<1>3. IsFiniteSet(known) /\ Amounts(mine, facts, kind) = SumFunctionOnSet(f, known)
  BY <1>1, <1>2, AmountsAre
<1>4. \A s \in known : f[s] = 0
  BY <1>2, OldSale DEF AreSales
<1> HIDE DEF f, known
<1>5. SumFunctionOnSet(f, known) = 0
  BY <1>3, <1>4, SumZero
<1> QED  BY <1>1, <1>3, <1>5 DEF GainsOf, mine

\* Before 1 July 2027 no other way of setting a year's losses, its own and those
\* carried in, against its gains leaves a smaller net capital gain, whatever sales
\* are recorded (`_year_cgt`, the order of s102-5(1)).
THEOREM OrderIsBest == Spec => []LeastGain
<1>1. IInv => LeastGain
  <2> SUFFICES ASSUME IInv, NEW y \in FirstYear .. NewRules - 1, ~Told(y).oversold
               PROVE  Least(Told(y))
    BY DEF LeastGain
  <2> DEFINE facts == Facts(FALSE)
             gains == GainsOf(sales, facts, y)
             losses == LossesOf(sales, facts, y)
  <2>1. IsFacts(facts) /\ AreSales(sales)
    BY FactsAre DEF IInv
  <2>2. y \in Nat /\ y < NewRules
    BY YearsAre
  <2> HIDE DEF facts
  <2>3. Told(y) = FyCgt(sales, facts, y)
    BY DEF Told, facts
  <2>4. /\ Told(y).carried_in \in Nat
        /\ Told(y) = Netted(gains, losses, Told(y).carried_in)
    <3>1. Follows(sales, facts, y)
      BY <2>1, <2>2, FyFollows
    <3> QED  BY <2>3, <3>1 DEF Follows
  <2>5. gains \in [Buckets -> Nat] /\ losses \in Nat /\ gains["from_july_2027"] = 0
    BY <2>1, <2>2, GainsAre, OldYear
  <2> DEFINE carried == Told(y).carried_in
  <2>6. Told(y) = Netted(gains, losses, carried) /\ carried \in Nat
    BY <2>4
  <2> HIDE DEF gains, losses, carried
  <2>7. Least(Netted(gains, losses, carried))
    BY <2>5, <2>6, OrderIsLeast
  <2> QED  BY <2>6, <2>7, Zenon
<1> QED  BY <1>1, Invariant, PTL

-----------------------------------------------------------------------------
(***************************************************************************)
(* What is known stays so: facts that only add to others give every sale   *)
(* whose figures were known the same figures.                              *)
(***************************************************************************)
AddsTo(facts, more) ==
    /\ ~facts.estimate /\ ~more.estimate
    /\ facts.rates \subseteq more.rates /\ facts.closes \subseteq more.closes
    /\ \A y \in Years : facts.cpi[y] # Unknown => more.cpi[y] = facts.cpi[y]

LEMMA FactorStays ==
    ASSUME NEW facts, NEW more, AddsTo(facts, more), NEW when, NEW sold,
           Factor(facts, when, sold) # Unknown
    PROVE  Factor(more, when, sold) = Factor(facts, when, sold)
<1>1. ASSUME NEW y, Index(facts, y) # Unknown PROVE Index(more, y) = Index(facts, y)
  <2>1. y \in Stored(facts) /\ Index(facts, y) = facts.cpi[y]
    BY <1>1 DEF Index, AddsTo
  <2>2. y \in Stored(more) /\ more.cpi[y] = facts.cpi[y]
    BY <2>1 DEF Stored, AddsTo
  <2> QED  BY <2>1, <2>2 DEF Index
<1>2. CASE when = sold
  BY <1>2 DEF Factor
<1>3. CASE when # sold
  <2>1. Index(facts, when) # Unknown /\ Index(facts, sold) # Unknown
    BY <1>3 DEF Factor
  <2>2. Index(more, when) = Index(facts, when) /\ Index(more, sold) = Index(facts, sold)
    BY <1>1, <2>1
  <2> QED  BY <2>1, <2>2 DEF Factor
<1> QED  BY <1>2, <1>3

LEMMA UseStays ==
    ASSUME NEW u, NEW s, NEW facts, NEW more, AddsTo(facts, more), UseKnown(u, s, facts)
    PROVE  UseKnown(u, s, more) /\ Parts(u, s, more) = Parts(u, s, facts)
<1>1. /\ Priced(u, s, facts) /\ Valued(u, s, facts) /\ Priced(u, s, more) /\ Valued(u, s, more)
  BY DEF UseKnown, Priced, Valued, AddsTo
<1>2. Indexed(u, s, more) <=> Indexed(u, s, facts)
  BY <1>1 DEF Indexed
<1>3. ASSUME Indexed(u, s, facts), NEW k \in DOMAIN Spent(u, s)
      PROVE  /\ FactorOf(Spent(u, s)[k], s, facts) # Unknown
             /\ FactorOf(Spent(u, s)[k], s, more) = FactorOf(Spent(u, s)[k], s, facts)
  <2> DEFINE x == Spent(u, s)[k]
  <2>1. FactorOf(x, s, facts) # Unknown
    BY <1>3 DEF UseKnown, AwaitingCpi
  <2> HIDE DEF x
  <2>2. FactorOf(x, s, more) = FactorOf(x, s, facts)
    BY <2>1, FactorStays DEF FactorOf
  <2> QED  BY <2>1, <2>2 DEF x
<1>4. UseKnown(u, s, more)
  BY <1>1, <1>2, <1>3 DEF UseKnown, AwaitingCpi
<1>5. IndexedCost(u, s, more) = IndexedCost(u, s, facts)
  <2> DEFINE q == Spent(u, s)
             t == SumOf(LAMBDA x : x.amount * FactorOf(x, s, facts), q)
             v == SumOf(LAMBDA x : x.amount * FactorOf(x, s, more), q)
             By(sum) == Cents(CostBase(u, s) * sum, 1000 * Total(u, s))
  <2>1. IndexedCost(u, s, facts)
            = IF Indexed(u, s, facts) /\ Total(u, s) > 0 THEN By(t) ELSE CostBase(u, s)
    BY Zenon DEF IndexedCost
  <2>2. IndexedCost(u, s, more)
            = IF Indexed(u, s, more) /\ Total(u, s) > 0 THEN By(v) ELSE CostBase(u, s)
    BY Zenon DEF IndexedCost
  <2>3. ASSUME Indexed(u, s, facts) PROVE t = v
    <3> DEFINE a == [k \in DOMAIN q |-> q[k].amount * FactorOf(q[k], s, facts)]
               b == [k \in DOMAIN q |-> q[k].amount * FactorOf(q[k], s, more)]
    <3>1. a = b
      BY <1>3, <2>3
    <3>2. t = SumFunction(a)
      BY DEF SumOf
    <3>3. v = SumFunction(b)
      BY DEF SumOf
    <3> HIDE DEF a, b, t, v
    <3> QED  BY <3>1, <3>2, <3>3
  <2> HIDE DEF q, t, v, By
  <2>4. CASE Indexed(u, s, facts)
    <3>1. By(t) = By(v)
      BY <2>3, <2>4, Zenon
    <3> QED  BY <1>2, <2>1, <2>2, <2>4, <3>1
  <2>5. CASE ~Indexed(u, s, facts)
    BY <1>2, <2>1, <2>2, <2>5, Zenon
  <2> QED  BY <2>4, <2>5
<1>6. After(u, s, more) = After(u, s, facts)
  BY <1>5 DEF After
<1>7. GainOf(u, s, more) = GainOf(u, s, facts)
  BY <1>6 DEF GainOf
<1>8. Parts(u, s, more) = Parts(u, s, facts)
  BY <1>6, <1>7 DEF Parts
<1> QED  BY <1>4, <1>8

LEMMA SaleStays ==
    ASSUME NEW s, NEW facts, NEW more, NEW kind, AddsTo(facts, more), Known(s, facts)
    PROVE  Known(s, more) /\ Amount(s, more, kind) = Amount(s, facts, kind)
<1> DEFINE a == [k \in DOMAIN s.of.uses |-> UseAmount(s.of.uses[k], s, facts, kind)]
           b == [k \in DOMAIN s.of.uses |-> UseAmount(s.of.uses[k], s, more, kind)]
<1>1. ASSUME NEW k \in DOMAIN s.of.uses
      PROVE  /\ UseKnown(s.of.uses[k], s, more)
             /\ Parts(s.of.uses[k], s, more) = Parts(s.of.uses[k], s, facts)
  BY UseStays DEF Known
<1>2. Known(s, more)
  BY <1>1 DEF Known
<1>3. \A k \in DOMAIN s.of.uses :
         UseAmount(s.of.uses[k], s, facts, kind) = UseAmount(s.of.uses[k], s, more, kind)
  BY <1>1 DEF UseAmount
<1>4. a = b
  BY <1>3
<1>5. Amount(s, facts, kind) = SumFunction(a)
  BY DEF Amount, SumOf, UseAmount
<1>6. Amount(s, more, kind) = SumFunction(b)
  BY DEF Amount, SumOf, UseAmount
<1> HIDE DEF a, b
<1> QED  BY <1>2, <1>4, <1>5, <1>6

LEMMA YearStays ==
    ASSUME NEW sold, NEW facts, NEW more, NEW y, NEW carried,
           AddsTo(facts, more), LeftOut(sold, facts, y) = {}
    PROVE  YearCgt(sold, more, y, carried) = YearCgt(sold, facts, y, carried)
<1> DEFINE mine == YearOf(sold, y)
<1>1. \A s \in mine : Known(s, facts)
  <2> SUFFICES ASSUME NEW s \in mine, ~Known(s, facts) PROVE FALSE
    OBVIOUS
  <2>1. [ticker |-> s.of.ticker, why |-> Reason(s, facts)] \in LeftOut(sold, facts, y)
    BY DEF LeftOut
  <2> QED  BY <2>1
<1>2. \A s \in mine : Known(s, more)
  BY <1>1, SaleStays
<1>3. ASSUME NEW kind PROVE Amounts(mine, more, kind) = Amounts(mine, facts, kind)
  <2> HIDE DEF mine
  <2>1. {t \in mine : Known(t, facts)} = mine /\ {t \in mine : Known(t, more)} = mine
    BY <1>1, <1>2
  <2>2. \A s \in mine : Amount(s, more, kind) = Amount(s, facts, kind)
    BY <1>1, SaleStays
  <2>3. [s \in mine |-> Amount(s, more, kind)] = [s \in mine |-> Amount(s, facts, kind)]
    BY <2>2
  <2> QED  BY <2>1, <2>3 DEF Amounts
<1>4. [b \in Buckets |-> Amounts(mine, more, b)] = [b \in Buckets |-> Amounts(mine, facts, b)]
  BY <1>3
<1> QED  BY <1>3, <1>4 DEF YearCgt

LEMMA FyStays ==
    ASSUME NEW sold, NEW facts, NEW more, NEW y \in Nat, AreSales(sold), AddsTo(facts, more),
           Named(sold, facts, y) = {}
    PROVE  FyCgt(sold, more, y) = FyCgt(sold, facts, y)
<1> DEFINE first == First(sold, y)
           G == {k \in first .. y : FyCgt(sold, more, k) = FyCgt(sold, facts, k)}
<1>1. first \in Nat /\ first <= y /\ \A k \in first .. y : First(sold, k) = first
  BY FirstIs
<1>2. \A k \in first .. y : LeftOut(sold, facts, k) = {}
  BY DEF Named
<1> HIDE DEF first
<1>3. ASSUME NEW k \in first .. y, NEW carried
      PROVE  YearCgt(sold, more, k, carried) = YearCgt(sold, facts, k, carried)
  BY <1>2, YearStays
<1>4. ASSUME NEW k \in first .. y
      PROVE  \A other : FyCgt(sold, other, k) =
                 IF k = first THEN YearCgt(sold, other, k, 0)
                 ELSE Step(sold, other, k, FyCgt(sold, other, k - 1))
  <2>1. k \in Nat /\ First(sold, k) = first
    BY <1>1
  <2> QED  BY <2>1, FyIs
<1>5. first \in G
  <2>1. first \in first .. y
    BY <1>1
  <2> DEFINE zero == 0
  <2>2. \A other : FyCgt(sold, other, first) = YearCgt(sold, other, first, zero)
    BY <1>4, <2>1
  <2> HIDE DEF zero
  <2>3. YearCgt(sold, more, first, zero) = YearCgt(sold, facts, first, zero)
    BY <1>3, <2>1
  <2> QED  BY <2>1, <2>2, <2>3
<1>6. ASSUME NEW k \in first .. y - 1, k \in G PROVE k + 1 \in G
  <2> DEFINE j == k + 1
             last == FyCgt(sold, facts, k)
  <2>1. j \in first .. y /\ j # first /\ j - 1 = k
    BY <1>1
  <2>2. FyCgt(sold, more, k) = last
    BY <1>6
  <2>3. FyCgt(sold, more, j) = Step(sold, more, j, last)
        /\ FyCgt(sold, facts, j) = Step(sold, facts, j, last)
    BY <1>4, <2>1, <2>2
  <2> HIDE DEF j, last
  <2>4. Step(sold, more, j, last) = Step(sold, facts, j, last)
    BY <1>3, <2>1 DEF Step
  <2>5. j \in G
    BY <2>1, <2>3, <2>4
  <2> QED  BY <2>5 DEF j
<1> HIDE DEF G
<1>7. \A k \in first .. y : k \in G
  <2>1. \A k \in first .. y - 1 : k \in G => k + 1 \in G
    BY <1>6
  <2> QED  BY <1>1, <1>5, <2>1, Climb
<1>8. y \in G
  BY <1>1, <1>7
<1> QED  BY <1>8 DEF G

\* ... nor does it name anything then.
LEMMA NamesStay ==
    ASSUME NEW sold, NEW facts, NEW more, NEW y, AddsTo(facts, more),
           Named(sold, facts, y) = {}
    PROVE  Named(sold, more, y) = {}
<1> SUFFICES ASSUME NEW k \in First(sold, y) .. y, NEW s \in YearOf(sold, k), ~Known(s, more)
             PROVE  FALSE
  BY DEF Named, LeftOut
<1>1. CASE Known(s, facts)
  BY <1>1, SaleStays
<1>2. CASE ~Known(s, facts)
  <2>1. [ticker |-> s.of.ticker, why |-> Reason(s, facts)] \in LeftOut(sold, facts, k)
    BY <1>2 DEF LeftOut
  <2> QED  BY <2>1 DEF Named
<1> QED  BY <1>1, <1>2

\* What arrives is one of three.
LEMMA ArrivalIs ==
    ASSUME NEW facts, NEW more \in Arrivals(facts)
    PROVE  \/ \E ticker \in Tickers : more = [facts EXCEPT !.rates = @ \union {ticker}]
           \/ \E ticker \in Tickers : more = [facts EXCEPT !.closes = @ \union {ticker}]
           \/ \E y \in Years \ Stored(facts), number \in Indexes :
                 more = [facts EXCEPT !.cpi[y] = number]
<1> DEFINE A == {[facts EXCEPT !.rates = @ \union {ticker}] : ticker \in Tickers}
           B == {[facts EXCEPT !.closes = @ \union {ticker}] : ticker \in Tickers}
           Given(y) == {[facts EXCEPT !.cpi[y] = number] : number \in Indexes}
           unstored == {z \in Years : z >= NewRules} \ Stored(facts)
           C == UNION {Given(y) : y \in unstored}
<1>1. more \in A \/ more \in B \/ more \in C
  <2>1. Arrivals(facts) = (A \union B) \union C
    BY DEF Arrivals
  <2> HIDE DEF A, B, C
  <2> QED  BY <2>1
<1>2. CASE more \in C
  <2>1. PICK y \in unstored : more \in Given(y)
    <3> HIDE DEF Given, unstored
    <3> QED  BY <1>2
  <2>2. PICK number \in Indexes : more = [facts EXCEPT !.cpi[y] = number]
    BY <2>1, Zenon
  <2>3. y \in Years \ Stored(facts)
    BY <2>1
  <2> QED  BY <2>2, <2>3, Zenon
<1>3. CASE more \in A
  BY <1>3, Zenon
<1>4. CASE more \in B
  BY <1>4, Zenon
<1> QED  BY <1>1, <1>2, <1>3, <1>4, Zenon

\* A first rate, a first close and an index number not stored yet only add.
LEMMA ArrivalAdds ==
    ASSUME TypeOK, NEW more \in Arrivals(Facts(FALSE))
    PROVE  AddsTo(Facts(FALSE), more)
<1> DEFINE facts == [rates |-> rates, closes |-> closes, cpi |-> cpi, estimate |-> FALSE]
<1>1. Facts(FALSE) = facts
  BY DEF Facts
<1>2. more \in Arrivals(facts)
  BY <1>1
<1>3. AddsTo(facts, more)
  <2>1. CASE \E ticker \in Tickers : more = [facts EXCEPT !.rates = @ \union {ticker}]
    BY <2>1 DEF AddsTo
  <2>2. CASE \E ticker \in Tickers : more = [facts EXCEPT !.closes = @ \union {ticker}]
    BY <2>2 DEF AddsTo
  <2>3. CASE \E y \in Years \ Stored(facts), number \in Indexes :
               more = [facts EXCEPT !.cpi[y] = number]
    <3>1. PICK y \in Years \ Stored(facts), number \in Indexes :
            more = [facts EXCEPT !.cpi[y] = number]
      BY <2>3
    <3>2. /\ more.rates = rates /\ more.closes = closes /\ more.estimate = FALSE
          /\ more.cpi = [cpi EXCEPT ![y] = number]
      BY <3>1
    <3>3. ASSUME NEW z \in Years, cpi[z] # Unknown PROVE more.cpi[z] = cpi[z]
      BY <3>1, <3>2, <3>3 DEF Stored, TypeOK
    <3> QED  BY <3>2, <3>3 DEF AddsTo
  <2> QED  BY <1>2, <2>1, <2>2, <2>3, ArrivalIs, Zenon
<1> QED  BY <1>1, <1>3

\* A year that names nothing has left nothing out, of its own sales or of the losses carried
\* into it (CgtSummary's awaiting_cpi, unvalued and withheld): whichever first rate, first
\* close or index number not stored yet is stored next, it has the same figures and still
\* names nothing.  A nearer rate or close than the one used is not among them, nor is a new
\* reference period: those replace what the figures were worked from.
THEOREM WhatIsMissingIsNamed == Spec => []MissingIsNamed
<1>1. IInv => MissingIsNamed
  <2> SUFFICES ASSUME IInv, NEW y \in Years, Named(sales, Facts(FALSE), y) = {},
                      NEW more \in Arrivals(Facts(FALSE))
               PROVE  Named(sales, more, y) = {} /\ FyCgt(sales, more, y) = Told(y)
    BY DEF MissingIsNamed
  <2>1. AreSales(sales) /\ TypeOK
    BY FactsAre DEF IInv
  <2>2. y \in Nat
    BY YearsAre
  <2>3. AddsTo(Facts(FALSE), more)
    BY <2>1, ArrivalAdds
  <2>4. Named(sales, more, y) = {}
    BY <2>3, NamesStay
  <2>5. FyCgt(sales, more, y) = FyCgt(sales, Facts(FALSE), y)
    BY <2>1, <2>2, <2>3, FyStays
  <2> QED  BY <2>4, <2>5 DEF Told
<1> QED  BY <1>1, Invariant, PTL

-----------------------------------------------------------------------------
(***************************************************************************)
(* The simulated sale: the years before it are as they were, and its own   *)
(* year has its parts as well.                                             *)
(***************************************************************************)
\* What a year carries on is what its losses and those carried in leave over.
LEMMA CarriedOutIs ==
    ASSUME NEW gains \in [Buckets -> Nat], NEW losses \in Nat, NEW carried \in Nat
    PROVE  Netted(gains, losses, carried).carried_out
               = IF losses + carried > AllOf(gains) THEN losses + carried - AllOf(gains) ELSE 0
<1> DEFINE own == Applied(losses, gains)
           left == Less(gains, own)
           earlier == Applied(carried, left)
<1>1. left \in [Buckets -> Nat] /\ AllOf(left) = AllOf(gains) - Lesser(losses, AllOf(gains))
  BY LessFits
<1>2. AllOf(own) = Lesser(losses, AllOf(gains))
  BY AppliedFits
<1>3. Netted(gains, losses, carried).carried_out
          = carried - AllOf(earlier) + (losses - AllOf(own))
  BY DEF Netted, CarriedOut
<1> HIDE DEF left
<1>4. AllOf(earlier) = Lesser(carried, AllOf(left))
  BY <1>1, AppliedFits
<1>5. AllOf(gains) \in Nat /\ AllOf(left) \in Nat
  BY <1>1 DEF AllOf, Buckets
<1> HIDE DEF own, earlier
<1> DEFINE n == AllOf(gains)
           m == AllOf(left)
           a == AllOf(own)
           b == AllOf(earlier)
<1>6. /\ n \in Nat /\ m \in Nat /\ m = n - Lesser(losses, n)
      /\ a = Lesser(losses, n) /\ b = Lesser(carried, m)
  BY <1>1, <1>2, <1>4, <1>5
<1>7. Netted(gains, losses, carried).carried_out = carried - b + (losses - a)
  BY <1>3
<1> HIDE DEF n, m, a, b
<1>8. carried - b + (losses - a) = IF losses + carried > n THEN losses + carried - n ELSE 0
  BY <1>6 DEF Lesser
<1> QED  BY <1>7, <1>8 DEF n

LEMMA FirstWith ==
    ASSUME NEW sold, NEW sell, NEW z \in Nat, AreSales(sold), AreSales(sold \union {sell}),
           z <= sell.year
    PROVE  First(sold \union {sell}, z) = First(sold, z)
<1> DEFINE more == sold \union {sell}
           f == First(sold, z)
           g == First(more, z)
<1>1. AreSales(more) /\ sold \subseteq more /\ \A s \in more : s \in sold \/ s = sell
  OBVIOUS
<1>2. \A s \in more : s.year \in Nat
  BY <1>1 DEF AreSales, IsASale
<1> HIDE DEF more
<1>3. /\ f \in Nat /\ f <= z
      /\ \A s \in sold : IsSale(s) /\ s.year <= z => f <= s.year
      /\ f = z \/ \E s \in sold : IsSale(s) /\ s.year = f
  BY FirstIs
<1>4. /\ g \in Nat /\ g <= z
      /\ \A s \in more : IsSale(s) /\ s.year <= z => g <= s.year
      /\ g = z \/ \E s \in more : IsSale(s) /\ s.year = g
  BY <1>1, FirstIs
<1> HIDE DEF f, g
<1>5. g <= f
  <2>1. CASE f = z
    BY <1>4, <2>1
  <2>2. CASE f # z
    <3>1. PICK s \in sold : IsSale(s) /\ s.year = f
      BY <1>3, <2>2
    <3> QED  BY <1>1, <1>3, <1>4, <3>1
  <2> QED  BY <2>1, <2>2
<1>6. f <= g
  <2>1. CASE g = z
    BY <1>3, <2>1
  <2>2. CASE g # z
    <3>1. PICK s \in more : IsSale(s) /\ s.year = g
      BY <1>4, <2>2
    <3>2. sell \in more
      BY DEF more
    <3>3. s.year < z /\ sell.year \in Nat
      BY <1>2, <1>4, <2>2, <3>1, <3>2
    <3>4. s # sell
      BY <1>2, <3>1, <3>3
    <3> QED  BY <1>1, <1>3, <1>4, <3>1, <3>4
  <2> QED  BY <2>1, <2>2
<1> QED  BY <1>3, <1>4, <1>5, <1>6 DEF f, g, more

LEMMA EarlierYears ==
    ASSUME NEW sold, NEW more, NEW facts, NEW n \in Nat, AreSales(sold), AreSales(more),
           \A k \in 0 .. n : First(more, k) = First(sold, k) /\ YearOf(more, k) = YearOf(sold, k)
    PROVE  FyCgt(more, facts, n) = FyCgt(sold, facts, n)
<1> DEFINE G == {k \in 0 .. n : FyCgt(more, facts, k) = FyCgt(sold, facts, k)}
<1>1. ASSUME NEW k \in 0 .. n, First(sold, k) # k => k - 1 \in G
      PROVE  k \in G
  <2>1. ASSUME NEW carried
        PROVE  YearCgt(more, facts, k, carried) = YearCgt(sold, facts, k, carried)
    BY DEF YearCgt
  <2>2. FyCgt(more, facts, k) = IF First(more, k) = k THEN YearCgt(more, facts, k, 0)
                                ELSE Step(more, facts, k, FyCgt(more, facts, k - 1))
    BY FyIs
  <2>3. FyCgt(sold, facts, k) = IF First(sold, k) = k THEN YearCgt(sold, facts, k, 0)
                                ELSE Step(sold, facts, k, FyCgt(sold, facts, k - 1))
    BY FyIs
  <2>4. First(more, k) = First(sold, k)
    OBVIOUS
  <2>5. CASE First(sold, k) = k
    BY <2>1, <2>2, <2>3, <2>4, <2>5
  <2>6. CASE First(sold, k) # k
    <3> DEFINE last == FyCgt(sold, facts, k - 1)
    <3>1. FyCgt(more, facts, k - 1) = last
      BY <1>1, <2>6
    <3>2. FyCgt(more, facts, k) = Step(more, facts, k, last)
          /\ FyCgt(sold, facts, k) = Step(sold, facts, k, last)
      BY <2>2, <2>3, <2>4, <2>6, <3>1
    <3> HIDE DEF last
    <3>3. Step(more, facts, k, last) = Step(sold, facts, k, last)
      BY <2>1 DEF Step
    <3> QED  BY <3>2, <3>3
  <2> QED  BY <2>5, <2>6
<1> HIDE DEF G
<1>2. 0 \in G
  <2> DEFINE zero == 0
  <2>1. zero \in Nat /\ zero \in 0 .. n
    OBVIOUS
  <2> HIDE DEF zero
  <2>2. First(sold, zero) \in Nat /\ First(sold, zero) <= zero
    BY <2>1, FirstIs
  <2>3. First(sold, zero) = zero
    BY <2>2 DEF zero
  <2>4. zero \in G
    BY <1>1, <2>1, <2>3
  <2> QED  BY <2>4 DEF zero
<1>3. \A k \in 0 .. n : k \in G
  <2>1. ASSUME NEW k \in 0 .. n - 1, k \in G PROVE k + 1 \in G
    <3>1. k + 1 \in 0 .. n /\ (k + 1) - 1 = k
      OBVIOUS
    <3> QED  BY <1>1, <2>1, <3>1
  <2>2. \A k \in 0 .. n - 1 : k \in G => k + 1 \in G
    BY <2>1
  <2> QED  BY <1>2, <2>2, Climb
<1>4. n \in G
  BY <1>3
<1> QED  BY <1>4 DEF G

LEMMA AmountsWith ==
    ASSUME NEW sold, NEW sell, NEW facts, NEW kind \in Kinds, AreSales(sold), IsASale(sell),
           sell \notin sold, IsFacts(facts), Known(sell, facts)
    PROVE  Amounts(sold \union {sell}, facts, kind)
               = Amounts(sold, facts, kind) + Amount(sell, facts, kind)
<1> DEFINE more == sold \union {sell}
           known == {s \in sold : Known(s, facts)}
           all == {s \in more : Known(s, facts)}
           f == [s \in known |-> Amount(s, facts, kind)]
           g == [s \in all |-> Amount(s, facts, kind)]
<1>1. AreSales(more)
  BY FS_AddElement DEF AreSales
<1>2. all = known \union {sell} /\ sell \notin known
  OBVIOUS
<1> HIDE DEF more
<1>3. IsFiniteSet(known) /\ Numbers(f, known)
      /\ Amounts(sold, facts, kind) = SumFunctionOnSet(f, known)
  BY AmountsAre
<1>4. Numbers(g, all) /\ Amounts(more, facts, kind) = SumFunctionOnSet(g, all)
  BY <1>1, AmountsAre
<1>5. Same(f, g, known) /\ g[sell] = Amount(sell, facts, kind)
  BY <1>2 DEF Same
<1> HIDE DEF known, all, f, g
<1>6. Numbers(g, known \union {sell})
  BY <1>2, <1>4
<1>7. SumFunctionOnSet(g, known \union {sell}) = SumFunctionOnSet(g, known) + g[sell]
  BY <1>2, <1>3, <1>6, SumAdd
<1>8. SumFunctionOnSet(f, known) = SumFunctionOnSet(g, known)
  BY <1>3, <1>5, SumSame
<1> QED  BY <1>2, <1>3, <1>4, <1>5, <1>7, <1>8 DEF more

\* The year's gains and losses with the sale: those without it, and its own.
AddsItsGain(sold, sell, facts) ==
    AllOf(GainsOf(sold \union {sell}, facts, sell.year))
        - LossesOf(sold \union {sell}, facts, sell.year)
        = AllOf(GainsOf(sold, facts, sell.year)) - LossesOf(sold, facts, sell.year)
          + GainOfSale(sell, facts)

LEMMA GainsWith ==
    ASSUME NEW sold, NEW sell, NEW facts, AreSales(sold), IsASale(sell), sell \notin sold,
           IsFacts(facts), Known(sell, facts)
    PROVE  AddsItsGain(sold, sell, facts)
<1> DEFINE more == sold \union {sell}
           y == sell.year
           mine == YearOf(sold, y)
           A(kind) == Amounts(mine, facts, kind)
           B(kind) == Amounts(mine \union {sell}, facts, kind)
           C(kind) == Amount(sell, facts, kind)
<1>1. YearOf(more, y) = mine \union {sell} /\ sell \notin mine
  BY DEF YearOf
<1>2. AreSales(mine)
  BY FS_Subset DEF AreSales, YearOf
<1> HIDE DEF mine
<1>3. \A kind \in Kinds : B(kind) = A(kind) + C(kind)
  BY <1>1, <1>2, AmountsWith
<1>4. \A kind \in Kinds : A(kind) \in Int
  BY <1>2, AmountsAre
<1>5. /\ \A kind \in Kinds : C(kind) \in Int
      /\ C("other") + C("discountable") + C("from_july_2027") + C("loss")
             = GainOfSale(sell, facts)
  BY SaleSplits
<1>6. /\ "other" \in Kinds /\ "discountable" \in Kinds
      /\ "from_july_2027" \in Kinds /\ "loss" \in Kinds
  BY DEF Kinds, Buckets
<1>7. /\ AllOf(GainsOf(sold, facts, y)) = A("other") + A("discountable") + A("from_july_2027")
      /\ LossesOf(sold, facts, y) = -A("loss")
  BY DEF GainsOf, LossesOf, AllOf, Buckets, mine
<1>8. /\ AllOf(GainsOf(more, facts, y)) = B("other") + B("discountable") + B("from_july_2027")
      /\ LossesOf(more, facts, y) = -B("loss")
  BY <1>1 DEF GainsOf, LossesOf, AllOf, Buckets
<1> DEFINE a1 == A("other") a2 == A("discountable") a3 == A("from_july_2027") a4 == A("loss")
           b1 == B("other") b2 == B("discountable") b3 == B("from_july_2027") b4 == B("loss")
           c1 == C("other") c2 == C("discountable") c3 == C("from_july_2027") c4 == C("loss")
           gain == GainOfSale(sell, facts)
<1>9. /\ a1 \in Int /\ a2 \in Int /\ a3 \in Int /\ a4 \in Int
      /\ c1 \in Int /\ c2 \in Int /\ c3 \in Int /\ c4 \in Int
  BY <1>4, <1>5, <1>6
<1>10. b1 = a1 + c1 /\ b2 = a2 + c2 /\ b3 = a3 + c3 /\ b4 = a4 + c4
  BY <1>3, <1>6
<1>11. c1 + c2 + c3 + c4 = gain
  BY <1>5
<1> HIDE DEF a1, a2, a3, a4, b1, b2, b3, b4, c1, c2, c3, c4, gain
<1>12. (b1 + b2 + b3) - (-b4) = ((a1 + a2 + a3) - (-a4)) + gain
  BY <1>9, <1>10, <1>11
<1> QED  BY <1>7, <1>8, <1>12 DEF a1, a2, a3, a4, b1, b2, b3, b4, gain, AddsItsGain

\* A year and the same year with a sale more, netted with the same losses carried in.
LEMMA OneMore ==
    ASSUME NEW g \in [Buckets -> Nat], NEW l \in Nat, NEW h \in [Buckets -> Nat], NEW m \in Nat,
           NEW carried \in Nat, NEW gain \in Int, AllOf(h) - m = AllOf(g) - l + gain
    PROVE  Sensible(Shown(Netted(g, l, carried), Netted(h, m, carried), gain, TRUE))
<1> DEFINE before == Netted(g, l, carried)
           after == Netted(h, m, carried)
           n == AllOf(g)
           o == AllOf(h)
           bg == before.net_capital_gain
           bd == before.discount
           bc == before.carried_out
           ag == after.net_capital_gain
           ad == after.discount
           ac == after.carried_out
           r == Shown(before, after, gain, TRUE)
<1>1. bg \in Int /\ bd \in Int /\ n \in Nat /\ ag \in Int /\ ad \in Int /\ o \in Nat
  BY NettedInts
<1>2. before.carried_in = carried /\ after.carried_in = carried
  BY DEF Netted
<1>3. n - l = bg + bd - (bc - carried) /\ bc \in Nat
  <2>1. n - l = bg + bd - (bc - before.carried_in) /\ bc \in Nat
    BY NettedBalances
  <2> HIDE DEF before
  <2> QED  BY <1>2, <2>1
<1>4. o - m = ag + ad - (ac - carried) /\ ac \in Nat
  <2>1. o - m = ag + ad - (ac - after.carried_in) /\ ac \in Nat
    BY NettedBalances
  <2> HIDE DEF after
  <2> QED  BY <1>2, <2>1
<1>5. bc = IF l + carried > n THEN l + carried - n ELSE 0
  BY CarriedOutIs
<1>6. ac = IF m + carried > o THEN m + carried - o ELSE 0
  BY CarriedOutIs
<1>7. /\ r.gain = gain /\ r.carried_forward = ac - bc
      /\ r.losses_used = gain - (ad - bd) - (ag - bg)
  BY DEF Shown
<1>8. o - m = n - l + gain
  OBVIOUS
<1> DEFINE used == r.losses_used
           forward == r.carried_forward
<1>9. used = gain - (ad - bd) - (ag - bg) /\ forward = ac - bc
  BY <1>7
<1> HIDE DEF before, after, n, o, bg, bd, bc, ag, ad, ac, r, used, forward
<1>10. used = -forward
  BY <1>1, <1>3, <1>4, <1>8, <1>9
<1>11. gain >= 0 => used \in 0 .. gain
  BY <1>1, <1>3, <1>4, <1>5, <1>6, <1>8, <1>9, <1>10
<1>12. r.losses_used = -r.carried_forward /\ (r.gain >= 0 => r.losses_used \in 0 .. r.gain)
  BY <1>7, <1>10, <1>11 DEF used, forward
<1> QED  BY <1>12 DEF Sensible, r, before, after

\* A simulated sale adds up, whatever is recorded when it is made: what it uses of
\* the losses is exactly what is then no longer carried on, and a sale at a gain
\* uses no more than it gains (simulate.sale).
THEOREM SimulationAddsUp == Spec => []SaleAddsUp
<1>1. IInv => SaleAddsUp
  <2> SUFFICES ASSUME IInv, NEW d \in Disposals, Simulated(d).worked
               PROVE  Sensible(Simulated(d))
    BY DEF SaleAddsUp, Sensible
  <2> DEFINE facts == Facts(TRUE)
             sell == [year |-> today, of |-> d, nth |-> 0]
             more == sales \union {sell}
             before == FyCgt(sales, facts, today)
             after == FyCgt(more, facts, today)
             gain == GainOfSale(sell, facts)
             known == Known(sell, facts)
  <2>1. Simulated(d) = Shown(before, after, gain, known)
    BY DEF Simulated, YearSoFar
  <2>2. known /\ ~before.oversold /\ ~after.oversold
    <3> HIDE DEF before, after, gain, known
    <3>1. Shown(before, after, gain, known).worked
              = (known /\ ~before.oversold /\ ~after.oversold)
      BY DEF Shown
    <3>2. Shown(before, after, gain, known).worked
      BY <2>1, Zenon
    <3> QED  BY <3>1, <3>2, Zenon
  <2>3. IsFacts(facts) /\ AreSales(sales) /\ today \in Nat
    BY FactsAre, YearsAre DEF IInv, TypeOK
  <2>4. sell \notin sales /\ IsASale(sell) /\ sell.year = today
    BY <2>3, YearsAssumption DEF IInv, IsASale
  <2> HIDE DEF facts, sell
  <2>5. AreSales(more)
    BY <2>3, <2>4, FS_AddElement DEF AreSales
  <2>6. \A k \in 0 .. today : First(more, k) = First(sales, k)
    <3> TAKE k \in 0 .. today
    <3>1. k \in Nat /\ k <= sell.year
      BY <2>3, <2>4
    <3> QED  BY <2>3, <2>5, <3>1, FirstWith
  <2>7. \A k \in 0 .. today - 1 : YearOf(more, k) = YearOf(sales, k)
    BY <2>3, <2>4 DEF YearOf
  <2> DEFINE g == GainsOf(sales, facts, today)
             l == LossesOf(sales, facts, today)
             h == GainsOf(more, facts, today)
             m == LossesOf(more, facts, today)
             carried == before.carried_in
  <2>8. /\ carried \in Nat /\ before = Netted(g, l, carried)
        /\ First(sales, today) = today => carried = 0
        /\ First(sales, today) # today => carried = FyCgt(sales, facts, today - 1).carried_out
    <3>1. Follows(sales, facts, today)
      BY <2>3, FyFollows
    <3> QED  BY <2>2, <3>1 DEF Follows
  <2>9. /\ after = Netted(h, m, after.carried_in)
        /\ First(more, today) = today => after.carried_in = 0
        /\ First(more, today) # today =>
              after.carried_in = FyCgt(more, facts, today - 1).carried_out
    <3> HIDE DEF more
    <3>1. Follows(more, facts, today)
      BY <2>3, <2>5, FyFollows
    <3> QED  BY <2>2, <3>1 DEF Follows
  <2>10. after.carried_in = carried
    <3>1. First(more, today) = First(sales, today)
      BY <2>3, <2>6
    <3>2. CASE First(sales, today) = today
      BY <2>8, <2>9, <3>1, <3>2
    <3>3. CASE First(sales, today) # today
      <4>1. today - 1 \in Nat
        BY <2>3, <3>3, FirstIs
      <4> DEFINE n == today - 1
      <4>2. \A k \in 0 .. n : First(more, k) = First(sales, k) /\ YearOf(more, k) = YearOf(sales, k)
        BY <2>3, <2>6, <2>7
      <4>3. n \in Nat
        BY <4>1
      <4> HIDE DEF n, more
      <4>4. FyCgt(more, facts, n) = FyCgt(sales, facts, n)
        BY <2>3, <2>5, <4>2, <4>3, EarlierYears
      <4> HIDE DEF before, after, carried
      <4> QED  BY <2>8, <2>9, <3>1, <3>3, <4>4 DEF n
    <3> QED  BY <3>2, <3>3
  <2>11. g \in [Buckets -> Nat] /\ l \in Nat /\ h \in [Buckets -> Nat] /\ m \in Nat
    <3> HIDE DEF more
    <3> QED  BY <2>3, <2>5, GainsAre
  <2>12. AllOf(h) - m = AllOf(g) - l + gain
    <3>0. Known(sell, facts)
      BY <2>2
    <3>1. AddsItsGain(sales, sell, facts)
      BY <2>3, <2>4, <3>0, GainsWith, Zenon
    <3>2. sell.year = today
      BY <2>4
    <3> QED  BY <3>1, <3>2, Zenon DEF AddsItsGain
  <2>13. gain \in Int
    <3> DEFINE Of(kind) == Amount(sell, facts, kind)
    <3>1. /\ \A kind \in Kinds : Of(kind) \in Int
          /\ Of("other") + Of("discountable") + Of("from_july_2027") + Of("loss") = gain
      BY <2>3, <2>4, SaleSplits
    <3>2. /\ "other" \in Kinds /\ "discountable" \in Kinds
          /\ "from_july_2027" \in Kinds /\ "loss" \in Kinds
      BY DEF Kinds, Buckets
    <3> HIDE DEF Of, gain
    <3> QED  BY <3>1, <3>2
  <2>14. after = Netted(h, m, carried) /\ known = TRUE
    <3>1. known \in BOOLEAN
      BY DEF Known
    <3> HIDE DEF g, l, h, m, before, after, carried, known
    <3> QED  BY <2>2, <2>9, <2>10, <3>1
  <2> HIDE DEF g, l, h, m, before, after, carried, gain, known, more
  <2>15. Sensible(Shown(Netted(g, l, carried), Netted(h, m, carried), gain, TRUE))
    BY <2>8, <2>11, <2>12, <2>13, OneMore
  <2> QED  BY <2>1, <2>8, <2>14, <2>15
<1> QED  BY <1>1, Invariant, PTL
=============================================================================
