---------------------------- MODULE ParcelsProofs ----------------------------
(***************************************************************************)
(* Proofs about Parcels, for every value of its constants: the types, that *)
(* a parcel's bills add up, that none is negative or exceeds the cost,     *)
(* that parcels are used first in, first out; then, over sums of any       *)
(* length, that the two walks count the same units, that a sale's proceeds *)
(* add up and that no cost is lost or doubled.                             *)
(***************************************************************************)
EXTENDS Parcels, SequenceTheorems, WellFoundedInduction, TLAPS

-----------------------------------------------------------------------------
(***************************************************************************)
(* Arithmetic.                                                             *)
(***************************************************************************)
LEMMA RoundIsInt ==
    ASSUME NEW n \in Int, NEW d \in Nat, d # 0
    PROVE  RoundHalfEven(n, d) \in Int
BY DEF RoundHalfEven

LEMMA RoundMonotone ==
    ASSUME NEW m \in Int, NEW n \in Int, NEW d \in Nat, d # 0, m <= n
    PROVE  RoundHalfEven(m, d) <= RoundHalfEven(n, d)
BY DEF RoundHalfEven

LEMMA RoundZero == ASSUME NEW d \in Nat, d # 0 PROVE RoundHalfEven(0, d) = 0
BY DEF RoundHalfEven

\* A whole multiple is not rounded.
LEMMA RoundExact ==
    ASSUME NEW n \in Int, NEW d \in Nat, d # 0
    PROVE  RoundHalfEven(n * d, d) = n
<1>1. (n * d) \div d = n /\ (n * d) % d = 0
  OBVIOUS
<1> QED  BY <1>1 DEF RoundHalfEven

LEMMA TimesMonotone ==
    ASSUME NEW a \in Nat, NEW b \in Int, NEW c \in Int, b <= c
    PROVE  a * b <= a * c
OBVIOUS

LEMMA TimesNat == ASSUME NEW a \in Nat, NEW b \in Nat PROVE a * b \in Nat
OBVIOUS

LEMMA TimesPositive ==
    ASSUME NEW a \in Nat \ {0}, NEW b \in Nat \ {0} PROVE a * b \in Nat \ {0}
OBVIOUS

LEMMA DivisionUnique ==
    ASSUME NEW d \in Nat \ {0}, NEW q \in Int, NEW r \in 0 .. d - 1
    PROVE  (q * d + r) \div d = q /\ (q * d + r) % d = r
<1>1. (q * d + r) \div d = q + (r \div d)
  OBVIOUS
<1>2. r \div d = 0
  OBVIOUS
<1> QED  BY <1>1, <1>2

\* Rounding depends on the quotient alone.
LEMMA RoundCancel ==
    ASSUME NEW n \in Int, NEW d \in Nat \ {0}, NEW k \in Nat \ {0}
    PROVE  RoundHalfEven(n * k, d * k) = RoundHalfEven(n, d)
<1> DEFINE q == n \div d
           r == n % d
<1>1. q \in Int /\ r \in 0 .. d - 1 /\ n = q * d + r
  OBVIOUS
<1>2. r * k \in Int /\ 0 <= r * k /\ r * k < d * k
  BY <1>1
<1>3. d * k \in Nat \ {0}
  BY TimesPositive
<1>4. n * k = q * (d * k) + r * k
  <2>1. n * k = (q * d + r) * k
    BY <1>1
  <2>2. \A a, b \in Int : (a + b) * k = a * k + b * k
    OBVIOUS
  <2>3. q * d \in Int /\ (q * d) * k = q * (d * k)
    BY <1>1
  <2> QED  BY <1>1, <2>1, <2>2, <2>3
<1>5. (n * k) \div (d * k) = q /\ (n * k) % (d * k) = r * k
  <2> DEFINE D == d * k
             R == r * k
  <2>1. D \in Nat \ {0} /\ R \in 0 .. D - 1
    BY <1>2, <1>3
  <2> HIDE DEF D, R
  <2>2. (q * D + R) \div D = q /\ (q * D + R) % D = R
    BY <1>1, <2>1, DivisionUnique
  <2> QED  BY <1>4, <2>2 DEF D, R
<1>6. 2 * (r * k) > d * k <=> 2 * r > d
  BY <1>1
<1>7. 2 * (r * k) = d * k <=> 2 * r = d
  BY <1>1
<1> QED  BY <1>5, <1>6, <1>7 DEF RoundHalfEven

-----------------------------------------------------------------------------
(***************************************************************************)
(* What is billed.                                                         *)
(***************************************************************************)
LEMMA CentsType ==
    ASSUME NEW n \in Int, NEW d \in Nat \ {0}
    PROVE  Cents(n, d) \in Int
<1>1. Grain \in Nat \ {0}
  BY ParcelsAssumption
<1>2. d * Grain \in Nat \ {0}
  BY <1>1, TimesPositive
<1>3. RoundHalfEven(n, d * Grain) \in Int
  BY <1>2, RoundIsInt
<1> QED  BY <1>1, <1>3 DEF Cents

LEMMA CentsMonotone ==
    ASSUME NEW m \in Int, NEW n \in Int, NEW d \in Nat \ {0}, m <= n
    PROVE  Cents(m, d) <= Cents(n, d)
<1>1. Grain \in Nat \ {0}
  BY ParcelsAssumption
<1>2. d * Grain \in Nat \ {0}
  BY <1>1, TimesPositive
<1>3. /\ RoundHalfEven(m, d * Grain) \in Int /\ RoundHalfEven(n, d * Grain) \in Int
      /\ RoundHalfEven(m, d * Grain) <= RoundHalfEven(n, d * Grain)
  BY <1>2, RoundIsInt, RoundMonotone
<1> QED  BY <1>1, <1>3, TimesMonotone DEF Cents

LEMMA CentsZero == ASSUME NEW d \in Nat \ {0} PROVE Cents(0, d) = 0
<1>1. Grain \in Nat \ {0}
  BY ParcelsAssumption
<1>2. d * Grain \in Nat \ {0}
  BY <1>1, TimesPositive
<1>3. RoundHalfEven(0, d * Grain) = 0
  BY <1>2, RoundZero
<1> QED  BY <1>1, <1>3 DEF Cents

LEMMA CentsNat == ASSUME NEW n \in Nat, NEW d \in Nat \ {0} PROVE Cents(n, d) \in Nat
<1>1. Cents(n, d) \in Int /\ Cents(0, d) <= Cents(n, d) /\ Cents(0, d) = 0
  BY CentsType, CentsMonotone, CentsZero
<1> QED  BY <1>1

\* n whole lots of k over k is n.
LEMMA CentsCancel ==
    ASSUME NEW n \in Nat, NEW k \in Nat \ {0}
    PROVE  Cents(n * k, k) = Cents(n, 1)
<1>1. Grain \in Nat \ {0}
  BY ParcelsAssumption
<1> n \in Int
  OBVIOUS
<1>2. RoundHalfEven(n * k, Grain * k) = RoundHalfEven(n, Grain)
  BY <1>1, RoundCancel, Zenon
<1>3. Grain * k = k * Grain /\ 1 * Grain = Grain
  BY <1>1
<1> QED  BY <1>2, <1>3 DEF Cents

\* What a share owes grows with the units gone, from nothing to the whole of it.
LEMMA OwedRange ==
    ASSUME NEW s \in ShareType, NEW q \in Nat \ {0}, NEW c \in 0 .. q
    PROVE  /\ Owed(s, c, q) \in 0 .. Cents(s.total, 1)
           /\ Owed(s, 0, q) = 0
           /\ Owed(s, c, q) \in Nat
           /\ \A b \in 0 .. c : Owed(s, b, q) \in Nat /\ Owed(s, b, q) <= Owed(s, c, q)
<1> DEFINE t == s.total
<1>1. t \in Nat /\ s.known \in BOOLEAN /\ Cents(t, 1) \in Nat
  BY CentsNat DEF ShareType
<1> HIDE DEF t
<1>2. \A b \in 0 .. q : t * b \in Nat /\ Cents(t * b, q) \in Nat
  BY <1>1, TimesNat, CentsNat
<1>3. \A b \in 0 .. q, a \in 0 .. q : a <= b => Cents(t * a, q) <= Cents(t * b, q)
  BY <1>1, <1>2, TimesMonotone, CentsMonotone
<1>4. Cents(t * q, q) = Cents(t, 1) /\ Cents(t * 0, q) = 0
  BY <1>1, CentsCancel, CentsZero
<1>5. Cents(t * c, q) <= Cents(t, 1) /\ Cents(t * c, q) \in Nat
  BY <1>2, <1>3, <1>4
<1> QED  BY <1>1, <1>2, <1>3, <1>4, <1>5 DEF Owed, t

-----------------------------------------------------------------------------
(***************************************************************************)
(* A parcel is sound when its bills are what the units gone from it owe;   *)
(* a parcel begun again is fresh until a sale takes from it.               *)
(***************************************************************************)
Fresh(p) ==
    /\ p.remaining = p.quantity
    /\ \A n \in ShareNames : p.share[n].allotted = 0

Bills(p) ==
    \A n \in ShareNames :
        p.share[n].allotted =
            IF p.quantity = 0 THEN 0
            ELSE Owed(p.share[n], p.quantity - p.remaining, p.quantity)

Sound(p) ==
    /\ p \in ParcelType
    /\ p.remaining <= p.quantity
    /\ Bills(p)
    /\ ~p.deemed => \A n \in ShareNames \ {"cost"} : p.share[n] = Nil

Same(p, r) == r.id = p.id /\ r.acquired = p.acquired

LEMMA ShareSound ==
    ASSUME NEW known \in BOOLEAN, NEW total \in Nat
    PROVE  /\ Share(known, total) \in ShareType
           /\ Share(known, total).allotted = 0
           /\ Nil \in ShareType /\ Nil.allotted = 0
BY DEF Share, ShareType, Nil

LEMMA RestartSound ==
    ASSUME NEW s \in ShareType, NEW known \in BOOLEAN, NEW change \in Int
    PROVE  /\ Restart(s, known, change) \in ShareType
           /\ Restart(s, known, change).allotted = 0
           /\ Beyond(s, known, change) \in Nat
           /\ Restart(s, TRUE, 0) \in ShareType /\ Restart(s, TRUE, 0).allotted = 0
<1>1. Held(s) \in Int /\ Held(s) + change \in Int
  BY DEF Held, ShareType
<1>2. s.known \in BOOLEAN
  BY DEF ShareType
<1> QED  BY <1>1, <1>2 DEF Restart, Beyond, Share, ShareType

LEMMA NothingBeyond == ASSUME NEW s \in ShareType PROVE Beyond(s, TRUE, 0) \in Nat
BY DEF Beyond, Held, ShareType

LEMMA FreshBills ==
    ASSUME NEW p \in ParcelType, Fresh(p)
    PROVE  Bills(p)
<1> SUFFICES ASSUME NEW n \in ShareNames, p.quantity # 0
             PROVE  Owed(p.share[n], 0, p.quantity) = 0
  BY DEF Bills, Fresh, ParcelType
<1>1. p.share[n] \in ShareType /\ p.quantity \in Nat \ {0}
  BY DEF ParcelType
<1> QED  BY <1>1, OwedRange

LEMMA RestartParcelSound ==
    ASSUME NEW p, Sound(p), NEW units \in Nat, NEW known \in BOOLEAN, NEW change \in Int
    PROVE  LET r == RestartParcel(p, units, known, change)
           IN  Sound(r) /\ Fresh(r) /\ Same(p, r) /\ r.deemed = p.deemed
<1> DEFINE r == RestartParcel(p, units, known, change)
           share == [n \in ShareNames |->
                        IF n \notin SharesOf(p) THEN p.share[n]
                        ELSE IF n \in {"cost", "after"} THEN Restart(p.share[n], known, change)
                        ELSE Restart(p.share[n], TRUE, 0)]
<1>1. \A n \in ShareNames : p.share[n] \in ShareType
  BY DEF Sound, ParcelType
<1>2. \A n \in ShareNames : share[n] \in ShareType /\ share[n].allotted = 0
  <2> SUFFICES ASSUME NEW n \in ShareNames
               PROVE  share[n] \in ShareType /\ share[n].allotted = 0
    OBVIOUS
  <2>1. CASE n \notin SharesOf(p)
    <3>1. ~p.deemed /\ n # "cost"
      BY <2>1 DEF SharesOf
    <3> QED  BY <2>1, <3>1, ShareSound DEF Sound
  <2>2. CASE n \in SharesOf(p)
    <3>1. /\ Restart(p.share[n], known, change) \in ShareType
          /\ Restart(p.share[n], known, change).allotted = 0
          /\ Restart(p.share[n], TRUE, 0) \in ShareType
          /\ Restart(p.share[n], TRUE, 0).allotted = 0
      BY <1>1, RestartSound
    <3>2. share[n] = Restart(p.share[n], known, change) \/ share[n] = Restart(p.share[n], TRUE, 0)
      BY <2>2
    <3> HIDE DEF share
    <3> QED  BY <3>1, <3>2
  <2> QED  BY <2>1, <2>2
<1>3. r = [p EXCEPT !.remaining = units, !.quantity = units, !.share = share]
  BY DEF RestartParcel
<1>4. share \in [ShareNames -> ShareType]
  BY <1>2
<1> HIDE DEF share
<1>5. /\ r \in ParcelType /\ r.share = share /\ r.remaining = units /\ r.quantity = units
      /\ r.deemed = p.deemed /\ r.id = p.id /\ r.acquired = p.acquired
  BY <1>3, <1>4 DEF Sound, ParcelType
<1>6. Fresh(r)
  BY <1>2, <1>5 DEF Fresh
<1>7. Bills(r)
  BY <1>5, <1>6, FreshBills
<1>8. ~p.deemed => \A n \in ShareNames \ {"cost"} : share[n] = Nil
  BY DEF Sound, SharesOf, share
<1> QED  BY <1>5, <1>6, <1>7, <1>8 DEF Sound, Same

LEMMA NilOwesNothing ==
    ASSUME NEW q \in Nat \ {0}, NEW c \in 0 .. q
    PROVE  Owed(Nil, c, q) = 0
<1>1. Nil \in ShareType /\ Nil.total = 0
  BY DEF Nil, Share, ShareType
<1>2. Owed(Nil, c, q) \in 0 .. Cents(Nil.total, 1)
  BY <1>1, OwedRange
<1>3. Cents(Nil.total, 1) = 0
  BY <1>1, CentsZero
<1> QED  BY <1>2, <1>3

\* Taking from a parcel that is not of no units, or has nothing known to bill.
LEMMA TakeSound ==
    ASSUME NEW p, Sound(p), NEW units \in 0 .. p.remaining,
           p.quantity = 0 => \A n \in SharesOf(p) : ~p.share[n].known
    PROVE  LET r == Take(p, units)
           IN  /\ Sound(r) /\ Same(p, r) /\ r.remaining = p.remaining - units
               /\ \A n \in ShareNames : Billed(p, r, n) \in Nat
<1> DEFINE r == Take(p, units)
           left == p.remaining - units
           q == p.quantity
           share == [n \in ShareNames |->
                        IF n \notin SharesOf(p) THEN p.share[n]
                        ELSE [p.share[n] EXCEPT !.allotted = Owed(p.share[n], q - left, q)]]
<1>1. /\ \A n \in ShareNames : p.share[n] \in ShareType
      /\ p.remaining \in Nat /\ q \in Nat /\ p.remaining <= q
      /\ left \in 0 .. p.remaining
  BY DEF Sound, ParcelType
<1>2. \A n \in ShareNames :
        /\ share[n] \in ShareType
        /\ share[n].allotted = IF q = 0 THEN 0 ELSE Owed(share[n], q - left, q)
        /\ share[n].allotted - p.share[n].allotted \in Nat
  <2> SUFFICES ASSUME NEW n \in ShareNames
               PROVE  /\ share[n] \in ShareType
                      /\ share[n].allotted = IF q = 0 THEN 0 ELSE Owed(share[n], q - left, q)
                      /\ share[n].allotted - p.share[n].allotted \in Nat
    OBVIOUS
  <2>1. CASE n \notin SharesOf(p)
    <3>1. share[n] = Nil /\ p.share[n] = Nil
      BY <2>1 DEF SharesOf, Sound
    <3>2. q # 0 => Owed(Nil, q - left, q) = 0
      BY <1>1, NilOwesNothing
    <3> HIDE DEF share
    <3>3. Nil \in ShareType /\ Nil.allotted = 0
      BY DEF Nil, Share, ShareType
    <3> QED  BY <3>1, <3>2, <3>3
  <2>2. CASE n \in SharesOf(p)
    <3> DEFINE s == p.share[n]
               owed == Owed(s, q - left, q)
    <3>1. share[n] = [s EXCEPT !.allotted = owed]
      BY <2>2
    <3> HIDE DEF share
    <3>2. Owed(share[n], q - left, q) = owed
      BY <1>1, <3>1 DEF Owed, ShareType
    <3>3. CASE q = 0
      <4>1. owed = 0 /\ s.allotted = 0
        BY <1>1, <2>2, <3>3 DEF Owed, Sound, Bills
      <4> QED  BY <1>1, <3>1, <3>3, <4>1 DEF ShareType
    <3>4. CASE q # 0
      <4>1. /\ owed \in Nat
            /\ Owed(s, q - p.remaining, q) \in Nat /\ Owed(s, q - p.remaining, q) <= owed
        <5>1. q - left \in 0 .. q /\ q - p.remaining \in 0 .. q - left
          BY <1>1
        <5>2. Owed(s, q - left, q) \in Nat
          BY <1>1, <3>4, <5>1, OwedRange
        <5>3. /\ Owed(s, q - p.remaining, q) \in Nat
              /\ Owed(s, q - p.remaining, q) <= Owed(s, q - left, q)
          BY <1>1, <3>4, <5>1, OwedRange
        <5> QED  BY <5>2, <5>3
      <4>2. s.allotted = Owed(s, q - p.remaining, q)
        BY <3>4 DEF Sound, Bills
      <4> HIDE DEF owed
      <4>3. share[n] \in ShareType /\ share[n].allotted = owed
        BY <1>1, <3>1, <4>1 DEF ShareType
      <4> QED  BY <3>2, <3>4, <4>1, <4>2, <4>3
    <3> QED  BY <3>3, <3>4
  <2> QED  BY <2>1, <2>2
<1>3. r = [p EXCEPT !.remaining = left, !.share = share]
  BY DEF Take
<1>4. share \in [ShareNames -> ShareType]
  BY <1>2
<1>5. ~p.deemed => \A n \in ShareNames \ {"cost"} : share[n] = Nil
  BY DEF Sound, SharesOf
<1> HIDE DEF share, left, r
<1>6. /\ r \in ParcelType /\ r.share = share /\ r.remaining = left /\ r.quantity = q
      /\ r.deemed = p.deemed /\ r.id = p.id /\ r.acquired = p.acquired
  <2>1. p \in ParcelType /\ left \in Nat
    BY <1>1 DEF Sound
  <2> QED  BY <2>1, <1>3, <1>4 DEF ParcelType
<1>7. Bills(r)
  BY <1>2, <1>6 DEF Bills
<1> QED  BY <1>1, <1>2, <1>5, <1>6, <1>7 DEF Sound, Same, Billed, left, r

\* What a parcel takes over from another moves its costs and no bill.
LEMMA AbsorbedSound ==
    ASSUME NEW p, Sound(p), Fresh(p), NEW o, Sound(o), Fresh(o)
    PROVE  LET r == Absorbed(p, o)
           IN  Sound(r) /\ Fresh(r) /\ Same(p, r)
<1> DEFINE r == Absorbed(p, o)
           share == [n \in ShareNames |->
                       IF n = "cost" THEN Joined(p.share[n], o.share[n], o.share[n].total)
                       ELSE IF p.deemed /\ o.deemed
                            THEN Joined(p.share[n], o.share[n], Held(o.share[n]))
                       ELSE p.share[n]]
<1>1. p \in ParcelType /\ o \in ParcelType
  BY DEF Sound
<1>2. \A n \in ShareNames : share[n] \in ShareType /\ share[n].allotted = 0
  <2> SUFFICES ASSUME NEW n \in ShareNames
               PROVE  share[n] \in ShareType /\ share[n].allotted = 0
    OBVIOUS
  <2> DEFINE a == p.share[n]
             b == o.share[n]
  <2>1. a \in ShareType /\ b \in ShareType /\ a.allotted = 0 /\ b.allotted = 0
    BY <1>1 DEF ParcelType, Fresh
  <2> HIDE DEF a, b
  <2>2. Held(b) = b.total
    BY <2>1 DEF Held, ShareType
  <2>3. Joined(a, b, b.total) \in ShareType /\ Joined(a, b, b.total).allotted = 0
    BY <2>1 DEF Joined, ShareType
  <2>4. share[n] = Joined(a, b, b.total) \/ share[n] = a
    BY <2>2 DEF a, b
  <2> HIDE DEF share
  <2> QED  BY <2>1, <2>3, <2>4
<1>3. r = [p EXCEPT !.share = share]
  BY DEF Absorbed
<1>4. share \in [ShareNames -> ShareType]
  BY <1>2
<1>5. ~p.deemed => \A n \in ShareNames \ {"cost"} : share[n] = Nil
  BY DEF Sound
<1> HIDE DEF share, r
<1>6. /\ r \in ParcelType /\ r.share = share /\ r.remaining = p.remaining
      /\ r.quantity = p.quantity
      /\ r.deemed = p.deemed /\ r.id = p.id /\ r.acquired = p.acquired
  BY <1>1, <1>3, <1>4 DEF ParcelType
<1>7. Fresh(r)
  BY <1>2, <1>6 DEF Fresh
<1>8. Bills(r)
  BY <1>6, <1>7, FreshBills
<1> QED  BY <1>5, <1>6, <1>7, <1>8 DEF Sound, Same, r

LEMMA DeemedSound ==
    ASSUME NEW p, Sound(p), NEW known \in BOOLEAN, NEW price \in Nat
    PROVE  LET r == Deemed(p, known, price)
           IN  Sound(r) /\ Same(p, r)
<1> DEFINE r == Deemed(p, known, price)
           again == RestartParcel(p, p.remaining, TRUE, 0)
           value == Share(known, p.remaining * price)
           share == [cost |-> again.share["cost"], value |-> value,
                     deferred |-> again.share["cost"], after |-> value]
<1>1. p.remaining \in Nat /\ p.remaining * price \in Nat
  BY TimesNat DEF Sound, ParcelType
<1>2. Sound(again) /\ Fresh(again) /\ Same(p, again)
  <2>1. TRUE \in BOOLEAN /\ 0 \in Int
    OBVIOUS
  <2> HIDE DEF again
  <2> QED  BY <1>1, <2>1, RestartParcelSound, Zenon DEF again
<1>3. value \in ShareType /\ value.allotted = 0
  BY <1>1, ShareSound
<1>4. again.share["cost"] \in ShareType /\ again.share["cost"].allotted = 0
  BY <1>2 DEF Sound, Fresh, ParcelType, ShareNames
<1>5. r = [again EXCEPT !.deemed = TRUE, !.share = share]
  BY DEF Deemed
<1> HIDE DEF again, value, r
<1>6. share \in [ShareNames -> ShareType] /\ \A n \in ShareNames : share[n].allotted = 0
  BY <1>3, <1>4 DEF ShareNames
<1> HIDE DEF share
<1>7. again \in ParcelType /\ again.remaining = again.quantity
  BY <1>2 DEF Sound, Fresh
<1>8. /\ r \in ParcelType /\ r.share = share /\ r.remaining = r.quantity /\ r.deemed
      /\ r.id = again.id /\ r.acquired = again.acquired
  BY <1>5, <1>6, <1>7 DEF ParcelType
<1>9. Fresh(r)
  BY <1>6, <1>8 DEF Fresh
<1>10. Bills(r)
  BY <1>8, <1>9, FreshBills
<1> QED  BY <1>2, <1>8, <1>10 DEF Sound, Same, ParcelType, r

LEMMA NewParcelSound ==
    ASSUME rows \in Nat, day \in Nat,
           NEW units \in Nat, NEW known \in BOOLEAN, NEW outlay \in Nat
    PROVE  LET r == NewParcel(units, known, outlay)
           IN  Sound(r) /\ r.id = rows + 1 /\ r.acquired = day
<1> DEFINE r == NewParcel(units, known, outlay)
           share == [n \in ShareNames |-> IF n = "cost" THEN Share(known, outlay) ELSE Nil]
<1>1. \A n \in ShareNames : share[n] \in ShareType /\ share[n].allotted = 0
  BY ShareSound DEF Nil
<1>2. share \in [ShareNames -> ShareType]
  BY <1>1
<1>3. \A n \in ShareNames \ {"cost"} : share[n] = Nil
  OBVIOUS
<1>4. r = [id |-> rows + 1, acquired |-> day, remaining |-> units, quantity |-> units,
           deemed |-> FALSE, share |-> share]
  BY DEF NewParcel
<1> HIDE DEF share, r
<1>5. r \in ParcelType /\ r.share = share /\ r.remaining = r.quantity
  BY <1>2, <1>4 DEF ParcelType
<1>6. Fresh(r)
  BY <1>1, <1>5 DEF Fresh
<1>7. Bills(r)
  BY <1>5, <1>6, FreshBills
<1>8. r.id = rows + 1 /\ r.acquired = day
  BY <1>4
<1> QED  BY <1>3, <1>5, <1>7, <1>8 DEF Sound, ParcelType, r

-----------------------------------------------------------------------------
(***************************************************************************)
(* The parcels held: all sound, in the order of their ids and of the days  *)
(* they were acquired, none of a row or a day not reached.                 *)
(***************************************************************************)
Queue(s, lastRow, today) ==
    /\ s \in Seq(ParcelType)
    /\ \A k \in 1 .. Len(s) :
          Sound(s[k]) /\ s[k].id <= lastRow /\ s[k].acquired <= today
    /\ \A j, k \in 1 .. Len(s) :
          j < k => s[j].id < s[k].id /\ s[j].acquired <= s[k].acquired

LEMMA QueueLater ==
    ASSUME NEW lastRow \in Nat, NEW today \in Nat, NEW s, Queue(s, lastRow, today)
    PROVE  Queue(s, lastRow + 1, today) /\ Queue(s, lastRow, today + 1)
<1>1. \A k \in 1 .. Len(s) : s[k].id \in Nat /\ s[k].acquired \in Nat
  BY DEF Queue, Sound, ParcelType
<1> QED  BY <1>1 DEF Queue

LEMMA QueueReplace ==
    ASSUME NEW lastRow \in Nat, NEW today \in Nat, NEW s, Queue(s, lastRow, today),
           NEW i \in 1 .. Len(s), NEW r, Sound(r), Same(s[i], r)
    PROVE  /\ Queue([s EXCEPT ![i] = r], lastRow, today)
           /\ Len([s EXCEPT ![i] = r]) = Len(s)
           /\ \A k \in 1 .. Len(s) : [s EXCEPT ![i] = r][k] = IF k = i THEN r ELSE s[k]
<1> DEFINE t == [s EXCEPT ![i] = r]
<1>1. s \in Seq(ParcelType) /\ r \in ParcelType
  BY DEF Queue, Sound
<1>2. t \in Seq(ParcelType) /\ Len(t) = Len(s)
  BY <1>1
<1>3. \A k \in 1 .. Len(s) : t[k] = IF k = i THEN r ELSE s[k]
  BY <1>1
<1> HIDE DEF t
<1>4. \A k \in 1 .. Len(s) : Sound(t[k]) /\ Same(s[k], t[k])
  BY <1>3 DEF Queue, Same
<1>5. Queue(t, lastRow, today)
  BY <1>2, <1>4 DEF Queue, Same
<1> QED  BY <1>2, <1>3, <1>5 DEF t

LEMMA QueueTail ==
    ASSUME NEW lastRow \in Nat, NEW today \in Nat, NEW s, Queue(s, lastRow, today), s # <<>>
    PROVE  /\ Queue(Tail(s), lastRow, today)
           /\ \A k \in 1 .. Len(Tail(s)) : k + 1 \in 1 .. Len(s) /\ Tail(s)[k] = s[k + 1]
<1>1. s \in Seq(ParcelType)
  BY DEF Queue
<1>2. /\ Tail(s) \in Seq(ParcelType) /\ Len(Tail(s)) = Len(s) - 1
      /\ \A k \in 1 .. Len(s) - 1 : Tail(s)[k] = s[k + 1]
  BY <1>1
<1> QED  BY <1>2 DEF Queue

LEMMA RemoveAtItems ==
    ASSUME NEW S, NEW s \in Seq(S), NEW i \in 1 .. Len(s)
    PROVE  /\ RemoveAt(s, i) \in Seq(S) /\ Len(RemoveAt(s, i)) = Len(s) - 1
           /\ \A k \in 1 .. Len(s) - 1 : RemoveAt(s, i)[k] = s[IF k < i THEN k ELSE k + 1]
<1> DEFINE a == SubSeq(s, 1, i - 1)
           b == SubSeq(s, i + 1, Len(s))
<1>1. a \in Seq(S) /\ Len(a) = i - 1 /\ \A k \in 1 .. i - 1 : a[k] = s[k]
  OBVIOUS
<1>2. b \in Seq(S) /\ Len(b) = Len(s) - i /\ \A k \in 1 .. Len(s) - i : b[k] = s[k + i]
  <2>1. CASE i = Len(s)
    <3>1. b = << >>
      BY <2>1
    <3> HIDE DEF b
    <3> QED  BY <2>1, <3>1
  <2>2. CASE i < Len(s)
    BY <2>2
  <2> QED  BY <2>1, <2>2
<1> HIDE DEF a, b
<1>3. /\ a \o b \in Seq(S) /\ Len(a \o b) = Len(a) + Len(b)
      /\ \A k \in 1 .. Len(a) + Len(b) :
            (a \o b)[k] = IF k <= Len(a) THEN a[k] ELSE b[k - Len(a)]
  BY <1>1, <1>2, ConcatProperties
<1>4. \A k \in 1 .. Len(s) - 1 : (a \o b)[k] = s[IF k < i THEN k ELSE k + 1]
  BY <1>1, <1>2, <1>3
<1>5. Len(a \o b) = Len(s) - 1
  BY <1>1, <1>2, <1>3
<1>6. RemoveAt(s, i) = a \o b
  BY DEF RemoveAt, a, b
<1> QED  BY <1>3, <1>4, <1>5, <1>6

LEMMA QueueRemove ==
    ASSUME NEW lastRow \in Nat, NEW today \in Nat, NEW s, Queue(s, lastRow, today),
           NEW i \in 1 .. Len(s)
    PROVE  /\ Queue(RemoveAt(s, i), lastRow, today)
           /\ \A k \in 1 .. Len(RemoveAt(s, i)) :
                 \E m \in 1 .. Len(s) : RemoveAt(s, i)[k] = s[m]
<1> DEFINE t == RemoveAt(s, i)
           from(k) == IF k < i THEN k ELSE k + 1
<1>1. s \in Seq(ParcelType) /\ Len(s) \in Nat
  BY DEF Queue
<1>2. /\ t \in Seq(ParcelType) /\ Len(t) = Len(s) - 1
      /\ \A k \in 1 .. Len(s) - 1 : t[k] = s[from(k)]
  BY <1>1, RemoveAtItems DEF from
<1> HIDE DEF t
<1>3. /\ \A k \in 1 .. Len(t) : from(k) \in 1 .. Len(s) /\ t[k] = s[from(k)]
      /\ \A j, k \in 1 .. Len(t) : j < k => from(j) < from(k)
  BY <1>1, <1>2
<1> HIDE DEF from
<1> QED  BY <1>2, <1>3 DEF Queue, t

LEMMA QueueAppend ==
    ASSUME NEW lastRow \in Nat, NEW today \in Nat, NEW s, Queue(s, lastRow, today),
           NEW r, Sound(r), r.id = lastRow + 1, r.acquired = today
    PROVE  Queue(Append(s, r), lastRow + 1, today)
<1> DEFINE t == Append(s, r)
<1>1. s \in Seq(ParcelType) /\ r \in ParcelType /\ Len(s) \in Nat
  BY DEF Queue, Sound
<1>2. /\ t \in Seq(ParcelType) /\ Len(t) = Len(s) + 1
      /\ \A k \in 1 .. Len(s) : t[k] = s[k]
      /\ t[Len(s) + 1] = r
  BY <1>1
<1> HIDE DEF t
<1>3. \A k \in 1 .. Len(s) : s[k] \in ParcelType /\ s[k].id \in Nat
  <2>1. \A k \in 1 .. Len(s) : s[k] \in ParcelType
    BY <1>1
  <2> QED  BY <2>1 DEF ParcelType
<1>4. \A k \in 1 .. Len(t) : Sound(t[k]) /\ t[k].id <= lastRow + 1 /\ t[k].acquired <= today
  BY <1>1, <1>2, <1>3 DEF Queue
<1>5. \A j, k \in 1 .. Len(t) : j < k => t[j].id < t[k].id /\ t[j].acquired <= t[k].acquired
  <2> SUFFICES ASSUME NEW j \in 1 .. Len(t), NEW k \in 1 .. Len(t), j < k
               PROVE  t[j].id < t[k].id /\ t[j].acquired <= t[k].acquired
    OBVIOUS
  <2>1. j \in 1 .. Len(s) /\ t[j] = s[j]
    BY <1>1, <1>2
  <2>2. CASE k \in 1 .. Len(s)
    BY <1>2, <2>1, <2>2 DEF Queue
  <2>3. CASE k = Len(s) + 1
    <3>1. s[j].id \in Nat /\ s[j].id <= lastRow /\ s[j].acquired <= today
      BY <1>3, <2>1 DEF Queue
    <3>2. t[k].id = lastRow + 1 /\ t[k].acquired = today
      BY <1>2, <2>3
    <3> QED  BY <2>1, <3>1, <3>2
  <2> QED  BY <1>1, <1>2, <2>2, <2>3
<1> QED  BY <1>2, <1>4, <1>5 DEF Queue, t

-----------------------------------------------------------------------------
(***************************************************************************)
(* The inductive invariant.  BilledToDate needs the parcels sound, and     *)
(* BillsInRange a sale never to take more than is left of a parcel, nor a  *)
(* split to leave one with fewer units than none.  The last parcel of a    *)
(* split gets the new total less what the others had, so the units seen    *)
(* must not pass the units tallied: the tally's running totals, `held[k]`  *)
(* after k parcels, are the witness of that.                               *)
(***************************************************************************)
RunningTotals(s, held, from, to, total) ==
    /\ held \in [Nat -> Nat]
    /\ \A k \in from .. to :
          held[k] = held[k - 1] + s[k].remaining /\ held[k] <= total

UsesOK ==
    \A k \in 1 .. Len(uses) :
        /\ uses[k].cost >= 0
        /\ row.kind = "sell" => \A m \in 1 .. Len(fifo) : uses[k].id <= fifo[m].id

SellOK ==
    job.do = "sell" =>
        row.kind = "sell" /\ job.i = 1 /\ job.held # 0 /\ job.seen <= job.held

TallyOK ==
    job.do = "tally" =>
        /\ row.kind \in {"split", "adjust"} /\ job.i \in 1 .. Len(fifo) + 1
        /\ \E held : /\ RunningTotals(fifo, held, 1, job.i - 1, job.held)
                     /\ held[0] = 0 /\ held[job.i - 1] = job.held

ShareOK ==
    job.do = "share" =>
        /\ row.kind = "split" /\ job.held # 0
        /\ job.given =
              RoundHalfEven(SplitUnits(job.held, row.new, row.old) * job.seen, job.held)
        /\ \A k \in 1 .. job.i - 1 : k \in 1 .. Len(fifo) => Fresh(fifo[k])
        /\ job.i \in 1 .. Len(fifo)
        /\ \E held : /\ RunningTotals(fifo, held, job.i, Len(fifo), job.held)
                     /\ held[job.i - 1] = job.seen

AbsorbOK ==
    job.do = "absorb" => row.kind = "split" /\ \A k \in 1 .. Len(fifo) : Fresh(fifo[k])

AdjustOK == job.do = "adjust" => row.kind = "adjust" /\ job.held # 0

DeemOK ==
    /\ job.do = "deem" => row.kind = "deem"
    /\ row.kind = "deem" => row.amount >= 0

IInv ==
    /\ TypeOK /\ Queue(fifo, rows, day) /\ UsesOK
    /\ SellOK /\ TallyOK /\ ShareOK /\ AbsorbOK /\ AdjustOK /\ DeemOK

LEMMA InitIInv == ASSUME Init PROVE IInv
<1>1. TypeOK
  <2>1. deemed \in BOOLEAN
    <3>1. deemed = (NewRules <= 1)
      BY DEF Init
    <3> QED  BY <3>1
  <2>2. day \in Nat /\ traded \in BOOLEAN /\ rows \in Nat /\ balance \in Int
    <3>1. day = 1 /\ rows = 0 /\ balance = 0 /\ traded \in BOOLEAN
      BY Zenon DEF Init
    <3>2. day \in Nat /\ rows \in Nat /\ balance \in Int
      BY <3>1
    <3> QED  BY <3>1, <3>2
  <2>3. fifo \in Seq(ParcelType) /\ uses \in Seq(UseType)
    <3>1. fifo = <<>> /\ uses = <<>>
      BY DEF Init
    <3> QED  BY <3>1
  <2>4. row \in RowType
    BY DEF Init, Row, RowType
  <2>5. job \in JobType
    BY DEF Init, Idle, Job, JobType
  <2>6. book \in BookType
    BY DEF Init, BookType
  <2> QED  BY <2>1, <2>2, <2>3, <2>4, <2>5, <2>6 DEF TypeOK
<1>2. Queue(fifo, rows, day)
  <2>1. fifo \in Seq(ParcelType) /\ Len(fifo) = 0
    BY DEF Init
  <2> QED  BY <2>1 DEF Queue
<1>3. UsesOK
  BY DEF Init, UsesOK
<1>4. job.do = "idle" /\ row.kind = "none"
  BY DEF Init, Idle, Job, Row
<1> QED
  BY <1>1, <1>2, <1>3, <1>4
     DEF IInv, SellOK, TallyOK, ShareOK, AbsorbOK, AdjustOK, DeemOK

LEMMA StutterIInv == ASSUME IInv, UNCHANGED vars PROVE IInv'
BY DEF vars, IInv, TypeOK, UsesOK, SellOK, TallyOK, ShareOK, AbsorbOK, AdjustOK, DeemOK,
       RunningTotals

LEMMA BookKept ==
    ASSUME NEW b \in BookType, NEW known \in BOOLEAN,
           NEW m \in Int, NEW n \in Int, NEW c \in Nat
    PROVE  /\ (b.known /\ known) \in BOOLEAN
           /\ [b EXCEPT !.known = @ /\ known, !.paid = @ + m] \in BookType
           /\ [b EXCEPT !.known = @ /\ known] \in BookType
           /\ [b EXCEPT !.paid = @ + m] \in BookType
           /\ [b EXCEPT !.billed = @ + m, !.popped = @ + c] \in BookType
           /\ [b EXCEPT !.paid = @ + m + n] \in BookType
<1> DEFINE both == b.known /\ known
<1>1. both \in BOOLEAN
  BY Zenon
<1> HIDE DEF both
<1>2. [b EXCEPT !.known = both] \in BookType
  BY <1>1 DEF BookType
<1>3. [b EXCEPT !.known = both, !.paid = @ + m] \in BookType
  <2> DEFINE sum == b.paid + m
  <2>1. sum \in Int
    BY DEF BookType
  <2> HIDE DEF sum
  <2>2. [b EXCEPT !.known = both, !.paid = sum] \in BookType
    BY <1>1, <2>1 DEF BookType
  <2> QED  BY <2>2 DEF sum
<1>4. [b EXCEPT !.paid = @ + m] \in BookType
  BY DEF BookType
<1>5. [b EXCEPT !.paid = @ + m + n] \in BookType
  BY DEF BookType
<1>6. [b EXCEPT !.billed = @ + m, !.popped = @ + c] \in BookType
  <2> DEFINE sum == b.billed + m
             count == b.popped + c
  <2>1. sum \in Int /\ count \in Nat
    BY DEF BookType
  <2> HIDE DEF sum, count
  <2>2. [b EXCEPT !.billed = sum, !.popped = count] \in BookType
    BY <2>1 DEF BookType
  <2> QED  BY <2>2 DEF sum, count
<1> QED  BY <1>1, <1>2, <1>3, <1>4, <1>5, <1>6, Zenon DEF both

LEMMA BuyIInv ==
    ASSUME IInv, NEW units \in Quantities, NEW outlay \in Costs, NEW known \in RateKnown,
           Buy(units, outlay, known)
    PROVE  IInv'
<1>1. units \in Nat /\ outlay \in Nat /\ known \in BOOLEAN
  BY ParcelsAssumption
<1>2. /\ job = Idle /\ job' = Idle /\ uses' = <<>> /\ rows' = rows + 1 /\ day' = day
      /\ row' = Row("buy", units, outlay, known, <<1, 1>>)
      /\ fifo' = Append(fifo, NewParcel(units, known, outlay))
      /\ balance' = balance + units /\ traded' = TRUE /\ deemed' = deemed
      /\ book' = [book EXCEPT !.known = @ /\ known, !.paid = @ + outlay]
  BY DEF Buy, Walk
<1>3. Queue(fifo', rows', day')
  <2> DEFINE p == NewParcel(units, known, outlay)
  <2>1. rows \in Nat /\ day \in Nat /\ Queue(fifo, rows, day)
    BY DEF IInv, TypeOK
  <2>2. Sound(p) /\ p.id = rows + 1 /\ p.acquired = day
    BY <1>1, <2>1, NewParcelSound
  <2> HIDE DEF p
  <2>3. Queue(Append(fifo, p), rows + 1, day)
    BY <2>1, <2>2, QueueAppend
  <2> QED  BY <1>2, <2>3 DEF p
<1>4. TypeOK'
  <2>1. fifo' \in Seq(ParcelType)
    BY <1>3 DEF Queue
  <2>2. row' \in RowType
    BY <1>1, <1>2 DEF Row, RowType
  <2>3. book' \in BookType
    <3>1. book \in BookType /\ outlay \in Int
      BY <1>1 DEF IInv, TypeOK
    <3>2. [book EXCEPT !.known = @ /\ known, !.paid = @ + outlay] \in BookType
      BY <1>1, <3>1, BookKept, Zenon
    <3> QED  BY <1>2, <3>2
  <2> QED  BY <1>1, <1>2, <2>1, <2>2, <2>3 DEF IInv, TypeOK
<1>5. job'.do = "idle" /\ row'.kind = "buy" /\ Len(uses') = 0
  BY <1>2 DEF Idle, Job, Row
<1> QED
  BY <1>3, <1>4, <1>5
     DEF IInv, UsesOK, SellOK, TallyOK, ShareOK, AbsorbOK, AdjustOK, DeemOK

LEMMA SellIInv ==
    ASSUME IInv, NEW units \in Quantities, NEW net \in Nets, NEW known \in RateKnown,
           Sell(units, net, known)
    PROVE  IInv'
<1>1. /\ units \in Nat \ {0} /\ known \in BOOLEAN /\ net * Grain \in Int
  BY ParcelsAssumption
<1>2. /\ rows' = rows + 1 /\ day' = day /\ uses' = <<>> /\ fifo' = fifo /\ book' = book
      /\ row' = Row("sell", units, net * Grain, known, <<1, 1>>)
      /\ job' = Job("sell", 1, units, 0, 0)
      /\ balance' = balance - units /\ traded' = TRUE /\ deemed' = deemed
  BY DEF Sell, Walk
<1>3. Queue(fifo', rows', day')
  BY <1>2, QueueLater DEF IInv, TypeOK
<1>4. row' \in RowType /\ row'.kind = "sell"
  BY <1>1, <1>2 DEF Row, RowType
<1>5. /\ job' \in JobType /\ job'.do = "sell" /\ job'.i = 1
      /\ job'.held # 0 /\ job'.seen <= job'.held
  BY <1>1, <1>2 DEF Job, JobType
<1>6. TypeOK'
  BY <1>1, <1>2, <1>4, <1>5 DEF IInv, TypeOK
<1> QED
  BY <1>2, <1>3, <1>4, <1>5, <1>6
     DEF IInv, UsesOK, SellOK, TallyOK, ShareOK, AbsorbOK, AdjustOK, DeemOK

\* Beginning to tally: nothing seen yet.
LEMMA TallyBegins ==
    ASSUME job' = Job("tally", 1, 0, 0, 0), row'.kind \in {"split", "adjust"},
           Len(fifo') \in Nat
    PROVE  TallyOK' /\ job' \in JobType /\ job'.do = "tally"
<1>1. /\ job' \in JobType /\ job'.do = "tally" /\ job'.i = 1 /\ job'.held = 0
  BY DEF Job, JobType
<1> DEFINE none == [n \in Nat |-> 0]
<1>2. /\ none \in [Nat -> Nat] /\ none[0] = 0
      /\ \A k \in 1 .. 0 : none[k] = none[k - 1] + fifo'[k].remaining /\ none[k] <= 0
  OBVIOUS
<1> HIDE DEF none
<1>3. RunningTotals(fifo', none, 1, 0, 0)
  BY <1>2 DEF RunningTotals
<1>4. TallyOK'
  <2>1. job'.i - 1 = 0 /\ none[job'.i - 1] = job'.held
    BY <1>1, <1>2
  <2>2. RunningTotals(fifo', none, 1, job'.i - 1, job'.held)
    BY <1>1, <1>3, <2>1
  <2>3. job'.i \in 1 .. Len(fifo') + 1
    BY <1>1
  <2>4. none[0] = 0
    BY <1>2
  <2> QED  BY <2>1, <2>2, <2>3, <2>4, Zenon DEF TallyOK
<1> QED  BY <1>1, <1>4

LEMMA SplitIInv ==
    ASSUME IInv, NEW ratio \in Ratios, Split(ratio[1], ratio[2])
    PROVE  IInv'
<1> DEFINE new == ratio[1]
           old == ratio[2]
<1>1. new \in Nat \ {0} /\ old \in Nat \ {0}
  BY ParcelsAssumption
<1>2. /\ rows' = rows + 1 /\ day' = day /\ uses' = <<>> /\ fifo' = fifo /\ book' = book
      /\ row' = Row("split", 0, 0, TRUE, <<new, old>>)
      /\ job' = Job("tally", 1, 0, 0, 0)
      /\ balance' = SplitUnits(balance, new, old) /\ traded' = traded /\ deemed' = deemed
  BY DEF Split, Walk
<1> HIDE DEF new, old
<1>3. balance' \in Int
  <2>1. balance \in Int /\ balance * new \in Int
    BY <1>1 DEF IInv, TypeOK
  <2> QED  BY <1>1, <1>2, <2>1, RoundIsInt DEF SplitUnits
<1>4. Queue(fifo', rows', day')
  BY <1>2, QueueLater DEF IInv, TypeOK
<1>5. row' \in RowType /\ row'.kind = "split"
  BY <1>1, <1>2 DEF Row, RowType
<1>6. TallyOK' /\ job' \in JobType /\ job'.do = "tally"
  <2>1. Len(fifo') \in Nat
    BY <1>4 DEF Queue
  <2> QED  BY <1>2, <1>5, <2>1, TallyBegins
<1>7. TypeOK'
  <2>1. rows + 1 \in Nat /\ <<>> \in Seq(UseType)
    BY DEF IInv, TypeOK
  <2> QED  BY <1>2, <1>3, <1>5, <1>6, <2>1, Zenon DEF IInv, TypeOK
<1>8. Len(uses') = 0
  BY <1>2
<1> QED
  BY <1>4, <1>5, <1>6, <1>7, <1>8
     DEF IInv, UsesOK, SellOK, ShareOK, AbsorbOK, AdjustOK, DeemOK

LEMMA AdjustIInv ==
    ASSUME IInv, NEW change \in Changes, NEW known \in RateKnown, Adjust(change, known)
    PROVE  IInv'
<1>1. change \in Int /\ known \in BOOLEAN
  BY ParcelsAssumption
<1>2. /\ rows' = rows + 1 /\ day' = day /\ uses' = <<>> /\ fifo' = fifo
      /\ row' = Row("adjust", 0, change, known, <<1, 1>>)
      /\ job' = Job("tally", 1, 0, 0, 0)
      /\ book' = [book EXCEPT !.known = @ /\ known]
      /\ balance' = balance /\ traded' = traded /\ deemed' = deemed
  BY DEF Adjust, Walk
<1>3. book' \in BookType
  <2>1. book \in BookType
    BY DEF IInv, TypeOK
  <2>2. [book EXCEPT !.known = @ /\ known] \in BookType
    BY <1>1, <2>1, BookKept, Zenon
  <2> QED  BY <1>2, <2>2
<1>4. Queue(fifo', rows', day')
  BY <1>2, QueueLater DEF IInv, TypeOK
<1>5. row' \in RowType /\ row'.kind = "adjust"
  BY <1>1, <1>2 DEF Row, RowType
<1>6. TallyOK' /\ job' \in JobType /\ job'.do = "tally"
  <2>1. Len(fifo') \in Nat
    BY <1>4 DEF Queue
  <2> QED  BY <1>2, <1>5, <2>1, TallyBegins
<1>7. TypeOK'
  <2>1. rows + 1 \in Nat /\ <<>> \in Seq(UseType)
    BY DEF IInv, TypeOK
  <2> QED  BY <1>2, <1>3, <1>5, <1>6, <2>1, Zenon DEF IInv, TypeOK
<1>8. Len(uses') = 0
  BY <1>2
<1> QED
  BY <1>4, <1>5, <1>6, <1>7, <1>8
     DEF IInv, UsesOK, SellOK, ShareOK, AbsorbOK, AdjustOK, DeemOK

LEMMA NextDayIInv == ASSUME IInv, NextDay PROVE IInv'
<1>1. /\ job = Idle /\ day' = day + 1 /\ traded' = FALSE
      /\ rows' = rows /\ balance' = balance /\ fifo' = fifo
  BY DEF NextDay
<1>2. Queue(fifo', rows', day')
  BY <1>1, QueueLater DEF IInv, TypeOK
<1>3. CASE UNCHANGED <<row, deemed, job, uses, book>>
  <2>1. TypeOK'
    <3>1. day + 1 \in Nat
      BY DEF IInv, TypeOK
    <3> QED  BY <1>1, <1>3, <3>1, Zenon DEF IInv, TypeOK
  <2>2. job'.do = "idle"
    BY <1>1, <1>3 DEF Idle, Job
  <2> QED
    BY <1>1, <1>2, <1>3, <2>1, <2>2
       DEF IInv, UsesOK, SellOK, TallyOK, ShareOK, AbsorbOK, AdjustOK, DeemOK
<1>4. CASE /\ deemed' = TRUE /\ uses' = <<>>
           /\ job' = Job("deem", 1, 0, 0, 0) /\ book' = book
           /\ \E known \in RateKnown, price \in Prices :
                 row' = Row("deem", 0, price, known, <<1, 1>>)
  <2>1. PICK known \in RateKnown, price \in Prices :
            row' = Row("deem", 0, price, known, <<1, 1>>)
    BY <1>4
  <2>2. known \in BOOLEAN /\ price \in Nat
    BY ParcelsAssumption
  <2>3. row' \in RowType /\ row'.kind = "deem" /\ row'.amount >= 0
    BY <2>1, <2>2 DEF Row, RowType
  <2>4. job' \in JobType /\ job'.do = "deem"
    BY <1>4 DEF Job, JobType
  <2>5. TypeOK'
    <3>1. day + 1 \in Nat /\ <<>> \in Seq(UseType)
      BY DEF IInv, TypeOK
    <3> QED  BY <1>1, <1>4, <2>3, <2>4, <3>1, Zenon DEF IInv, TypeOK
  <2> QED
    BY <1>2, <1>4, <2>3, <2>4, <2>5
       DEF IInv, UsesOK, SellOK, TallyOK, ShareOK, AbsorbOK, AdjustOK, DeemOK
<1> QED  BY <1>3, <1>4 DEF NextDay

-----------------------------------------------------------------------------
(***************************************************************************)
(* The loops.                                                              *)
(***************************************************************************)
\* A row is done, or the walk has stopped: nothing is asked of the job.
LEMMA StopsIInv ==
    ASSUME IInv, UNCHANGED <<day, traded, rows, row, balance, deemed, fifo, book>>,
           uses' = uses \/ uses' = <<>>,
           job' \in JobType, job'.do \in {"idle", "oversold", "crashed"}
    PROVE  IInv'
<1>1. TypeOK'
  <2>1. <<>> \in Seq(UseType)
    OBVIOUS
  <2> QED  BY <2>1, Zenon DEF IInv, TypeOK
<1>2. Queue(fifo', rows', day')
  BY DEF IInv
<1>3. UsesOK'
  BY DEF IInv, UsesOK
<1> QED
  BY <1>1, <1>2, <1>3 DEF IInv, SellOK, TallyOK, ShareOK, AbsorbOK, AdjustOK, DeemOK

LEMMA IdleType == Idle \in JobType /\ Idle.do = "idle"
BY DEF Idle, Job, JobType

LEMMA SoldIInv == ASSUME IInv, Sold PROVE IInv'
BY StopsIInv, IdleType DEF Sold, Fixed

LEMMA AllDeemedIInv == ASSUME IInv, AllDeemed PROVE IInv'
BY StopsIInv, IdleType DEF AllDeemed, Fixed

LEMMA OversellIInv == ASSUME IInv, Oversell PROVE IInv'
<1>1. job' \in JobType /\ job'.do = "oversold"
  BY DEF Oversell, IInv, TypeOK, JobType
<1> QED  BY <1>1, StopsIInv DEF Oversell, Fixed

LEMMA CrashIInv == ASSUME IInv, Crash PROVE IInv'
<1>1. job' \in JobType /\ job'.do = "crashed"
  BY DEF Crash, IInv, TypeOK, JobType
<1> QED  BY <1>1, StopsIInv DEF Crash, Fixed

\* What a step of a loop leaves alone, and the types it must keep.
LEMMA LoopKeeps ==
    ASSUME IInv, Fixed, Queue(fifo', rows, day),
           job' \in JobType, uses' \in Seq(UseType), book' \in BookType
    PROVE  TypeOK' /\ Queue(fifo', rows', day') /\ (row'.kind = "deem" => row'.amount >= 0)
<1>1. fifo' \in Seq(ParcelType)
  BY DEF Queue
<1>2. TypeOK'
  BY <1>1, Zenon DEF IInv, TypeOK, Fixed
<1>3. Queue(fifo', rows', day') /\ (row'.kind = "deem" => row'.amount >= 0)
  BY DEF IInv, DeemOK, Fixed
<1> QED  BY <1>2, <1>3

\* The parcel a loop is at.
LEMMA AtParcel ==
    ASSUME IInv, job.i \in 1 .. Len(fifo)
    PROVE  /\ Sound(At) /\ At \in ParcelType /\ At.remaining \in Nat /\ At.quantity \in Nat
           /\ At.remaining <= At.quantity /\ At.id \in Nat /\ At.acquired \in Nat
           /\ \A n \in ShareNames : At.share[n] \in ShareType
           /\ job.i \in Nat /\ Len(fifo) \in Nat
<1>1. Sound(At)
  BY DEF IInv, Queue, At
<1>2. At \in ParcelType /\ At.remaining <= At.quantity
  BY <1>1 DEF Sound
<1>3. job.i \in Nat /\ Len(fifo) \in Nat
  BY DEF IInv, TypeOK
<1> HIDE DEF At
<1> QED  BY <1>1, <1>2, <1>3 DEF ParcelType

LEMMA TallyIInv == ASSUME IInv, Tally PROVE IInv'
<1> DEFINE k == job.i
           r == At.remaining
<1>1. /\ job.do = "tally" /\ k \in 1 .. Len(fifo) /\ Fixed
      /\ job' = [job EXCEPT !.i = k + 1, !.held = job.held + r]
      /\ fifo' = fifo /\ uses' = uses /\ book' = book
  BY DEF Tally
<1>2. k \in Nat \ {0} /\ r \in Nat /\ job.held \in Nat /\ job \in JobType
  BY <1>1, AtParcel DEF IInv, TypeOK, JobType
<1>3. r = fifo[k].remaining
  BY DEF At
<1> HIDE DEF k, r
<1>4. /\ job' \in JobType /\ job'.do = "tally" /\ job'.i = k + 1
      /\ job'.held = job.held + r
  <2> DEFINE i == k + 1
             m == job.held + r
  <2>1. i \in Nat /\ m \in Nat
    BY <1>2
  <2>2. job' = [job EXCEPT !.i = i, !.held = m]
    BY <1>1
  <2> HIDE DEF i, m
  <2>3. job' \in JobType /\ job'.do = job.do /\ job'.i = i /\ job'.held = m
    BY <1>2, <2>1, <2>2 DEF JobType
  <2> QED  BY <1>1, <2>3 DEF i, m
<1>5. TypeOK' /\ Queue(fifo', rows', day') /\ (row'.kind = "deem" => row'.amount >= 0)
  BY <1>1, <1>4, LoopKeeps DEF IInv, TypeOK
<1>6. TallyOK'
  <2>1. PICK held : /\ RunningTotals(fifo, held, 1, k - 1, job.held)
                    /\ held[0] = 0 /\ held[k - 1] = job.held
    BY <1>1 DEF IInv, TallyOK, k
  <2> DEFINE more == [held EXCEPT ![k] = job.held + r]
  <2>2. more \in [Nat -> Nat] /\ more[0] = 0 /\ more[k] = job.held + r
    BY <1>2, <2>1 DEF RunningTotals
  <2>3. \A m \in 1 .. k : more[m] = more[m - 1] + fifo[m].remaining /\ more[m] <= job.held + r
    <3> SUFFICES ASSUME NEW m \in 1 .. k
                 PROVE  more[m] = more[m - 1] + fifo[m].remaining /\ more[m] <= job.held + r
      OBVIOUS
    <3>1. m \in Nat /\ m - 1 \in Nat /\ m - 1 # k /\ more[m - 1] = held[m - 1]
      BY <1>2, <2>1 DEF RunningTotals
    <3>2. CASE m = k
      BY <1>2, <1>3, <2>1, <2>2, <3>1, <3>2
    <3>3. CASE m # k
      <4>1. more[m] = held[m] /\ m \in 1 .. k - 1 /\ held[m] \in Nat
        BY <1>2, <2>1, <3>1, <3>3 DEF RunningTotals
      <4>2. held[m] = held[m - 1] + fifo[m].remaining /\ held[m] <= job.held
        BY <2>1, <4>1 DEF RunningTotals
      <4> QED  BY <1>2, <3>1, <4>1, <4>2
    <3> QED  BY <3>2, <3>3
  <2> HIDE DEF more
  <2>4. RunningTotals(fifo', more, 1, k, job'.held)
    BY <1>1, <1>4, <2>2, <2>3 DEF RunningTotals
  <2>5. /\ job'.i - 1 = k /\ row'.kind \in {"split", "adjust"}
        /\ job'.i \in 1 .. Len(fifo') + 1
    BY <1>1, <1>2, <1>4 DEF Fixed, IInv, TallyOK
  <2> QED  BY <1>4, <2>2, <2>4, <2>5 DEF TallyOK
<1>7. UsesOK'
  BY <1>1 DEF IInv, UsesOK, Fixed
<1> QED
  BY <1>4, <1>5, <1>6, <1>7 DEF IInv, SellOK, ShareOK, AbsorbOK, AdjustOK, DeemOK

LEMMA TalliedIInv == ASSUME IInv, Tallied PROVE IInv'
<1>1. /\ job.do = "tally" /\ job.i > Len(fifo) /\ Fixed
      /\ fifo' = fifo /\ uses' = uses /\ book' = book
  BY DEF Tallied
<1>2. CASE job.held = 0
  <2>1. job' = Idle
    BY <1>2 DEF Tallied
  <2> QED  BY <1>1, <2>1, StopsIInv, IdleType DEF Fixed
<1>3. CASE job.held # 0
  <2> DEFINE do == IF row.kind = "split" THEN "share" ELSE "adjust"
             n == job.held
  <2>1. n \in Nat \ {0} /\ Len(fifo) \in Nat /\ job.i = Len(fifo) + 1
    BY <1>1, <1>3 DEF IInv, TypeOK, JobType, TallyOK
  <2>2. job' = Job(do, 1, n, 0, 0)
    BY <1>3 DEF Tallied
  <2>3. /\ job' \in JobType /\ job'.do = do /\ job'.i = 1 /\ job'.held = n
        /\ job'.seen = 0 /\ job'.given = 0
    BY <2>1, <2>2 DEF Job, JobType
  <2>4. TypeOK' /\ Queue(fifo', rows', day') /\ (row'.kind = "deem" => row'.amount >= 0)
    BY <1>1, <2>3, LoopKeeps DEF IInv, TypeOK
  <2>5. UsesOK'
    BY <1>1 DEF IInv, UsesOK, Fixed
  <2>6. row'.kind = row.kind /\ row.kind \in {"split", "adjust"}
    BY <1>1 DEF IInv, TallyOK, Fixed
  <2> HIDE DEF n
  <2>7. ShareOK'
    <3> SUFFICES ASSUME row.kind = "split"
                 PROVE  ShareOK'
      BY <2>3, <2>6 DEF ShareOK
    <3>1. PICK held : RunningTotals(fifo, held, 1, job.i - 1, n) /\ held[0] = 0
                      /\ held[job.i - 1] = n
      BY <1>1 DEF IInv, TallyOK, n
    <3>2. RunningTotals(fifo', held, 1, Len(fifo'), n)
      BY <1>1, <2>1, <3>1
    <3>3. Len(fifo) # 0
      BY <2>1, <3>1
    <3>4. RoundHalfEven(SplitUnits(n, row'.new, row'.old) * 0, n) = 0
      <4>1. row.new \in Nat /\ row.old \in Nat \ {0}
        BY DEF IInv, TypeOK, RowType
      <4>2. SplitUnits(n, row'.new, row'.old) \in Int
        <5>1. n * row.new \in Int
          BY <2>1, <4>1
        <5> QED  BY <1>1, <4>1, <5>1, RoundIsInt DEF SplitUnits, Fixed
      <4>3. SplitUnits(n, row'.new, row'.old) * 0 = 0
        BY <4>2
      <4> QED  BY <2>1, <4>3, RoundZero
    <3>5. job'.i - 1 = 0 /\ job'.i \in 1 .. Len(fifo')
      BY <1>1, <2>1, <2>3, <3>3
    <3>6. \A k \in 1 .. job'.i - 1 : k \in 1 .. Len(fifo') => Fresh(fifo'[k])
      BY <3>5
    <3> QED  BY <2>1, <2>3, <2>6, <3>1, <3>2, <3>4, <3>5, <3>6 DEF ShareOK
  <2>8. SellOK' /\ TallyOK' /\ AbsorbOK' /\ AdjustOK' /\ DeemOK'
    BY <2>1, <2>3, <2>4, <2>6 DEF SellOK, TallyOK, AbsorbOK, AdjustOK, DeemOK
  <2> QED  BY <2>4, <2>5, <2>7, <2>8 DEF IInv
<1> QED  BY <1>2, <1>3

\* The parcel a turn of a loop leaves in place of the one it was at.
LEMMA TurnKeepsUses ==
    ASSUME IInv, Fixed, uses' = uses, row.kind # "sell"
    PROVE  UsesOK'
BY DEF IInv, UsesOK, Fixed

LEMMA DeemNextIInv == ASSUME IInv, DeemNext PROVE IInv'
<1> DEFINE r == Deemed(At, row.known, row.amount)
<1>1. /\ job.do = "deem" /\ job.i \in 1 .. Len(fifo) /\ Fixed /\ uses' = uses
      /\ fifo' = [fifo EXCEPT ![job.i] = r]
      /\ book' = [book EXCEPT !.paid = @ + Beyond(At.share["cost"], TRUE, 0)]
      /\ job' = [job EXCEPT !.i = @ + 1, !.seen = 0, !.given = 0]
  BY DEF DeemNext, Looping, Advance
<1>2. row.known \in BOOLEAN /\ row.amount \in Nat /\ row.kind = "deem"
  BY <1>1 DEF IInv, TypeOK, RowType, DeemOK
<1>3. Sound(At) /\ Sound(r) /\ Same(At, r)
  BY <1>1, <1>2, AtParcel, DeemedSound
<1> HIDE DEF r
<1>4. Queue(fifo', rows, day)
  BY <1>1, <1>3, QueueReplace DEF IInv, TypeOK, At
<1>5. book' \in BookType
  <2> DEFINE n == Beyond(At.share["cost"], TRUE, 0)
  <2>1. n \in Int
    <3>1. At.share["cost"] \in ShareType
      BY <1>1, AtParcel DEF ShareNames
    <3> QED  BY <3>1 DEF Beyond, Held, ShareType
  <2> HIDE DEF n
  <2>2. book' = [book EXCEPT !.paid = @ + n] /\ book \in BookType
    BY <1>1 DEF IInv, TypeOK, n
  <2> QED  BY <2>1, <2>2 DEF BookType
<1>6. job' \in JobType /\ job'.do = "deem"
  <2> DEFINE i == job.i + 1
             m == 0
             n == 0
  <2>1. i \in Nat /\ m \in Nat /\ n \in Int /\ job \in JobType
    BY <1>1 DEF IInv, TypeOK
  <2>2. job' = [job EXCEPT !.i = i, !.seen = m, !.given = n]
    BY <1>1
  <2> HIDE DEF i, m, n
  <2> DEFINE next == [job EXCEPT !.i = i, !.seen = m, !.given = n]
  <2>3. next \in JobType /\ next.do = job.do
    BY <2>1 DEF JobType
  <2> HIDE DEF next
  <2> QED  BY <1>1, <2>2, <2>3 DEF next
<1>7. TypeOK' /\ Queue(fifo', rows', day') /\ (row'.kind = "deem" => row'.amount >= 0)
  BY <1>1, <1>4, <1>5, <1>6, LoopKeeps DEF IInv, TypeOK
<1>8. UsesOK' /\ row'.kind = "deem"
  BY <1>1, <1>2, TurnKeepsUses DEF Fixed
<1> QED
  BY <1>6, <1>7, <1>8
     DEF IInv, SellOK, TallyOK, ShareOK, AbsorbOK, AdjustOK, DeemOK

LEMMA AdjustNextIInv == ASSUME IInv, AdjustNext PROVE IInv'
<1> DEFINE seen == job.seen + At.remaining
           upTo == (row.amount * seen) \div job.held
           part == upTo - job.given
           unpriced == part < 0 /\ ~(row.known /\ Base(At).known)
           gain == Beyond(Base(At), row.known, part)
           beyond == Beyond(At.share["cost"], row.known, part)
           r == RestartParcel(At, At.remaining, row.known, part)
           use == Use(At, At.remaining, ~unpriced, 0, gain > 0, Cents(gain, 1))
<1>1. /\ job.do = "adjust" /\ job.i \in 1 .. Len(fifo) /\ Fixed
      /\ fifo' = [fifo EXCEPT ![job.i] = r]
      /\ uses' = Append(uses, use) \/ uses' = uses
      /\ book' = [book EXCEPT !.paid = @ + part + beyond]
      /\ job' = Idle \/ job' = [job EXCEPT !.i = @ + 1, !.seen = seen, !.given = upTo]
  BY DEF AdjustNext, Looping, Advance
<1>2. /\ row.known \in BOOLEAN /\ row.amount \in Int /\ row.kind = "adjust"
      /\ job.held \in Nat \ {0} /\ job.seen \in Nat /\ job.given \in Int /\ job \in JobType
  BY <1>1 DEF IInv, TypeOK, RowType, JobType, AdjustOK
<1>3. /\ Sound(At) /\ At.remaining \in Nat /\ At.id \in Nat
      /\ \A n \in ShareNames : At.share[n] \in ShareType
  BY <1>1, AtParcel
<1>4. seen \in Nat /\ upTo \in Int /\ part \in Int
  <2>1. seen \in Nat
    BY <1>2, <1>3
  <2> HIDE DEF seen
  <2>2. row.amount * seen \in Int
    BY <1>2, <2>1
  <2>3. upTo \in Int
    BY <1>2, <2>2
  <2> HIDE DEF upTo
  <2> QED  BY <1>2, <2>1, <2>3
<1> HIDE DEF seen, upTo, part
<1>5. Sound(r) /\ Same(At, r)
  BY <1>2, <1>3, <1>4, RestartParcelSound
<1>6. gain \in Nat /\ beyond \in Nat
  <2>1. Base(At) \in ShareType /\ At.share["cost"] \in ShareType
    BY <1>3 DEF Base, BaseName, ShareNames
  <2> QED  BY <1>2, <1>4, <2>1, RestartSound
<1>7. use \in UseType /\ use.cost = 0
  <2> DEFINE a == ~unpriced
             b == gain > 0
             c == Cents(gain, 1)
  <2>1. a \in BOOLEAN /\ b \in BOOLEAN
    BY <1>6
  <2>2. c \in Int
    BY <1>6, CentsNat
  <2> HIDE DEF a, b, c
  <2>3. Use(At, At.remaining, a, 0, b, c) \in UseType
    BY <1>3, <2>1, <2>2 DEF Use, UseType
  <2>4. Use(At, At.remaining, a, 0, b, c).cost = 0
    BY DEF Use
  <2> QED  BY <2>3, <2>4 DEF a, b, c
<1> HIDE DEF r, gain, beyond, use
<1>8. Queue(fifo', rows, day)
  BY <1>1, <1>5, QueueReplace DEF IInv, TypeOK, At
<1>9. uses' \in Seq(UseType) /\ UsesOK'
  <2>1. uses \in Seq(UseType) /\ \A k \in 1 .. Len(uses) : uses[k].cost >= 0
    BY DEF IInv, TypeOK, UsesOK
  <2> DEFINE more == Append(uses, use)
  <2>2. /\ more \in Seq(UseType) /\ Len(more) = Len(uses) + 1 /\ Len(uses) \in Nat
        /\ \A k \in 1 .. Len(uses) : more[k] = uses[k]
        /\ more[Len(uses) + 1] = use
    BY <1>7, <2>1
  <2>3. \A k \in 1 .. Len(more) : more[k].cost >= 0
    BY <1>7, <2>1, <2>2
  <2> HIDE DEF more
  <2>4. uses' \in Seq(UseType) /\ \A k \in 1 .. Len(uses') : uses'[k].cost >= 0
    BY <1>1, <2>1, <2>2, <2>3 DEF more
  <2> QED  BY <1>1, <1>2, <2>4 DEF UsesOK, Fixed
<1>10. book' \in BookType
  <2> DEFINE next == [book EXCEPT !.paid = @ + part + beyond]
  <2>1. book \in BookType
    BY DEF IInv, TypeOK
  <2>2. next \in BookType
    BY <1>4, <1>6, <2>1 DEF BookType
  <2> HIDE DEF next
  <2> QED  BY <1>1, <2>2 DEF next
<1>11. job' \in JobType /\ (job'.do = "idle" \/ (job'.do = "adjust" /\ job'.held # 0))
  <2> DEFINE i == job.i + 1
  <2>1. i \in Nat
    BY <1>1, AtParcel
  <2>2. job' = Idle \/ job' = [job EXCEPT !.i = i, !.seen = seen, !.given = upTo]
    BY <1>1
  <2> HIDE DEF i
  <2>3. CASE job' = Idle
    BY <2>3, IdleType
  <2>4. CASE job' = [job EXCEPT !.i = i, !.seen = seen, !.given = upTo]
    <3> DEFINE next == [job EXCEPT !.i = i, !.seen = seen, !.given = upTo]
    <3>1. next \in JobType /\ next.do = job.do /\ next.held = job.held
      BY <1>2, <1>4, <2>1 DEF JobType
    <3>2. job' = next
      BY <2>4
    <3> HIDE DEF next
    <3> QED  BY <1>1, <1>2, <3>1, <3>2
  <2> QED  BY <2>2, <2>3, <2>4
<1>12. TypeOK' /\ Queue(fifo', rows', day') /\ (row'.kind = "deem" => row'.amount >= 0)
  BY <1>1, <1>8, <1>9, <1>10, <1>11, LoopKeeps
<1>13. row'.kind = "adjust"
  BY <1>1, <1>2 DEF Fixed
<1> QED
  BY <1>9, <1>11, <1>12, <1>13
     DEF IInv, SellOK, TallyOK, ShareOK, AbsorbOK, AdjustOK, DeemOK

LEMMA TakeHeadIInv == ASSUME IInv, TakeHead PROVE IInv'
<1> DEFINE taking == Lesser(At.remaining, job.held - job.seen)
           taken == Take(At, taking)
           base == BaseName(At)
           owed == IF row.known THEN Cents(row.amount * (job.seen + taking), job.held) ELSE 0
           bill == Billed(At, taken, base)
           paid == Billed(At, taken, "cost")
           use == Use(At, taking, Base(At).known, bill, row.known, owed - job.given)
           popped == IF taken.remaining = 0 THEN 1 ELSE 0
<1>1. /\ job.do = "sell" /\ job.i \in 1 .. Len(fifo) /\ ~Undefined /\ job.seen < job.held
      /\ Fixed /\ uses' = Append(uses, use)
      /\ job' = [job EXCEPT !.seen = job.seen + taking, !.given = owed]
      /\ fifo' = IF taken.remaining = 0 THEN Tail(fifo) ELSE [fifo EXCEPT ![1] = taken]
      /\ book' = [book EXCEPT !.billed = @ + paid, !.popped = @ + popped]
  BY DEF TakeHead, Looping, ProceedsOwed
<1>2. /\ row.known \in BOOLEAN /\ row.amount \in Int /\ row.kind = "sell"
      /\ job.held \in Nat \ {0} /\ job.seen \in Nat /\ job.given \in Int
      /\ job.i = 1 /\ job \in JobType
  BY <1>1 DEF IInv, TypeOK, RowType, JobType, SellOK
<1>3. /\ Sound(At) /\ At.remaining \in Nat /\ At.id \in Nat /\ At = fifo[1]
      /\ \A n \in ShareNames : At.share[n] \in ShareType
  BY <1>1, <1>2, AtParcel DEF At
<1>4. taking \in 0 .. At.remaining /\ job.seen + taking \in Nat /\ job.seen + taking <= job.held
  <2> DEFINE has == At.remaining
             held == job.held
             seen == job.seen
  <2>1. /\ has \in Nat /\ held \in Nat /\ seen \in Nat /\ seen < held
        /\ taking = Lesser(has, held - seen)
    BY <1>1, <1>2, <1>3
  <2> HIDE DEF has, held, seen, taking
  <2>2. taking \in 0 .. has /\ seen + taking \in Nat /\ seen + taking <= held
    BY <2>1 DEF Lesser
  <2> QED  BY <2>2 DEF has, held, seen
<1> HIDE DEF taking
<1>5. At.quantity = 0 => \A n \in SharesOf(At) : ~At.share[n].known
  BY <1>1 DEF Undefined
<1>6. /\ Sound(taken) /\ Same(At, taken) /\ bill \in Nat /\ paid \in Nat
  <2>1. base \in ShareNames /\ "cost" \in ShareNames
    BY DEF BaseName, ShareNames
  <2> QED  BY <1>3, <1>4, <1>5, <2>1, TakeSound
<1>7. owed \in Int
  <2>1. row.amount * (job.seen + taking) \in Int
    BY <1>2, <1>4
  <2> QED  BY <1>2, <2>1, CentsType
<1> HIDE DEF owed, bill, paid, taken
<1>8. use \in UseType /\ use.cost >= 0 /\ use.id = At.id
  <2> DEFINE a == Base(At).known
             b == row.known
             c == owed - job.given
  <2>1. a \in BOOLEAN /\ b \in BOOLEAN /\ c \in Int /\ taking \in Nat
    BY <1>2, <1>3, <1>4, <1>7 DEF Base, BaseName, ShareNames, ShareType
  <2> HIDE DEF a, b, c
  <2> DEFINE made == Use(At, taking, a, bill, b, c)
  <2>2. made \in UseType /\ made.cost >= 0 /\ made.id = At.id
    BY <1>3, <1>6, <2>1 DEF Use, UseType
  <2>3. use = made
    BY DEF a, b, c
  <2> HIDE DEF made, use
  <2> QED  BY <2>2, <2>3
<1> HIDE DEF use
<1>9. /\ Queue(fifo', rows, day)
      /\ \A m \in 1 .. Len(fifo') :
            At.id <= fifo'[m].id /\ \E n \in 1 .. Len(fifo) : fifo'[m].id = fifo[n].id
  <2>1. Queue(fifo, rows, day) /\ rows \in Nat /\ day \in Nat /\ 1 \in 1 .. Len(fifo)
    BY <1>1, <1>2 DEF IInv, TypeOK
  <2>2. CASE taken.remaining = 0
    <3>1. fifo' = Tail(fifo) /\ fifo # <<>>
      BY <1>1, <2>1, <2>2
    <3>2. /\ Queue(fifo', rows, day)
          /\ \A m \in 1 .. Len(fifo') : m + 1 \in 1 .. Len(fifo) /\ fifo'[m] = fifo[m + 1]
      BY <2>1, <3>1, QueueTail
    <3>3. \A m \in 1 .. Len(fifo') : 1 < m + 1
      OBVIOUS
    <3>4. \A n \in 1 .. Len(fifo) : fifo[n].id \in Nat /\ (1 < n => fifo[1].id < fifo[n].id)
      BY <2>1 DEF Queue, Sound, ParcelType
    <3>5. At.id = fifo[1].id
      BY <1>3
    <3>6. ASSUME NEW m \in 1 .. Len(fifo')
          PROVE  At.id <= fifo'[m].id /\ \E n \in 1 .. Len(fifo) : fifo'[m].id = fifo[n].id
      <4>1. m + 1 \in 1 .. Len(fifo) /\ fifo'[m] = fifo[m + 1] /\ 1 < m + 1
        BY <3>2, <3>3
      <4>2. fifo[1].id \in Nat /\ fifo[m + 1].id \in Nat /\ fifo[1].id < fifo[m + 1].id
        BY <2>1, <3>4, <4>1
      <4> QED  BY <3>5, <4>1, <4>2
    <3> QED  BY <3>2, <3>6
  <2>3. CASE taken.remaining # 0
    <3> DEFINE put == [fifo EXCEPT ![job.i] = taken]
    <3>1. fifo' = put
      BY <1>1, <1>2, <2>3
    <3>2. Same(fifo[job.i], taken) /\ job.i \in 1 .. Len(fifo)
      BY <1>1, <1>2, <1>3, <1>6
    <3>3. Queue(put, rows, day)
      BY <1>6, <2>1, <3>2, QueueReplace
    <3>4. Len(put) = Len(fifo)
      BY <1>6, <2>1, <3>2 DEF Queue, Sound
    <3>5. \A k \in 1 .. Len(fifo) : put[k] = IF k = job.i THEN taken ELSE fifo[k]
      BY <1>6, <2>1, <3>2 DEF Queue, Sound
    <3>6. /\ Queue(fifo', rows, day) /\ Len(fifo') = Len(fifo)
          /\ \A k \in 1 .. Len(fifo) : fifo'[k] = IF k = 1 THEN taken ELSE fifo[k]
      <4> HIDE DEF put
      <4> QED  BY <1>2, <3>1, <3>3, <3>4, <3>5
    <3>7. \A n \in 1 .. Len(fifo) : fifo'[n].id = fifo[n].id
      BY <1>3, <1>6, <3>6 DEF Same
    <3>8. \A n \in 1 .. Len(fifo) : fifo[n].id \in Nat /\ (1 < n => fifo[1].id < fifo[n].id)
      BY <2>1 DEF Queue, Sound, ParcelType
    <3> QED  BY <1>3, <2>1, <3>6, <3>7, <3>8
  <2> QED  BY <2>2, <2>3
<1>10. uses' \in Seq(UseType) /\ UsesOK'
  <2> DEFINE more == Append(uses, use)
  <2>1. uses \in Seq(UseType)
    BY DEF IInv, TypeOK
  <2>2. /\ more \in Seq(UseType) /\ Len(more) = Len(uses) + 1 /\ Len(uses) \in Nat
        /\ \A k \in 1 .. Len(uses) : more[k] = uses[k]
        /\ more[Len(uses) + 1] = use
    BY <1>8, <2>1
  <2> HIDE DEF more
  <2>3. uses' = more
    BY <1>1 DEF more
  <2>4. \A k \in 1 .. Len(uses) :
          uses[k].cost >= 0 /\ \A m \in 1 .. Len(fifo) : uses[k].id <= fifo[m].id
    BY <1>2 DEF IInv, UsesOK
  <2>5. \A k \in 1 .. Len(more) :
          more[k].cost >= 0 /\ \A m \in 1 .. Len(fifo') : more[k].id <= fifo'[m].id
    BY <1>8, <1>9, <2>2, <2>4
  <2> QED  BY <2>2, <2>3, <2>5 DEF UsesOK
<1>11. book' \in BookType
  <2> DEFINE a == book.billed + paid
             b == book.popped + popped
             next == [book EXCEPT !.billed = a, !.popped = b]
  <2>1. a \in Int /\ b \in Nat /\ book \in BookType
    BY <1>6 DEF IInv, TypeOK, BookType
  <2>2. book' = next
    BY <1>1
  <2> HIDE DEF a, b
  <2>3. next \in BookType
    BY <2>1 DEF BookType
  <2> HIDE DEF next
  <2> QED  BY <2>2, <2>3
<1>12. /\ job' \in JobType /\ job'.do = "sell" /\ job'.i = 1 /\ job'.held # 0
       /\ job'.seen <= job'.held
  <2> DEFINE m == job.seen + taking
             next == [job EXCEPT !.seen = m, !.given = owed]
  <2>1. job' = next /\ m \in Nat /\ m <= job.held
    BY <1>1, <1>4
  <2> HIDE DEF m
  <2>2. /\ next \in JobType /\ next.do = job.do /\ next.i = job.i
        /\ next.held = job.held /\ next.seen = m
    BY <1>2, <1>7, <2>1 DEF JobType
  <2> HIDE DEF next
  <2> QED  BY <1>1, <1>2, <2>1, <2>2
<1>13. TypeOK' /\ Queue(fifo', rows', day') /\ (row'.kind = "deem" => row'.amount >= 0)
  BY <1>1, <1>9, <1>10, <1>11, <1>12, LoopKeeps
<1>14. row'.kind = "sell"
  BY <1>1, <1>2 DEF Fixed
<1> QED
  BY <1>10, <1>12, <1>13, <1>14
     DEF IInv, SellOK, TallyOK, ShareOK, AbsorbOK, AdjustOK, DeemOK

LEMMA ShareOutIInv == ASSUME IInv, ShareOut PROVE IInv'
<1> DEFINE n == job.held
           total == SplitUnits(n, row.new, row.old)
           rem == At.remaining
           seen == job.seen + rem
           last == job.i = Len(fifo)
           upTo == IF last THEN total ELSE RoundHalfEven(total * seen, n)
           units == upTo - job.given
           r == RestartParcel(At, units, TRUE, 0)
           beyond == Beyond(At.share["cost"], TRUE, 0)
<1>1. /\ job.do = "share" /\ job.i \in 1 .. Len(fifo) /\ Fixed /\ uses' = uses
      /\ fifo' = [fifo EXCEPT ![job.i] = r]
      /\ book' = [book EXCEPT !.paid = @ + beyond]
      /\ last => job' = Job("absorb", Len(fifo), 0, 0, 0)
      /\ ~last => job' = [job EXCEPT !.i = @ + 1, !.seen = seen, !.given = upTo]
  BY DEF ShareOut, Looping, Advance, UpTo
<1>2. /\ row.new \in Nat /\ row.old \in Nat \ {0} /\ row.kind = "split"
      /\ n \in Nat \ {0} /\ job.seen \in Nat /\ job.given \in Int /\ job \in JobType
      /\ job.given = RoundHalfEven(total * job.seen, n)
      /\ \A k \in 1 .. job.i - 1 : k \in 1 .. Len(fifo) => Fresh(fifo[k])
  BY <1>1 DEF IInv, TypeOK, RowType, JobType, ShareOK
<1>3. /\ Sound(At) /\ rem \in Nat /\ At = fifo[job.i] /\ job.i \in Nat /\ Len(fifo) \in Nat
      /\ \A m \in ShareNames : At.share[m] \in ShareType
  BY <1>1, AtParcel DEF At
<1>4. PICK held : /\ RunningTotals(fifo, held, job.i, Len(fifo), n)
                  /\ held[job.i - 1] = job.seen
  BY <1>1 DEF IInv, ShareOK
<1>5. held[job.i] = seen /\ seen \in Nat /\ seen <= n /\ job.seen <= seen
  <2>0. job.i \in job.i .. Len(fifo) /\ job.i \in Nat
    BY <1>1, <1>3
  <2>1. held[job.i] \in Nat
    BY <2>0, <1>4 DEF RunningTotals
  <2>2. held[job.i] = held[job.i - 1] + rem /\ held[job.i] <= n
    BY <1>3, <1>4, <2>0 DEF RunningTotals
  <2> QED  BY <1>2, <1>3, <1>4, <2>1, <2>2
<1>6. total \in Nat
  <2>1. n * row.new \in Nat
    BY <1>2, TimesNat
  <2> DEFINE product == n * row.new
  <2>2. product \in Int /\ 0 <= product
    BY <2>1
  <2> HIDE DEF product
  <2>3. RoundHalfEven(0, row.old) = 0 /\ RoundHalfEven(product, row.old) \in Int
    BY <1>2, <2>2, RoundZero, RoundIsInt
  <2>4. RoundHalfEven(0, row.old) <= RoundHalfEven(product, row.old)
    BY <1>2, <2>2, RoundMonotone
  <2> QED  BY <2>3, <2>4 DEF SplitUnits, product, total
<1> HIDE DEF n, total, rem, seen, last
\* What has been given never passes what is given next.
<1>7. units \in Nat /\ upTo \in Int /\ (~last => upTo = RoundHalfEven(total * seen, n))
  <2>1. /\ total * job.seen \in Int /\ total * seen \in Int /\ total * n \in Int
        /\ total * job.seen <= total * seen /\ total * seen <= total * n
    BY <1>2, <1>5, <1>6, TimesMonotone, TimesNat
  <2>2. RoundHalfEven(total * n, n) = total
    BY <1>2, <1>6, RoundExact
  <2>3. /\ RoundHalfEven(total * job.seen, n) <= RoundHalfEven(total * seen, n)
        /\ RoundHalfEven(total * seen, n) <= RoundHalfEven(total * n, n)
        /\ RoundHalfEven(total * seen, n) \in Int
    BY <1>2, <2>1, RoundMonotone, RoundIsInt
  <2>4. upTo \in Int /\ upTo >= job.given
    BY <1>2, <1>6, <2>2, <2>3
  <2> HIDE DEF upTo
  <2>5. units \in Nat
    BY <1>2, <2>4
  <2> QED  BY <2>4, <2>5 DEF upTo
<1> HIDE DEF units, upTo
<1>8. Sound(r) /\ Same(At, r) /\ Fresh(r)
  <2>1. TRUE \in BOOLEAN /\ 0 \in Int
    OBVIOUS
  <2> HIDE DEF r
  <2> QED  BY <1>3, <1>7, <2>1, RestartParcelSound, Zenon DEF r
<1>9. beyond \in Nat
  <2>1. At.share["cost"] \in ShareType
    BY <1>3 DEF ShareNames
  <2> QED  BY <2>1, NothingBeyond
<1> HIDE DEF r, beyond
<1>10. /\ Queue(fifo', rows, day) /\ Len(fifo') = Len(fifo)
       /\ \A k \in 1 .. Len(fifo) : fifo'[k] = IF k = job.i THEN r ELSE fifo[k]
  <2> DEFINE put == [fifo EXCEPT ![job.i] = r]
  <2>1. Queue(fifo, rows, day) /\ rows \in Nat /\ day \in Nat /\ fifo \in Seq(ParcelType)
    BY DEF IInv, TypeOK
  <2>2. Queue(put, rows, day)
    BY <1>1, <1>3, <1>8, <2>1, QueueReplace
  <2>3. Len(put) = Len(fifo) /\ \A k \in 1 .. Len(fifo) : put[k] = IF k = job.i THEN r ELSE fifo[k]
    BY <1>1, <2>1
  <2>4. fifo' = put
    BY <1>1
  <2> HIDE DEF put
  <2> QED  BY <2>2, <2>3, <2>4
<1>11. \A k \in 1 .. job.i : k \in 1 .. Len(fifo') => Fresh(fifo'[k])
  BY <1>2, <1>3, <1>8, <1>10
<1>12. book' \in BookType
  <2> DEFINE next == [book EXCEPT !.paid = @ + beyond]
  <2>1. book \in BookType
    BY DEF IInv, TypeOK
  <2>2. next \in BookType
    BY <1>9, <2>1 DEF BookType
  <2> HIDE DEF next
  <2> QED  BY <1>1, <2>2 DEF next
<1>13. UsesOK' /\ uses' \in Seq(UseType) /\ row'.kind = "split"
  BY <1>1, <1>2, TurnKeepsUses DEF Fixed, IInv, TypeOK
<1>14. CASE last
  <2>1. job' \in JobType /\ job'.do = "absorb"
    BY <1>1, <1>3, <1>14 DEF Job, JobType
  <2>2. TypeOK' /\ Queue(fifo', rows', day') /\ (row'.kind = "deem" => row'.amount >= 0)
    BY <1>1, <1>10, <1>12, <1>13, <2>1, LoopKeeps
  <2>3. \A k \in 1 .. Len(fifo') : Fresh(fifo'[k])
    BY <1>10, <1>11, <1>14 DEF last
  <2> QED
    BY <1>13, <2>1, <2>2, <2>3
       DEF IInv, SellOK, TallyOK, ShareOK, AbsorbOK, AdjustOK, DeemOK
<1>15. CASE ~last
  <2>1. /\ job' \in JobType /\ job'.do = "share" /\ job'.i = job.i + 1
        /\ job'.held = n /\ job'.seen = seen /\ job'.given = upTo
    <3> DEFINE i == job.i + 1
               next == [job EXCEPT !.i = i, !.seen = seen, !.given = upTo]
    <3>1. i \in Nat /\ job' = next
      BY <1>1, <1>3, <1>15
    <3> HIDE DEF i
    <3>2. /\ next \in JobType /\ next.do = job.do /\ next.i = i
          /\ next.held = job.held /\ next.seen = seen /\ next.given = upTo
      BY <1>2, <1>5, <1>7, <3>1 DEF JobType
    <3> HIDE DEF next
    <3> QED  BY <1>1, <3>1, <3>2 DEF i, n
  <2>2. TypeOK' /\ Queue(fifo', rows', day') /\ (row'.kind = "deem" => row'.amount >= 0)
    BY <1>1, <1>10, <1>12, <1>13, <2>1, LoopKeeps
  <2>3. job'.i \in 1 .. Len(fifo') /\ job'.i - 1 = job.i
    BY <1>1, <1>3, <1>10, <1>15, <2>1 DEF last
  <2>4. RunningTotals(fifo', held, job'.i, Len(fifo'), n)
    <3>1. \A k \in job'.i .. Len(fifo') : k \in job.i .. Len(fifo) /\ fifo'[k] = fifo[k]
      BY <1>1, <1>3, <1>10, <2>1
    <3> QED  BY <1>4, <3>1 DEF RunningTotals
  <2>5. row'.new = row.new /\ row'.old = row.old
    BY <1>1 DEF Fixed
  <2>6. ShareOK'
    <3>1. job'.given = RoundHalfEven(SplitUnits(job'.held, row'.new, row'.old) * job'.seen, job'.held)
      BY <1>7, <1>15, <2>1, <2>5 DEF total
    <3>2. \A k \in 1 .. job'.i - 1 : k \in 1 .. Len(fifo') => Fresh(fifo'[k])
      BY <1>11, <2>3
    <3>3. RunningTotals(fifo', held, job'.i, Len(fifo'), job'.held) /\ held[job'.i - 1] = job'.seen
      BY <1>5, <2>1, <2>3, <2>4
    <3> QED  BY <1>2, <1>13, <2>1, <2>3, <3>1, <3>2, <3>3 DEF ShareOK
  <2> QED
    BY <1>13, <2>1, <2>2, <2>6 DEF IInv, SellOK, TallyOK, AbsorbOK, AdjustOK, DeemOK
<1> QED  BY <1>14, <1>15

LEMMA AbsorbIInv == ASSUME IInv, Absorb PROVE IInv'
<1> DEFINE into == IF job.i < Len(fifo) THEN job.i + 1 ELSE job.i - 1
           r == Absorbed(fifo[into], At)
           joined == [fifo EXCEPT ![into] = r]
<1>1. /\ job.do = "absorb" /\ job.i \in 1 .. Len(fifo) /\ Fixed
      /\ uses' = uses /\ book' = book
      /\ \/ Len(fifo) > 1 /\ fifo' = RemoveAt(joined, job.i)
         \/ fifo' = fifo
      /\ job' = IF job.i = 1 THEN Idle ELSE [job EXCEPT !.i = @ - 1]
  BY DEF Absorb
<1>2. /\ row.kind = "split" /\ \A k \in 1 .. Len(fifo) : Fresh(fifo[k])
      /\ Queue(fifo, rows, day) /\ rows \in Nat /\ day \in Nat /\ Len(fifo) \in Nat
      /\ job \in JobType /\ job.i \in Nat
  BY <1>1 DEF IInv, TypeOK, JobType, AbsorbOK
<1>3. Queue(fifo', rows, day) /\ \A k \in 1 .. Len(fifo') : Fresh(fifo'[k])
  <2>1. CASE Len(fifo) > 1 /\ fifo' = RemoveAt(joined, job.i)
    <3>1. into \in 1 .. Len(fifo)
      BY <1>1, <1>2, <2>1
    <3> HIDE DEF into
    <3>2. Sound(fifo[into]) /\ Fresh(fifo[into]) /\ Sound(At) /\ Fresh(At)
      BY <1>1, <1>2, <3>1 DEF Queue, At
    <3>3. Sound(r) /\ Fresh(r) /\ Same(fifo[into], r)
      BY <3>2, AbsorbedSound
    <3> HIDE DEF r
    <3>4. Queue(joined, rows, day)
      BY <1>2, <3>1, <3>3, QueueReplace
    <3>5. Len(joined) = Len(fifo) /\ \A k \in 1 .. Len(fifo) : Fresh(joined[k])
      BY <1>2, <3>1, <3>3 DEF Queue, Sound
    <3> HIDE DEF joined
    <3>6. /\ Queue(fifo', rows, day)
          /\ \A k \in 1 .. Len(fifo') : \E m \in 1 .. Len(fifo) : fifo'[k] = joined[m]
      BY <1>1, <1>2, <2>1, <3>4, <3>5, QueueRemove
    <3> QED  BY <3>5, <3>6
  <2>2. CASE fifo' = fifo
    BY <1>2, <2>2
  <2> QED  BY <1>1, <2>1, <2>2
<1>4. job' \in JobType /\ job'.do \in {"idle", "absorb"}
  <2>1. CASE job.i = 1
    BY <1>1, <2>1, IdleType
  <2>2. CASE job.i # 1
    <3> DEFINE i == job.i - 1
               next == [job EXCEPT !.i = i]
    <3>1. i \in Nat /\ job' = next
      BY <1>1, <1>2, <2>2
    <3> HIDE DEF i
    <3>2. next \in JobType /\ next.do = job.do
      BY <1>2, <3>1 DEF JobType
    <3> HIDE DEF next
    <3> QED  BY <1>1, <3>1, <3>2
  <2> QED  BY <2>1, <2>2
<1>5. TypeOK' /\ Queue(fifo', rows', day') /\ (row'.kind = "deem" => row'.amount >= 0)
  BY <1>1, <1>3, <1>4, LoopKeeps DEF IInv, TypeOK
<1>6. UsesOK' /\ row'.kind = "split"
  BY <1>1, <1>2, TurnKeepsUses DEF Fixed
<1> QED
  BY <1>3, <1>4, <1>5, <1>6
     DEF IInv, SellOK, TallyOK, ShareOK, AbsorbOK, AdjustOK, DeemOK

-----------------------------------------------------------------------------
(***************************************************************************)
(* The theorems.                                                           *)
(***************************************************************************)
LEMMA NextIInv == ASSUME IInv, [Next]_vars PROVE IInv'
<1>1. CASE UNCHANGED vars
  BY <1>1, StutterIInv
<1>2. CASE Next
  <2>1. ASSUME NEW units \in Quantities, NEW known \in RateKnown, NEW outlay \in Costs,
               Buy(units, outlay, known)
        PROVE  IInv'
    BY <2>1, BuyIInv
  <2>2. ASSUME NEW units \in Quantities, NEW known \in RateKnown, NEW net \in Nets,
               Sell(units, net, known)
        PROVE  IInv'
    BY <2>2, SellIInv
  <2>3. ASSUME NEW ratio \in Ratios, Split(ratio[1], ratio[2]) PROVE IInv'
    BY <2>3, SplitIInv
  <2>4. ASSUME NEW change \in Changes, NEW known \in RateKnown, Adjust(change, known)
        PROVE  IInv'
    BY <2>4, AdjustIInv
  <2>5. CASE NextDay
    BY <2>5, NextDayIInv
  <2>6. CASE Loop
    BY <2>6, TakeHeadIInv, SoldIInv, OversellIInv, TallyIInv, TalliedIInv, ShareOutIInv,
       AbsorbIInv, AdjustNextIInv, DeemNextIInv, AllDeemedIInv, CrashIInv DEF Loop
  <2> QED  BY <1>2, <2>1, <2>2, <2>3, <2>4, <2>5, <2>6 DEF Next
<1> QED  BY <1>1, <1>2

LEMMA Invariance == Spec => []IInv
<1>1. Init => IInv
  BY InitIInv
<1>2. IInv /\ [Next]_vars => IInv'
  BY NextIInv
<1> QED  BY <1>1, <1>2, PTL DEF Spec

\* Every variable keeps its type: in particular no parcel's units, cost or bill
\* is ever negative (`_Parcel`, `_Share`).
THEOREM TypeCorrect == Spec => []TypeOK
<1>1. IInv => TypeOK
  BY DEF IInv
<1> QED  BY <1>1, Invariance, PTL

\* However a parcel is sold off, split, reduced and deemed, what it has billed
\* is what the units gone from it owe, rounded once.
THEOREM BillsAddUp == Spec => []BilledToDate
<1>1. IInv => BilledToDate
  <2> SUFFICES ASSUME IInv, NEW k \in 1 .. Len(fifo), NEW n \in ShareNames,
                      fifo[k].quantity # 0
               PROVE  fifo[k].share[n].allotted =
                        Owed(fifo[k].share[n], fifo[k].quantity - fifo[k].remaining,
                             fifo[k].quantity)
    BY DEF BilledToDate
  <2> QED  BY DEF IInv, Queue, Sound, Bills
<1> QED  BY <1>1, Invariance, PTL

\* No use of a parcel is billed less than nothing, and no parcel, nor the 2027
\* amounts it carries, ever bills more than its cost rounded to the cent.
THEOREM BillsBounded == Spec => []BillsInRange
<1>1. IInv => BillsInRange
  <2> SUFFICES ASSUME IInv PROVE BillsInRange
    OBVIOUS
  <2>1. ASSUME NEW k \in 1 .. Len(uses) PROVE uses[k].cost >= 0 /\ uses[k].units >= 0
    <3>1. uses[k] \in UseType
      BY DEF IInv, TypeOK
    <3>2. uses[k].units >= 0
      BY <3>1 DEF UseType
    <3> QED  BY <3>2 DEF IInv, UsesOK
  <2>2. ASSUME NEW k \in 1 .. Len(fifo), NEW n \in ShareNames
        PROVE  fifo[k].share[n].allotted \in 0 .. Cents(fifo[k].share[n].total, 1)
    <3> DEFINE p == fifo[k]
               s == p.share[n]
    <3>1. Sound(p) /\ p \in ParcelType
      BY DEF IInv, Queue, Sound
    <3> HIDE DEF p
    <3>2. /\ s \in ShareType /\ p.quantity \in Nat
          /\ p.quantity - p.remaining \in 0 .. p.quantity
      BY <3>1 DEF Sound, ParcelType
    <3>3. s.allotted = IF p.quantity = 0 THEN 0
                       ELSE Owed(s, p.quantity - p.remaining, p.quantity)
      BY <3>1 DEF Sound, Bills
    <3> HIDE DEF s
    <3>4. CASE p.quantity = 0
      <4>1. Cents(s.total, 1) \in Nat /\ s.allotted = 0
        BY <3>2, <3>3, <3>4, CentsNat DEF ShareType
      <4> QED  BY <4>1 DEF s, p
    <3>5. CASE p.quantity # 0
      <4>1. s.allotted \in 0 .. Cents(s.total, 1)
        BY <3>2, <3>3, <3>5, OwedRange
      <4> QED  BY <4>1 DEF s, p
    <3> QED  BY <3>4, <3>5
  <2> QED  BY <2>1, <2>2 DEF BillsInRange
<1> QED  BY <1>1, Invariance, PTL

\* First in, first out: the parcels stay in the order they were acquired through
\* every split, consolidation, reduction and sale, and a sale never uses a
\* parcel younger than one left holding (`walk`: "fifo[0]").
THEOREM FirstInFirstOut == Spec => []OldestFirst
<1>1. IInv => OldestFirst
  <2> SUFFICES ASSUME IInv PROVE OldestFirst
    OBVIOUS
  <2>1. \A k \in 1 .. Len(fifo) - 1 :
          /\ fifo[k].id < fifo[k + 1].id
          /\ fifo[k].acquired <= fifo[k + 1].acquired
    <3>1. Len(fifo) \in Nat
      BY DEF IInv, TypeOK
    <3>2. \A k \in 1 .. Len(fifo) - 1 :
            k \in 1 .. Len(fifo) /\ k + 1 \in 1 .. Len(fifo) /\ k < k + 1
      BY <3>1
    <3> QED  BY <3>2 DEF IInv, Queue
  <2>2. row.kind = "sell" =>
          \A k \in 1 .. Len(uses) : \A m \in 1 .. Len(fifo) : uses[k].id <= fifo[m].id
    BY DEF IInv, UsesOK
  <2> QED  BY <2>1, <2>2 DEF OldestFirst
<1> QED  BY <1>1, Invariance, PTL

-----------------------------------------------------------------------------
(***************************************************************************)
(* Induction over numbers, by a least counterexample, and sums of          *)
(* sequences.                                                              *)
(***************************************************************************)
LEMMA LeastNat ==
    ASSUME NEW S \in SUBSET Nat, S # {}
    PROVE  \E m \in S : \A n \in S : m <= n
<1> DEFINE R == OpToRel(<, Nat)
<1>1. IsWellFoundedOn(R, Nat)
  BY NatLessThanWellFounded
<1>2. \A a, b \in Nat : a < b => <<a, b>> \in R
  BY DEF OpToRel
<1> HIDE DEF R
<1>3. PICK m \in S : \A y \in S : ~ (<<y, m>> \in R)
  BY <1>1, WFMin
<1>4. ASSUME NEW n \in S PROVE m <= n
  <2>1. m \in Nat /\ n \in Nat
    OBVIOUS
  <2>2. ~(n < m)
    BY <1>2, <1>3, <2>1
  <2> QED  BY <2>1, <2>2
<1> QED  BY <1>4

\* Every number up to n is good, if nought is and the next after a good one is.
LEMMA Climb ==
    ASSUME NEW n \in Nat, NEW G, 0 \in G, \A k \in 0 .. n - 1 : k \in G => k + 1 \in G
    PROVE  \A k \in 0 .. n : k \in G
<1> SUFFICES ASSUME NEW k \in 0 .. n, k \notin G PROVE FALSE
  OBVIOUS
<1> DEFINE bad == {i \in 0 .. n : i \notin G}
<1>1. bad \in SUBSET Nat /\ bad # {}
  OBVIOUS
<1>2. PICK m \in bad : \A i \in bad : m <= i
  BY <1>1, LeastNat
<1>3. m \in 0 .. n /\ m \notin G /\ m # 0
  OBVIOUS
<1>4. m - 1 \in 0 .. n - 1 /\ m - 1 \notin bad
  BY <1>2, <1>3
<1> QED  BY <1>3, <1>4

\* v[k] is the sum of the first k numbers of q, up to n of them.
Sums(v, q, n) ==
    /\ v \in [0 .. n -> Int] /\ v[0] = 0
    /\ \A k \in 1 .. n : v[k] = v[k - 1] + q[k]

LEMMA SumsExist ==
    ASSUME NEW q \in Seq(Int)
    PROVE  \E v : Sums(v, q, Len(q))
<1> DEFINE N == Len(q)
           G == {n \in 0 .. N : \E v : Sums(v, q, n)}
<1>1. N \in Nat
  OBVIOUS
<1>2. 0 \in G
  <2>1. Sums([k \in 0 .. 0 |-> 0], q, 0)
    BY DEF Sums
  <2> QED  BY <1>1, <2>1
<1>3. ASSUME NEW n \in 0 .. N - 1, n \in G PROVE n + 1 \in G
  <2>1. PICK v : Sums(v, q, n)
    BY <1>3
  <2>2. n + 1 \in 1 .. N /\ q[n + 1] \in Int
    BY <1>1
  <2> DEFINE w == [k \in 0 .. n + 1 |-> IF k = n + 1 THEN v[n] + q[n + 1] ELSE v[k]]
  <2>3. w \in [0 .. n + 1 -> Int] /\ w[0] = 0
    BY <2>1, <2>2 DEF Sums
  <2>4. ASSUME NEW k \in 1 .. n + 1 PROVE w[k] = w[k - 1] + q[k]
    <3>1. w[k - 1] = v[k - 1] /\ (k # n + 1 => w[k] = v[k]) /\ (k = n + 1 => w[k] = v[n] + q[n + 1])
      OBVIOUS
    <3>2. k # n + 1 => v[k] = v[k - 1] + q[k]
      BY <2>1 DEF Sums
    <3> QED  BY <3>1, <3>2
  <2> HIDE DEF w
  <2>5. Sums(w, q, n + 1)
    BY <2>3, <2>4 DEF Sums
  <2> QED  BY <2>2, <2>5
<1> HIDE DEF G, N
<1>4. \A k \in 0 .. N : k \in G
  BY <1>1, <1>2, <1>3, Climb
<1>5. N \in G
  BY <1>1, <1>4
<1> QED  BY <1>5 DEF G, N

LEMMA SumsAgree ==
    ASSUME NEW q \in Seq(Int), NEW v, Sums(v, q, Len(q)), NEW w,
           w = [k \in 0 .. Len(q) |-> IF k = 0 THEN 0 ELSE w[k - 1] + q[k]]
    PROVE  w = v
<1> DEFINE N == Len(q)
           G == {k \in 0 .. N : w[k] = v[k]}
<1>1. N \in Nat
  OBVIOUS
<1>2. w[0] = 0 /\ \A k \in 1 .. N : w[k] = w[k - 1] + q[k]
  <2>1. \A k \in 0 .. N : w[k] = IF k = 0 THEN 0 ELSE w[k - 1] + q[k]
    OBVIOUS
  <2>2. 0 \in 0 .. N /\ \A k \in 1 .. N : k \in 0 .. N /\ k # 0
    BY <1>1
  <2> HIDE DEF N
  <2> QED  BY <2>1, <2>2
<1>3. v \in [0 .. N -> Int] /\ v[0] = 0 /\ \A k \in 1 .. N : v[k] = v[k - 1] + q[k]
  BY DEF Sums
<1>4. DOMAIN w = 0 .. N /\ w = [k \in DOMAIN w |-> w[k]]
  OBVIOUS
<1> HIDE DEF N
<1>5. 0 \in G
  BY <1>1, <1>2, <1>3
<1>6. ASSUME NEW n \in 0 .. N - 1, n \in G PROVE n + 1 \in G
  <2>1. n + 1 \in 1 .. N /\ (n + 1) - 1 = n
    BY <1>1
  <2>2. w[n + 1] = w[n] + q[n + 1] /\ v[n + 1] = v[n] + q[n + 1]
    BY <1>2, <1>3, <2>1
  <2> QED  BY <1>6, <2>1, <2>2
<1> HIDE DEF G
<1>7. \A k \in 0 .. N : k \in G
  BY <1>1, <1>5, <1>6, Climb
<1>8. \A k \in 0 .. N : w[k] = v[k]
  BY <1>7 DEF G
<1>9. DOMAIN v = 0 .. N /\ v = [k \in DOMAIN v |-> v[k]]
  BY <1>3
<1> QED  BY <1>4, <1>8, <1>9

\* What Running computes.
LEMMA RunningIs ==
    ASSUME NEW q \in Seq(Int)
    PROVE  Sums(Running(q), q, Len(q)) /\ Total(q) \in Int /\ Len(q) \in Nat
<1> DEFINE Is(w) == w = [k \in 0 .. Len(q) |-> IF k = 0 THEN 0 ELSE w[k - 1] + q[k]]
<1>1. PICK v : Sums(v, q, Len(q))
  BY SumsExist
<1>2. Is(v)
  <2>1. /\ v \in [0 .. Len(q) -> Int] /\ v[0] = 0
        /\ \A k \in 1 .. Len(q) : v[k] = v[k - 1] + q[k]
    BY <1>1 DEF Sums
  <2>2. \A k \in 0 .. Len(q) : v[k] = IF k = 0 THEN 0 ELSE v[k - 1] + q[k]
    BY <2>1
  <2>3. v = [k \in 0 .. Len(q) |-> v[k]]
    BY <2>1
  <2> QED  BY <2>2, <2>3
<1>3. Is(Running(q))
  <2>1. Running(q) = CHOOSE w : Is(w)
    BY DEF Running
  <2> HIDE DEF Is
  <2> QED  BY <1>2, <2>1
<1>4. Running(q) = v
  BY <1>1, <1>3, SumsAgree
<1>5. Total(q) \in Int /\ Len(q) \in Nat
  <2>1. Len(q) \in Nat /\ v \in [0 .. Len(q) -> Int]
    BY <1>1 DEF Sums
  <2> QED  BY <1>4, <2>1 DEF Total
<1> QED  BY <1>1, <1>4, <1>5

\* One number of a sequence replaced: the sums from there on move by the difference.
LEMMA SumPut ==
    ASSUME NEW q \in Seq(Int), NEW r \in Seq(Int), Len(r) = Len(q), NEW i \in 1 .. Len(q),
           \A k \in 1 .. Len(q) : k # i => r[k] = q[k]
    PROVE  /\ Total(r) = Total(q) + (r[i] - q[i])
           /\ \A k \in 0 .. Len(q) :
                 Running(r)[k] = Running(q)[k] + IF k < i THEN 0 ELSE r[i] - q[i]
<1> DEFINE N == Len(q)
           v == Running(q)
           w == Running(r)
           G == {k \in 0 .. N : w[k] = v[k] + IF k < i THEN 0 ELSE r[i] - q[i]}
<1>1. /\ N \in Nat /\ v \in [0 .. N -> Int] /\ w \in [0 .. N -> Int] /\ v[0] = 0 /\ w[0] = 0
      /\ \A k \in 1 .. N : v[k] = v[k - 1] + q[k] /\ w[k] = w[k - 1] + r[k]
  BY RunningIs DEF Sums
<1>2. i \in 1 .. N /\ \A k \in 1 .. N : q[k] \in Int /\ r[k] \in Int /\ (k # i => r[k] = q[k])
  OBVIOUS
<1>3. Total(q) = v[N] /\ Total(r) = w[N]
  BY DEF Total
<1> HIDE DEF N, v, w
<1>4. 0 \in G
  BY <1>1, <1>2
<1>5. ASSUME NEW n \in 0 .. N - 1, n \in G PROVE n + 1 \in G
  <2>1. n + 1 \in 1 .. N /\ (n + 1) - 1 = n /\ v[n] \in Int /\ n \in Nat
    BY <1>1
  <2>2. w[n + 1] = w[n] + r[n + 1] /\ v[n + 1] = v[n] + q[n + 1]
    BY <1>1, <2>1
  <2>3. w[n] = v[n] + IF n < i THEN 0 ELSE r[i] - q[i]
    BY <1>5
  <2>4. q[n + 1] \in Int /\ r[n + 1] \in Int /\ (n + 1 # i => r[n + 1] = q[n + 1])
    BY <1>2, <2>1
  <2> DEFINE a == v[n]
             b == q[n + 1]
             c == r[n + 1]
             x == q[i]
             y == r[i]
             wa == w[n]
             vb == v[n + 1]
             wb == w[n + 1]
  <2>5. /\ a \in Int /\ b \in Int /\ c \in Int /\ n \in Nat /\ i \in Nat
        /\ wb = wa + c /\ vb = a + b
    BY <1>2, <2>1, <2>2, <2>4
  <2>6. x \in Int /\ y \in Int
    BY <1>2
  <2>7. wa = a + IF n < i THEN 0 ELSE y - x
    BY <2>3
  <2>8. (n + 1 # i => c = b) /\ (n + 1 = i => b = x /\ c = y)
    BY <2>4
  <2> HIDE DEF a, b, c, x, y, wa, vb, wb
  <2>9. CASE n < i
    <3>1. wa = a
      BY <2>5, <2>7, <2>9
    <3>2. CASE n + 1 = i
      <4>1. wb = vb + (y - x) /\ ~(n + 1 < i)
        BY <2>5, <2>6, <2>8, <3>1, <3>2
      <4> QED  BY <2>1, <4>1 DEF wb, vb, x, y
    <3>3. CASE n + 1 # i
      <4>1. wb = vb /\ vb \in Int /\ n + 1 < i
        BY <2>5, <2>8, <2>9, <3>1, <3>3
      <4>2. w[n + 1] = v[n + 1] /\ v[n + 1] \in Int
        BY <4>1 DEF wb, vb
      <4> QED  BY <2>1, <4>1, <4>2
    <3> QED  BY <3>2, <3>3
  <2>10. CASE ~(n < i)
    <3>1. wa = a + (y - x) /\ n + 1 # i /\ ~(n + 1 < i)
      BY <2>5, <2>7, <2>10
    <3>2. wb = vb + (y - x)
      BY <2>5, <2>6, <2>8, <3>1
    <3> QED  BY <2>1, <3>1, <3>2 DEF wb, vb, x, y
  <2> QED  BY <2>9, <2>10
<1> HIDE DEF G
<1>6. \A k \in 0 .. N : k \in G
  BY <1>1, <1>4, <1>5, Climb
<1>7. \A k \in 0 .. N : w[k] = v[k] + IF k < i THEN 0 ELSE r[i] - q[i]
  BY <1>6 DEF G
<1>8. w[N] = v[N] + (r[i] - q[i])
  BY <1>1, <1>2, <1>7
<1> QED  BY <1>3, <1>7, <1>8 DEF N, v, w

\* One number taken out.
LEMMA SumRemove ==
    ASSUME NEW q \in Seq(Int), NEW r \in Seq(Int), NEW i \in 1 .. Len(q), Len(r) = Len(q) - 1,
           \A k \in 1 .. Len(q) - 1 : r[k] = q[IF k < i THEN k ELSE k + 1]
    PROVE  Total(r) = Total(q) - q[i]
<1> DEFINE N == Len(q)
           v == Running(q)
           w == Running(r)
           G == {k \in 0 .. N - 1 : w[k] = IF k < i THEN v[k] ELSE v[k + 1] - q[i]}
<1>1. /\ N \in Nat \ {0} /\ N - 1 \in Nat /\ v \in [0 .. N -> Int] /\ w \in [0 .. N - 1 -> Int]
      /\ v[0] = 0 /\ w[0] = 0
      /\ \A k \in 1 .. N : v[k] = v[k - 1] + q[k]
      /\ \A k \in 1 .. N - 1 : w[k] = w[k - 1] + r[k]
  <2>1. N \in Nat \ {0} /\ Len(r) = N - 1 /\ N - 1 \in Nat
    OBVIOUS
  <2>2. Sums(v, q, N) /\ Sums(w, r, N - 1)
    BY <2>1, RunningIs
  <2> HIDE DEF N, v, w
  <2> QED  BY <2>1, <2>2 DEF Sums
<1>2. /\ i \in 1 .. N /\ \A k \in 1 .. N : q[k] \in Int
      /\ \A k \in 1 .. N - 1 : r[k] = q[IF k < i THEN k ELSE k + 1]
  OBVIOUS
<1>3. Total(q) = v[N] /\ Total(r) = w[N - 1]
  BY DEF Total
<1> HIDE DEF N, v, w
<1>4. 0 \in G
  BY <1>1, <1>2
<1>5. ASSUME NEW n \in 0 .. N - 2, n \in G PROVE n + 1 \in G
  <2>0. n \in Nat /\ N \in Nat /\ n + 2 <= N
    BY <1>1
  <2>0a. /\ n + 1 \in 1 .. N - 1 /\ (n + 1) - 1 = n /\ n \in 0 .. N
         /\ n + 2 \in 1 .. N /\ (n + 2) - 1 = n + 1 /\ (n + 1) + 1 = n + 2
         /\ n + 1 \in 1 .. N /\ n + 1 \in 0 .. N
    BY <2>0
  <2>0b. v[n] \in Int /\ v[n + 1] \in Int
    BY <1>1, <2>0a
  <2>1. /\ n + 1 \in 1 .. N - 1 /\ (n + 1) - 1 = n /\ v[n] \in Int /\ v[n + 1] \in Int
        /\ n + 2 \in 1 .. N /\ (n + 2) - 1 = n + 1 /\ (n + 1) + 1 = n + 2 /\ n + 1 \in 1 .. N
    BY <2>0a, <2>0b, Zenon
  <2>2. w[n + 1] = w[n] + r[n + 1] /\ v[n + 1] = v[n] + q[n + 1] /\ v[n + 2] = v[n + 1] + q[n + 2]
    BY <1>1, <2>1
  <2>3. w[n] = IF n < i THEN v[n] ELSE v[n + 1] - q[i]
    BY <1>5
  <2>4. r[n + 1] = (IF n + 1 < i THEN q[n + 1] ELSE q[n + 2]) /\ q[n + 1] \in Int /\ q[n + 2] \in Int
    BY <1>2, <2>1
  <2>5. n + 1 < i => w[n + 1] = v[n + 1]
    BY <1>2, <2>1, <2>2, <2>3, <2>4
  <2>5a. i \in Int /\ n \in Int /\ q[i] \in Int
    BY <1>2
  <2>6. n + 1 = i => w[n + 1] = v[n + 2] - q[i]
    <3> SUFFICES ASSUME n + 1 = i PROVE w[n + 1] = v[n + 2] - q[i]
      OBVIOUS
    <3>1. w[n] = v[n] /\ r[n + 1] = q[n + 2] /\ q[i] = q[n + 1]
      BY <2>5a, <2>3, <2>4
    <3> DEFINE a == v[n]
               b == v[n + 1]
               x == q[n + 1]
               y == q[n + 2]
    <3>2. a \in Int /\ b = a + x /\ v[n + 2] = b + y /\ w[n + 1] = a + y
          /\ q[i] = x /\ x \in Int /\ y \in Int
      BY <2>1, <2>2, <2>4, <3>1
    <3> HIDE DEF a, b, x, y
    <3> QED  BY <3>2
  <2>7. n + 1 > i => w[n + 1] = v[n + 2] - q[i]
    <3> SUFFICES ASSUME n + 1 > i PROVE w[n + 1] = v[n + 2] - q[i]
      OBVIOUS
    <3>1. w[n] = v[n + 1] - q[i] /\ r[n + 1] = q[n + 2]
      BY <2>5a, <2>3, <2>4
    <3> DEFINE b == v[n + 1]
               y == q[n + 2]
    <3>2. b \in Int /\ v[n + 2] = b + y /\ w[n + 1] = b - q[i] + y /\ y \in Int
      BY <2>1, <2>2, <2>4, <3>1
    <3> DEFINE c == q[i]
               x == v[n + 2]
               z == w[n + 1]
    <3>3. c \in Int /\ x = b + y /\ z = b - c + y
      BY <2>5a, <3>2
    <3>4. b \in Int /\ y \in Int
      BY <3>2
    <3> HIDE DEF b, y, c, x, z
    <3>5. z = x - c
      BY <3>3, <3>4
    <3> QED  BY <3>5 DEF c, x, z
  <2>8. w[n + 1] = IF n + 1 < i THEN v[n + 1] ELSE v[(n + 1) + 1] - q[i]
    BY <1>2, <2>1, <2>5, <2>6, <2>7
  <2>9. n + 1 \in 0 .. N - 1
    BY <2>1
  <2> QED  BY <2>8, <2>9
<1> HIDE DEF G
<1>6. \A k \in 0 .. N - 1 : k \in G
  <2>1. \A k \in 0 .. (N - 1) - 1 : k \in G => k + 1 \in G
    BY <1>1, <1>5
  <2> QED  BY <1>1, <1>4, <2>1, Climb
<1>7. w[N - 1] = IF N - 1 < i THEN v[N - 1] ELSE v[(N - 1) + 1] - q[i]
  <2>1. N - 1 \in 0 .. N - 1
    BY <1>1
  <2> QED  BY <1>6, <2>1 DEF G
<1>8. v[N] = v[N - 1] + q[N] /\ v[N - 1] \in Int /\ v[N] \in Int
  BY <1>1
<1>9. w[N - 1] = v[N] - q[i]
  <2>1. CASE N - 1 < i
    <3>1. i = N
      BY <1>1, <1>2, <2>1
    <3> QED  BY <1>2, <1>7, <1>8, <2>1, <3>1
  <2>2. CASE ~(N - 1 < i)
    BY <1>1, <1>7, <2>2
  <2> QED  BY <2>1, <2>2
<1> QED  BY <1>3, <1>9 DEF N, v, w

LEMMA SumNothing == Running(<<>>)[0] = 0 /\ Total(<<>>) = 0
<1>1. <<>> \in Seq(Int) /\ Len(<<>>) = 0
  OBVIOUS
<1> QED  BY <1>1, RunningIs DEF Sums, Total

-----------------------------------------------------------------------------
(***************************************************************************)
(* The units and the costs of the parcels held, the proceeds of the uses.  *)
(***************************************************************************)
LEMMA UnitsSeq ==
    ASSUME NEW s \in Seq(ParcelType)
    PROVE  /\ UnitsOf(s) \in Seq(Int) /\ Len(UnitsOf(s)) = Len(s) /\ Len(s) \in Nat
           /\ \A k \in 1 .. Len(s) : UnitsOf(s)[k] = s[k].remaining
<1>1. Len(s) \in Nat /\ \A k \in 1 .. Len(s) : s[k] \in ParcelType
  OBVIOUS
<1>2. \A k \in 1 .. Len(s) : s[k].remaining \in Int
  BY <1>1 DEF ParcelType
<1>3. UnitsOf(s) \in [1 .. Len(s) -> Int]
  BY <1>2 DEF UnitsOf
<1> QED  BY <1>1, <1>3 DEF UnitsOf

LEMMA CostsSeq ==
    ASSUME NEW s \in Seq(ParcelType)
    PROVE  /\ CostsOf(s) \in Seq(Int) /\ Len(CostsOf(s)) = Len(s) /\ Len(s) \in Nat
           /\ \A k \in 1 .. Len(s) : CostsOf(s)[k] = Held(s[k].share["cost"])
<1>1. Len(s) \in Nat /\ \A k \in 1 .. Len(s) : s[k] \in ParcelType
  OBVIOUS
<1>2. \A k \in 1 .. Len(s) : s[k].share["cost"] \in ShareType
  BY <1>1 DEF ParcelType, ShareNames
<1>3. \A x \in ShareType : Held(x) \in Int
  BY DEF Held, ShareType
<1>4. CostsOf(s) \in [1 .. Len(s) -> Int]
  BY <1>2, <1>3 DEF CostsOf
<1> QED  BY <1>1, <1>4 DEF CostsOf

LEMMA ProceedsSeq ==
    ASSUME NEW s \in Seq(UseType)
    PROVE  /\ ProceedsOf(s) \in Seq(Int) /\ Len(ProceedsOf(s)) = Len(s) /\ Len(s) \in Nat
           /\ \A k \in 1 .. Len(s) : ProceedsOf(s)[k] = s[k].proceeds
<1>1. Len(s) \in Nat /\ \A k \in 1 .. Len(s) : s[k] \in UseType
  OBVIOUS
<1>2. \A k \in 1 .. Len(s) : s[k].proceeds \in Int
  BY <1>1 DEF UseType
<1>3. ProceedsOf(s) \in [1 .. Len(s) -> Int]
  BY <1>2 DEF ProceedsOf
<1> QED  BY <1>1, <1>3 DEF ProceedsOf

\* A parcel put in another's place.
LEMMA PutAt ==
    ASSUME NEW s \in Seq(ParcelType), NEW i \in 1 .. Len(s), NEW r \in ParcelType,
           NEW t \in Seq(ParcelType), Len(t) = Len(s),
           \A k \in 1 .. Len(s) : t[k] = IF k = i THEN r ELSE s[k]
    PROVE  /\ Total(UnitsOf(t)) = Total(UnitsOf(s)) + (r.remaining - s[i].remaining)
           /\ \A k \in 0 .. Len(s) :
                 Running(UnitsOf(t))[k] = Running(UnitsOf(s))[k]
                    + IF k < i THEN 0 ELSE r.remaining - s[i].remaining
           /\ Total(CostsOf(t)) = Total(CostsOf(s))
                                    + (Held(r.share["cost"]) - Held(s[i].share["cost"]))
<1>1. /\ t \in Seq(ParcelType) /\ Len(t) = Len(s) /\ i \in 1 .. Len(t)
      /\ \A k \in 1 .. Len(s) : t[k] = IF k = i THEN r ELSE s[k]
  OBVIOUS
<1>2. /\ UnitsOf(s) \in Seq(Int) /\ UnitsOf(t) \in Seq(Int)
      /\ Len(UnitsOf(s)) = Len(s) /\ Len(UnitsOf(t)) = Len(s)
      /\ UnitsOf(t)[i] = r.remaining /\ UnitsOf(s)[i] = s[i].remaining
      /\ \A k \in 1 .. Len(s) : k # i => UnitsOf(t)[k] = UnitsOf(s)[k]
  <2>1. /\ UnitsOf(s) \in Seq(Int) /\ Len(UnitsOf(s)) = Len(s)
        /\ \A k \in 1 .. Len(s) : UnitsOf(s)[k] = s[k].remaining
    BY UnitsSeq
  <2>2. /\ UnitsOf(t) \in Seq(Int) /\ Len(UnitsOf(t)) = Len(t)
        /\ \A k \in 1 .. Len(t) : UnitsOf(t)[k] = t[k].remaining
    BY <1>1, UnitsSeq
  <2> QED  BY <1>1, <2>1, <2>2
<1>3. /\ CostsOf(s) \in Seq(Int) /\ CostsOf(t) \in Seq(Int)
      /\ Len(CostsOf(s)) = Len(s) /\ Len(CostsOf(t)) = Len(s)
      /\ CostsOf(t)[i] = Held(r.share["cost"]) /\ CostsOf(s)[i] = Held(s[i].share["cost"])
      /\ \A k \in 1 .. Len(s) : k # i => CostsOf(t)[k] = CostsOf(s)[k]
  <2>1. /\ CostsOf(s) \in Seq(Int) /\ Len(CostsOf(s)) = Len(s)
        /\ \A k \in 1 .. Len(s) : CostsOf(s)[k] = Held(s[k].share["cost"])
    BY CostsSeq
  <2>2. /\ CostsOf(t) \in Seq(Int) /\ Len(CostsOf(t)) = Len(t)
        /\ \A k \in 1 .. Len(t) : CostsOf(t)[k] = Held(t[k].share["cost"])
    BY <1>1, CostsSeq
  <2> QED  BY <1>1, <2>1, <2>2
<1>4. /\ Total(UnitsOf(t)) = Total(UnitsOf(s)) + (UnitsOf(t)[i] - UnitsOf(s)[i])
      /\ \A k \in 0 .. Len(UnitsOf(s)) :
            Running(UnitsOf(t))[k] = Running(UnitsOf(s))[k]
               + IF k < i THEN 0 ELSE UnitsOf(t)[i] - UnitsOf(s)[i]
  <2> DEFINE a == UnitsOf(s)
             b == UnitsOf(t)
  <2> HIDE DEF a, b
  <2>1. a \in Seq(Int) /\ b \in Seq(Int) /\ Len(b) = Len(a) /\ i \in 1 .. Len(a)
        /\ \A k \in 1 .. Len(a) : k # i => b[k] = a[k]
    BY <1>2 DEF a, b
  <2>2. /\ Total(b) = Total(a) + (b[i] - a[i])
        /\ \A k \in 0 .. Len(a) : Running(b)[k] = Running(a)[k] + IF k < i THEN 0 ELSE b[i] - a[i]
    BY <2>1, SumPut
  <2> QED  BY <2>2 DEF a, b
<1>5. Total(CostsOf(t)) = Total(CostsOf(s)) + (CostsOf(t)[i] - CostsOf(s)[i])
  <2> DEFINE a == CostsOf(s)
             b == CostsOf(t)
  <2> HIDE DEF a, b
  <2>1. a \in Seq(Int) /\ b \in Seq(Int) /\ Len(b) = Len(a) /\ i \in 1 .. Len(a)
        /\ \A k \in 1 .. Len(a) : k # i => b[k] = a[k]
    BY <1>3 DEF a, b
  <2>2. Total(b) = Total(a) + (b[i] - a[i])
    BY <2>1, SumPut
  <2> QED  BY <2>2 DEF a, b
<1> QED  BY <1>2, <1>3, <1>4, <1>5

LEMMA PutParcel ==
    ASSUME NEW s \in Seq(ParcelType), NEW i \in 1 .. Len(s), NEW r \in ParcelType
    PROVE  LET t == [s EXCEPT ![i] = r] IN
           /\ Total(UnitsOf(t)) = Total(UnitsOf(s)) + (r.remaining - s[i].remaining)
           /\ Running(UnitsOf(t))[i] = Running(UnitsOf(s))[i] + (r.remaining - s[i].remaining)
           /\ Total(CostsOf(t)) = Total(CostsOf(s))
                                    + (Held(r.share["cost"]) - Held(s[i].share["cost"]))
<1> DEFINE t == [s EXCEPT ![i] = r]
<1>1. /\ t \in Seq(ParcelType) /\ Len(t) = Len(s)
      /\ \A k \in 1 .. Len(s) : t[k] = IF k = i THEN r ELSE s[k]
  OBVIOUS
<1>2. i \in 0 .. Len(s) /\ ~(i < i)
  OBVIOUS
<1> HIDE DEF t
<1>3. /\ Total(UnitsOf(t)) = Total(UnitsOf(s)) + (r.remaining - s[i].remaining)
      /\ Total(CostsOf(t)) = Total(CostsOf(s))
                               + (Held(r.share["cost"]) - Held(s[i].share["cost"]))
  BY <1>1, PutAt
<1>4. \A k \in 0 .. Len(s) :
          Running(UnitsOf(t))[k] = Running(UnitsOf(s))[k]
             + IF k < i THEN 0 ELSE r.remaining - s[i].remaining
  BY <1>1, PutAt
<1>5. Running(UnitsOf(t))[i] = Running(UnitsOf(s))[i] + (r.remaining - s[i].remaining)
  BY <1>2, <1>4
<1> QED  BY <1>3, <1>5 DEF t

\* A parcel taken out.
LEMMA DropParcel ==
    ASSUME NEW s \in Seq(ParcelType), NEW i \in 1 .. Len(s), NEW t \in Seq(ParcelType),
           Len(t) = Len(s) - 1,
           \A k \in 1 .. Len(s) - 1 : t[k] = s[IF k < i THEN k ELSE k + 1]
    PROVE  /\ Total(UnitsOf(t)) = Total(UnitsOf(s)) - s[i].remaining
           /\ Total(CostsOf(t)) = Total(CostsOf(s)) - Held(s[i].share["cost"])
<1> DEFINE from(k) == IF k < i THEN k ELSE k + 1
<1>1. /\ Len(s) \in Nat \ {0}
      /\ \A k \in 1 .. Len(s) - 1 : from(k) \in 1 .. Len(s) /\ k \in 1 .. Len(t) /\ t[k] = s[from(k)]
  OBVIOUS
<1> HIDE DEF from
<1>2. ASSUME NEW a \in Seq(Int), NEW b \in Seq(Int), Len(a) = Len(s), Len(b) = Len(s) - 1,
             \A k \in 1 .. Len(s) - 1 : b[k] = a[from(k)]
      PROVE  Total(b) = Total(a) - a[i]
  <2>1. i \in 1 .. Len(a) /\ Len(b) = Len(a) - 1
    BY <1>2
  <2>2. \A k \in 1 .. Len(a) - 1 : b[k] = a[IF k < i THEN k ELSE k + 1]
    BY <1>2 DEF from
  <2> QED  BY <2>1, <2>2, SumRemove
<1>3. /\ UnitsOf(s) \in Seq(Int) /\ UnitsOf(t) \in Seq(Int)
      /\ Len(UnitsOf(s)) = Len(s) /\ Len(UnitsOf(t)) = Len(s) - 1
      /\ UnitsOf(s)[i] = s[i].remaining
      /\ \A k \in 1 .. Len(s) - 1 : UnitsOf(t)[k] = UnitsOf(s)[from(k)]
  <2>1. /\ UnitsOf(s) \in Seq(Int) /\ Len(UnitsOf(s)) = Len(s)
        /\ \A k \in 1 .. Len(s) : UnitsOf(s)[k] = s[k].remaining
    BY UnitsSeq
  <2>2. /\ UnitsOf(t) \in Seq(Int) /\ Len(UnitsOf(t)) = Len(t)
        /\ \A k \in 1 .. Len(t) : UnitsOf(t)[k] = t[k].remaining
    BY UnitsSeq
  <2>3. \A k \in 1 .. Len(s) - 1 : UnitsOf(t)[k] = UnitsOf(s)[from(k)]
    BY <1>1, <2>1, <2>2, Zenon
  <2> QED  BY <2>1, <2>2, <2>3
<1>4. /\ CostsOf(s) \in Seq(Int) /\ CostsOf(t) \in Seq(Int)
      /\ Len(CostsOf(s)) = Len(s) /\ Len(CostsOf(t)) = Len(s) - 1
      /\ CostsOf(s)[i] = Held(s[i].share["cost"])
      /\ \A k \in 1 .. Len(s) - 1 : CostsOf(t)[k] = CostsOf(s)[from(k)]
  <2>1. /\ CostsOf(s) \in Seq(Int) /\ Len(CostsOf(s)) = Len(s)
        /\ \A k \in 1 .. Len(s) : CostsOf(s)[k] = Held(s[k].share["cost"])
    BY CostsSeq
  <2>2. /\ CostsOf(t) \in Seq(Int) /\ Len(CostsOf(t)) = Len(t)
        /\ \A k \in 1 .. Len(t) : CostsOf(t)[k] = Held(t[k].share["cost"])
    BY CostsSeq
  <2>3. \A k \in 1 .. Len(s) - 1 : CostsOf(t)[k] = CostsOf(s)[from(k)]
    BY <1>1, <2>1, <2>2, Zenon
  <2> QED  BY <2>1, <2>2, <2>3
<1>5. Total(UnitsOf(t)) = Total(UnitsOf(s)) - UnitsOf(s)[i]
  BY <1>2, <1>3
<1>6. Total(CostsOf(t)) = Total(CostsOf(s)) - CostsOf(s)[i]
  BY <1>2, <1>4
<1> QED  BY <1>3, <1>4, <1>5, <1>6

LEMMA AddParcel ==
    ASSUME NEW s \in Seq(ParcelType), NEW r \in ParcelType
    PROVE  /\ Total(UnitsOf(Append(s, r))) = Total(UnitsOf(s)) + r.remaining
           /\ Total(CostsOf(Append(s, r))) = Total(CostsOf(s)) + Held(r.share["cost"])
<1> DEFINE t == Append(s, r)
           i == Len(s) + 1
<1>1. /\ t \in Seq(ParcelType) /\ Len(t) = i /\ i \in 1 .. Len(t) /\ t[i] = r
      /\ Len(s) = Len(t) - 1 /\ Len(s) \in Nat
      /\ \A k \in 1 .. Len(t) - 1 : s[k] = t[k] /\ k < i
  OBVIOUS
<1> HIDE DEF t, i
<1>2. \A k \in 1 .. Len(t) - 1 : s[k] = t[IF k < i THEN k ELSE k + 1]
  BY <1>1
<1>3. /\ Total(UnitsOf(s)) = Total(UnitsOf(t)) - t[i].remaining
      /\ Total(CostsOf(s)) = Total(CostsOf(t)) - Held(t[i].share["cost"])
  BY <1>1, <1>2, DropParcel
<1>4. Total(UnitsOf(t)) \in Int /\ Total(CostsOf(t)) \in Int
  BY <1>1, UnitsSeq, CostsSeq, RunningIs
<1>5. r.remaining \in Int /\ Held(r.share["cost"]) \in Int
  BY DEF ParcelType, ShareNames, ShareType, Held
<1> QED  BY <1>1, <1>3, <1>4, <1>5 DEF t

LEMMA DropFirst ==
    ASSUME NEW s \in Seq(ParcelType), s # <<>>
    PROVE  /\ Total(UnitsOf(Tail(s))) = Total(UnitsOf(s)) - s[1].remaining
           /\ Total(CostsOf(Tail(s))) = Total(CostsOf(s)) - Held(s[1].share["cost"])
<1> DEFINE t == Tail(s)
<1>1. /\ t \in Seq(ParcelType) /\ Len(t) = Len(s) - 1 /\ 1 \in 1 .. Len(s)
      /\ \A k \in 1 .. Len(s) - 1 : t[k] = s[k + 1] /\ ~(k < 1)
  OBVIOUS
<1> HIDE DEF t
<1>2. \A k \in 1 .. Len(s) - 1 : t[k] = s[IF k < 1 THEN k ELSE k + 1]
  BY <1>1
<1>3. /\ Total(UnitsOf(t)) = Total(UnitsOf(s)) - s[1].remaining
      /\ Total(CostsOf(t)) = Total(CostsOf(s)) - Held(s[1].share["cost"])
  BY <1>1, <1>2, DropParcel
<1> QED  BY <1>3 DEF t

LEMMA TotalsAre ==
    ASSUME NEW s \in Seq(ParcelType)
    PROVE  /\ Total(UnitsOf(s)) \in Int /\ Total(CostsOf(s)) \in Int
           /\ Total(UnitsOf(s)) = Running(UnitsOf(s))[Len(s)]
           /\ Running(UnitsOf(s))[0] = 0
           /\ \A k \in 0 .. Len(s) : Running(UnitsOf(s))[k] \in Int
           /\ \A k \in 1 .. Len(s) :
                 Running(UnitsOf(s))[k] = Running(UnitsOf(s))[k - 1] + s[k].remaining
<1>1. /\ UnitsOf(s) \in Seq(Int) /\ Len(UnitsOf(s)) = Len(s)
      /\ \A k \in 1 .. Len(s) : UnitsOf(s)[k] = s[k].remaining
  BY UnitsSeq
<1>2. Sums(Running(UnitsOf(s)), UnitsOf(s), Len(s)) /\ Total(UnitsOf(s)) \in Int
  BY <1>1, RunningIs
<1>3. Total(CostsOf(s)) \in Int
  BY CostsSeq, RunningIs
<1> QED  BY <1>1, <1>2, <1>3 DEF Sums, Total

-----------------------------------------------------------------------------
(***************************************************************************)
(* What a loop makes of a parcel's units and cost.                         *)
(***************************************************************************)
LEMMA RestartedIs ==
    ASSUME NEW p \in ParcelType, NEW units, NEW known, NEW change
    PROVE  /\ RestartParcel(p, units, known, change).remaining = units
           /\ RestartParcel(p, units, known, change).share["cost"]
                 = Restart(p.share["cost"], known, change)
BY DEF RestartParcel, ParcelType, SharesOf, ShareNames

LEMMA TakenIs ==
    ASSUME NEW p \in ParcelType, NEW units
    PROVE  /\ Take(p, units).remaining = p.remaining - units
           /\ Take(p, units).share["cost"] =
                 [p.share["cost"] EXCEPT !.allotted =
                    Owed(p.share["cost"], p.quantity - (p.remaining - units), p.quantity)]
BY DEF Take, ParcelType, SharesOf, ShareNames

LEMMA DeemedIs ==
    ASSUME NEW p \in ParcelType, NEW known, NEW price
    PROVE  /\ Deemed(p, known, price).remaining = p.remaining
           /\ Deemed(p, known, price).share["cost"] = Restart(p.share["cost"], TRUE, 0)
<1> DEFINE again == RestartParcel(p, p.remaining, TRUE, 0)
           value == Share(known, p.remaining * price)
           share == [cost |-> again.share["cost"], value |-> value,
                     deferred |-> again.share["cost"], after |-> value]
<1>1. again.remaining = p.remaining /\ again.share["cost"] = Restart(p.share["cost"], TRUE, 0)
  BY DEF RestartParcel, ParcelType, SharesOf, ShareNames
<1>2. Deemed(p, known, price) = [again EXCEPT !.deemed = TRUE, !.share = share]
  BY DEF Deemed
<1>3. {"remaining", "share", "deemed"} \subseteq DOMAIN again
  BY DEF RestartParcel, ParcelType
<1>4. share["cost"] = again.share["cost"]
  OBVIOUS
<1> HIDE DEF again, share
<1> QED  BY <1>1, <1>2, <1>3, <1>4

LEMMA AbsorbedIs ==
    ASSUME NEW p \in ParcelType, NEW o
    PROVE  /\ Absorbed(p, o).remaining = p.remaining
           /\ Absorbed(p, o).share["cost"]
                 = Joined(p.share["cost"], o.share["cost"], o.share["cost"].total)
BY DEF Absorbed, ParcelType, ShareNames

-----------------------------------------------------------------------------
(***************************************************************************)
(* The units.  What the guard counts (`balance`) is what the parcels hold, *)
(* less what a sale under way has still to take; a split's tally counts    *)
(* what it goes over, and its second loop has given what its running total *)
(* says and left the rest as it was.                                       *)
(***************************************************************************)
UnitsCount ==
    /\ job.do \in {"idle", "absorb", "adjust", "deem"} => Total(UnitsOf(fifo)) = balance
    /\ job.do = "sell" => Total(UnitsOf(fifo)) = balance + job.held - job.seen
    /\ job.do = "tally" =>
          /\ Running(UnitsOf(fifo))[job.i - 1] = job.held
          /\ row.kind = "split" => balance = SplitUnits(Total(UnitsOf(fifo)), row.new, row.old)
          /\ row.kind = "adjust" => balance = Total(UnitsOf(fifo))
    /\ job.do = "share" =>
          /\ Running(UnitsOf(fifo))[job.i - 1] = job.given
          /\ Total(UnitsOf(fifo)) - job.given = job.held - job.seen
          /\ balance = SplitUnits(job.held, row.new, row.old)
    /\ job.do = "oversold" => balance < 0

\* The types the steps below need.
LEMMA StateIs ==
    ASSUME IInv
    PROVE  /\ fifo \in Seq(ParcelType) /\ job \in JobType /\ row \in RowType /\ balance \in Int
           /\ uses \in Seq(UseType) /\ book \in BookType
           /\ job.i \in Nat /\ job.held \in Nat /\ job.seen \in Nat /\ job.given \in Int
           /\ row.new \in Nat \ {0} /\ row.old \in Nat \ {0}
           /\ row.amount \in Int /\ row.known \in BOOLEAN
           /\ book.paid \in Int /\ book.billed \in Int /\ book.popped \in Nat
           /\ book.known \in BOOLEAN
           /\ Total(UnitsOf(fifo)) \in Int /\ Total(CostsOf(fifo)) \in Int
           /\ Len(fifo) \in Nat
BY TotalsAre DEF IInv, TypeOK, JobType, RowType, BookType

LEMMA SplitNothing == ASSUME NEW n \in Nat, NEW d \in Nat \ {0} PROVE SplitUnits(0, n, d) = 0
<1>1. 0 * n = 0
  OBVIOUS
<1> QED  BY <1>1, RoundZero DEF SplitUnits

LEMMA InitUnits == ASSUME Init PROVE UnitsCount
<1>1. fifo = <<>> /\ job.do = "idle" /\ balance = 0
  BY DEF Init, Idle, Job
<1>2. UnitsOf(fifo) = <<>>
  BY <1>1 DEF UnitsOf
<1> QED  BY <1>1, <1>2, SumNothing DEF UnitsCount

LEMMA BuyUnits ==
    ASSUME IInv, UnitsCount, NEW units \in Quantities, NEW outlay \in Costs,
           NEW known \in RateKnown, Buy(units, outlay, known)
    PROVE  UnitsCount'
<1> DEFINE p == NewParcel(units, known, outlay)
<1>1. units \in Nat /\ outlay \in Nat /\ known \in BOOLEAN /\ rows \in Nat /\ day \in Nat
  BY ParcelsAssumption DEF IInv, TypeOK
<1>2. p \in ParcelType /\ p.remaining = units
  <2>1. p.remaining = units
    BY DEF NewParcel
  <2> QED  BY <1>1, <2>1, NewParcelSound DEF Sound
<1>3. /\ job = Idle /\ job' = Idle /\ fifo' = Append(fifo, p) /\ balance' = balance + units
  BY DEF Buy, Walk
<1> HIDE DEF p
<1>4. fifo \in Seq(ParcelType)
  BY StateIs
<1>5. Total(UnitsOf(fifo')) = Total(UnitsOf(fifo)) + units
  BY <1>2, <1>3, <1>4, AddParcel
<1>6. Total(UnitsOf(fifo)) = balance /\ job'.do = "idle"
  BY <1>3 DEF UnitsCount, Idle, Job
<1> QED  BY <1>3, <1>5, <1>6 DEF UnitsCount

LEMMA SellUnits ==
    ASSUME IInv, UnitsCount, NEW units \in Quantities, NEW net \in Nets,
           NEW known \in RateKnown, Sell(units, net, known)
    PROVE  UnitsCount'
<1>1. units \in Nat
  BY ParcelsAssumption
<1>2. /\ job = Idle /\ job' = Job("sell", 1, units, 0, 0) /\ fifo' = fifo
      /\ balance' = balance - units
  BY DEF Sell, Walk
<1>3. Total(UnitsOf(fifo)) = balance /\ balance \in Int
  BY <1>2, StateIs DEF UnitsCount, Idle, Job
<1>4. job'.do = "sell" /\ job'.held = units /\ job'.seen = 0
  BY <1>2 DEF Job
<1>5. Total(UnitsOf(fifo')) = balance' + job'.held - job'.seen
  BY <1>1, <1>2, <1>3, <1>4
<1> QED  BY <1>4, <1>5 DEF UnitsCount

LEMMA SplitBegins ==
    ASSUME IInv, UnitsCount, NEW ratio \in Ratios, Split(ratio[1], ratio[2])
    PROVE  UnitsCount'
<1>1. /\ job = Idle /\ job' = Job("tally", 1, 0, 0, 0) /\ fifo' = fifo
      /\ row' = Row("split", 0, 0, TRUE, <<ratio[1], ratio[2]>>)
      /\ balance' = SplitUnits(balance, ratio[1], ratio[2])
  BY DEF Split, Walk
<1>2. Total(UnitsOf(fifo)) = balance
  BY <1>1 DEF UnitsCount, Idle, Job
<1>3. job'.do = "tally" /\ job'.i - 1 = 0 /\ job'.held = 0
  BY <1>1 DEF Job
<1>4. row'.kind = "split" /\ row'.new = ratio[1] /\ row'.old = ratio[2]
  BY <1>1 DEF Row
<1>5. Running(UnitsOf(fifo'))[0] = 0
  BY <1>1, StateIs, TotalsAre
<1>6. balance' = SplitUnits(Total(UnitsOf(fifo')), row'.new, row'.old)
  BY <1>1, <1>2, <1>4
<1> QED  BY <1>3, <1>4, <1>5, <1>6 DEF UnitsCount

LEMMA AdjustUnits ==
    ASSUME IInv, UnitsCount, NEW change \in Changes, NEW known \in RateKnown,
           Adjust(change, known)
    PROVE  UnitsCount'
<1>1. /\ job = Idle /\ job' = Job("tally", 1, 0, 0, 0) /\ fifo' = fifo
      /\ row' = Row("adjust", 0, change, known, <<1, 1>>) /\ balance' = balance
  BY DEF Adjust, Walk
<1>2. Total(UnitsOf(fifo)) = balance
  BY <1>1 DEF UnitsCount, Idle, Job
<1>3. job'.do = "tally" /\ job'.i - 1 = 0 /\ job'.held = 0
  BY <1>1 DEF Job
<1>4. row'.kind = "adjust"
  BY <1>1 DEF Row
<1>5. Running(UnitsOf(fifo'))[0] = 0
  BY <1>1, StateIs, TotalsAre
<1>6. balance' = Total(UnitsOf(fifo'))
  BY <1>1, <1>2
<1> QED  BY <1>3, <1>4, <1>5, <1>6 DEF UnitsCount

LEMMA NextDayUnits == ASSUME IInv, UnitsCount, NextDay PROVE UnitsCount'
<1>1. /\ job = Idle /\ fifo' = fifo /\ balance' = balance
      /\ job' = job \/ job' = Job("deem", 1, 0, 0, 0)
  BY DEF NextDay
<1>2. Total(UnitsOf(fifo)) = balance
  BY <1>1 DEF UnitsCount, Idle, Job
<1>3. job'.do \in {"idle", "deem"}
  BY <1>1 DEF Idle, Job
<1>4. Total(UnitsOf(fifo')) = balance'
  BY <1>1, <1>2
<1> QED  BY <1>3, <1>4 DEF UnitsCount

LEMMA TakeHeadUnits == ASSUME IInv, UnitsCount, TakeHead, IInv' PROVE UnitsCount'
<1> DEFINE taking == Lesser(At.remaining, job.held - job.seen)
           taken == Take(At, taking)
<1>1. /\ job.do = "sell" /\ job.i \in 1 .. Len(fifo) /\ Fixed
      /\ job'.do = job.do /\ job'.held = job.held /\ job'.seen = job.seen + taking
      /\ fifo' = IF taken.remaining = 0 THEN Tail(fifo) ELSE [fifo EXCEPT ![1] = taken]
  BY StateIs DEF TakeHead, Looping, JobType
<1>2. /\ fifo \in Seq(ParcelType) /\ fifo' \in Seq(ParcelType) /\ job.i = 1
      /\ Len(fifo) \in Nat /\ Total(UnitsOf(fifo)) \in Int
      /\ job.held \in Nat /\ job.seen \in Nat /\ balance \in Int
  BY <1>1, StateIs DEF SellOK, IInv, TypeOK
<1>3. /\ At \in ParcelType /\ At.remaining \in Nat /\ At = fifo[1] /\ taking \in Int
  BY <1>1, <1>2, AtParcel DEF At, Lesser
<1>4. taken.remaining = At.remaining - taking
  BY <1>3, TakenIs
<1> HIDE DEF taken, taking
<1>5. Total(UnitsOf(fifo')) = Total(UnitsOf(fifo)) - taking
  <2>1. CASE taken.remaining = 0
    <3>1. fifo' = Tail(fifo) /\ fifo # <<>>
      BY <1>1, <1>2, <2>1
    <3>2. Total(UnitsOf(fifo')) = Total(UnitsOf(fifo)) - fifo[1].remaining
      BY <1>2, <3>1, DropFirst
    <3> QED  BY <1>3, <1>4, <2>1, <3>2
  <2>2. CASE taken.remaining # 0
    <3>1. fifo' = [fifo EXCEPT ![1] = taken] /\ 1 \in 1 .. Len(fifo)
      BY <1>1, <1>2, <2>2
    <3>2. taken \in ParcelType
      <4>1. fifo'[1] = taken /\ 1 \in 1 .. Len(fifo')
        BY <1>2, <3>1
      <4> QED  BY <1>2, <4>1
    <3>3. Total(UnitsOf([fifo EXCEPT ![1] = taken]))
             = Total(UnitsOf(fifo)) + (taken.remaining - fifo[1].remaining)
      BY <1>2, <3>1, <3>2, PutParcel
    <3> QED  BY <1>2, <1>3, <1>4, <3>1, <3>3
  <2> QED  BY <2>1, <2>2
<1>6. Total(UnitsOf(fifo)) = balance + job.held - job.seen
  BY <1>1 DEF UnitsCount
<1>7. balance' = balance
  BY <1>1 DEF Fixed
<1>8. Total(UnitsOf(fifo')) = balance' + job'.held - job'.seen
  <2> DEFINE had == Total(UnitsOf(fifo))
             has == Total(UnitsOf(fifo'))
             held == job.held
             seen == job.seen
             left == balance
  <2>1. has = had - taking /\ had = left + held - seen
    BY <1>5, <1>6
  <2>2. balance' = left /\ job'.held = held /\ job'.seen = seen + taking
    BY <1>1, <1>2, <1>7 DEF JobType
  <2>3. had \in Int /\ held \in Int /\ seen \in Int /\ left \in Int /\ taking \in Int
    BY <1>2, <1>3
  <2> HIDE DEF had, has, held, seen, left
  <2>4. has = left + held - (seen + taking)
    BY <2>1, <2>3
  <2> QED  BY <2>2, <2>4 DEF has
<1> QED  BY <1>1, <1>8 DEF UnitsCount

LEMMA StopsUnits ==
    ASSUME IInv, UnitsCount, Sold \/ Oversell \/ AllDeemed \/ Crash
    PROVE  UnitsCount'
<1>1. fifo' = fifo /\ balance' = balance
  BY DEF Sold, Oversell, AllDeemed, Crash, Fixed
<1>2. /\ job.held \in Nat /\ job.seen \in Nat /\ balance \in Int /\ job \in JobType
      /\ Total(UnitsOf(fifo)) \in Int
  BY StateIs
<1>3. CASE Sold
  <2>1. job.do = "sell" /\ job.seen = job.held /\ job'.do = "idle"
    BY <1>3 DEF Sold, Idle, Job
  <2>2. Total(UnitsOf(fifo')) = balance'
    BY <1>1, <1>2, <2>1 DEF UnitsCount
  <2> QED  BY <2>1, <2>2 DEF UnitsCount
<1>4. CASE Oversell
  <2>1. job.do = "sell" /\ job.seen < job.held /\ fifo = <<>> /\ job'.do = "oversold"
    BY <1>2, <1>4 DEF Oversell, JobType
  <2>2. Total(UnitsOf(fifo)) = 0
    <3>1. UnitsOf(fifo) = <<>>
      BY <2>1 DEF UnitsOf
    <3> QED  BY <3>1, SumNothing
  <2>3. balance' < 0
    BY <1>1, <1>2, <2>1, <2>2 DEF UnitsCount
  <2> QED  BY <2>1, <2>3 DEF UnitsCount
<1>5. CASE AllDeemed
  <2>1. job.do = "deem" /\ job'.do = "idle"
    BY <1>5 DEF AllDeemed, Idle, Job
  <2>2. Total(UnitsOf(fifo')) = balance'
    BY <1>1, <2>1 DEF UnitsCount
  <2> QED  BY <2>1, <2>2 DEF UnitsCount
<1>6. CASE Crash
  <2>1. job'.do = "crashed"
    BY <1>2, <1>6 DEF Crash, JobType
  <2> QED  BY <2>1 DEF UnitsCount
<1> QED  BY <1>3, <1>4, <1>5, <1>6

LEMMA TallyUnits == ASSUME IInv, UnitsCount, Tally PROVE UnitsCount'
<1> DEFINE k == job.i
           r == At.remaining
<1>1. /\ job.do = "tally" /\ k \in 1 .. Len(fifo) /\ Fixed /\ fifo' = fifo
      /\ job' = [job EXCEPT !.i = k + 1, !.held = job.held + r]
  BY DEF Tally
<1>2. fifo \in Seq(ParcelType) /\ job \in JobType /\ k \in Nat /\ r = fifo[k].remaining
  BY StateIs DEF At
<1>3. job'.do = "tally" /\ job'.i = k + 1 /\ job'.held = job.held + r
  BY <1>1, <1>2 DEF JobType
<1>4. row' = row /\ balance' = balance
  BY <1>1 DEF Fixed
<1>5. Running(UnitsOf(fifo))[k] = Running(UnitsOf(fifo))[k - 1] + r
  BY <1>1, <1>2, TotalsAre
<1>6. Running(UnitsOf(fifo))[k - 1] = job.held
  BY <1>1 DEF UnitsCount
<1> HIDE DEF k, r
<1>7. Running(UnitsOf(fifo'))[job'.i - 1] = job'.held
  <2>1. job'.i - 1 = k
    BY <1>2, <1>3
  <2> QED  BY <1>1, <1>3, <1>5, <1>6, <2>1
<1>8. /\ row'.kind = "split" => balance' = SplitUnits(Total(UnitsOf(fifo')), row'.new, row'.old)
      /\ row'.kind = "adjust" => balance' = Total(UnitsOf(fifo'))
  BY <1>1, <1>4 DEF UnitsCount
<1> QED  BY <1>3, <1>7, <1>8 DEF UnitsCount

LEMMA TalliedUnits == ASSUME IInv, UnitsCount, Tallied PROVE UnitsCount'
<1>1. /\ job.do = "tally" /\ job.i > Len(fifo) /\ Fixed /\ fifo' = fifo
  BY DEF Tallied
<1>2. row' = row /\ balance' = balance
  BY <1>1 DEF Fixed
<1>3. /\ row.kind \in {"split", "adjust"} /\ job.i - 1 = Len(fifo)
      /\ job.held \in Nat /\ row.new \in Nat \ {0} /\ row.old \in Nat \ {0}
      /\ fifo \in Seq(ParcelType)
  <2>1. /\ job.held \in Nat /\ row.new \in Nat \ {0} /\ row.old \in Nat \ {0}
        /\ fifo \in Seq(ParcelType) /\ Len(fifo) \in Nat
    BY StateIs
  <2>2. row.kind \in {"split", "adjust"} /\ job.i \in 1 .. Len(fifo) + 1
    BY <1>1 DEF IInv, TallyOK
  <2> QED  BY <1>1, <2>1, <2>2
<1>4. Total(UnitsOf(fifo)) = job.held
  BY <1>1, <1>3, TotalsAre DEF UnitsCount
<1>5. /\ row.kind = "split" => balance = SplitUnits(job.held, row.new, row.old)
      /\ row.kind = "adjust" => balance = job.held
  BY <1>1, <1>4 DEF UnitsCount
<1>6. CASE job.held = 0
  <2>1. job'.do = "idle"
    BY <1>6 DEF Tallied, Idle, Job
  <2>2. balance = 0
    BY <1>3, <1>5, <1>6, SplitNothing
  <2>3. Total(UnitsOf(fifo')) = balance'
    BY <1>1, <1>2, <1>4, <1>6, <2>2
  <2> QED  BY <2>1, <2>3 DEF UnitsCount
<1>7. CASE job.held # 0 /\ row.kind = "split"
  <2>1. job' = Job("share", 1, job.held, 0, 0)
    BY <1>7 DEF Tallied
  <2>2. /\ job'.do = "share" /\ job'.i - 1 = 0 /\ job'.held = job.held /\ job'.seen = 0
        /\ job'.given = 0
    BY <2>1 DEF Job
  <2>3. Running(UnitsOf(fifo'))[job'.i - 1] = job'.given
    BY <1>1, <1>3, <2>2, TotalsAre
  <2>4. Total(UnitsOf(fifo')) - job'.given = job'.held - job'.seen
    BY <1>1, <1>4, <2>2
  <2>5. balance' = SplitUnits(job'.held, row'.new, row'.old)
    BY <1>2, <1>5, <1>7, <2>2
  <2> QED  BY <2>2, <2>3, <2>4, <2>5 DEF UnitsCount
<1>8. CASE job.held # 0 /\ row.kind = "adjust"
  <2>1. job'.do = "adjust"
    BY <1>8 DEF Tallied, Job
  <2>2. Total(UnitsOf(fifo')) = balance'
    BY <1>1, <1>2, <1>4, <1>5, <1>8
  <2> QED  BY <2>1, <2>2 DEF UnitsCount
<1> QED  BY <1>3, <1>6, <1>7, <1>8

LEMMA ShareOutUnits == ASSUME IInv, UnitsCount, ShareOut, IInv' PROVE UnitsCount'
<1> DEFINE total == SplitUnits(job.held, row.new, row.old)
           rem == At.remaining
           seen == job.seen + rem
           upTo == UpTo(total, seen)
           r == RestartParcel(At, upTo - job.given, TRUE, 0)
<1>1. /\ job.do = "share" /\ job.i \in 1 .. Len(fifo) /\ Fixed
      /\ fifo' = [fifo EXCEPT ![job.i] = r]
      /\ job.i = Len(fifo) => job' = Job("absorb", Len(fifo), 0, 0, 0) /\ upTo = total
      /\ job.i # Len(fifo) => job' = [job EXCEPT !.i = @ + 1, !.seen = seen, !.given = upTo]
  BY DEF ShareOut, Looping, Advance, UpTo
<1>2. /\ fifo \in Seq(ParcelType) /\ fifo' \in Seq(ParcelType) /\ job \in JobType
      /\ job.i \in Nat /\ Len(fifo) \in Nat /\ job.given \in Int
      /\ job.held \in Nat /\ job.seen \in Nat
  BY StateIs DEF IInv, TypeOK
<1>3. At \in ParcelType /\ rem \in Nat /\ At = fifo[job.i]
  BY <1>1, AtParcel DEF At
<1>4. /\ Running(UnitsOf(fifo))[job.i - 1] = job.given
      /\ Total(UnitsOf(fifo)) - job.given = job.held - job.seen
      /\ balance = total
  BY <1>1 DEF UnitsCount
<1>5. /\ Running(UnitsOf(fifo))[job.i] = job.given + rem
      /\ Total(UnitsOf(fifo)) \in Int
  <2>1. /\ Total(UnitsOf(fifo)) \in Int
        /\ \A k \in 1 .. Len(fifo) :
              Running(UnitsOf(fifo))[k] = Running(UnitsOf(fifo))[k - 1] + fifo[k].remaining
    BY <1>2, TotalsAre
  <2>2. Running(UnitsOf(fifo))[job.i] = Running(UnitsOf(fifo))[job.i - 1] + fifo[job.i].remaining
    BY <1>1, <2>1
  <2> QED  BY <1>3, <1>4, <2>1, <2>2
<1>6. seen = job.seen + rem /\ seen \in Nat
  BY <1>2, <1>3
<1> HIDE DEF seen
<1>7. upTo \in Int
  <2>1. total \in Int
    <3>0. row.new \in Nat \ {0} /\ row.old \in Nat \ {0}
      BY StateIs
    <3>1. row.new \in Nat /\ row.old \in Nat \ {0} /\ job.held * row.new \in Int
      BY <1>2, <3>0
    <3> QED  BY <3>1, RoundIsInt DEF SplitUnits
  <2>2. job.held # 0
    BY <1>1 DEF IInv, ShareOK
  <2> HIDE DEF total
  <2>3. total * seen \in Int
    BY <1>6, <2>1
  <2>4. RoundHalfEven(total * seen, job.held) \in Int
    BY <1>2, <2>2, <2>3, RoundIsInt
  <2> QED  BY <2>1, <2>4 DEF UpTo
<1> HIDE DEF upTo, rem
<1>8. r.remaining = upTo - job.given
  <2> DEFINE p == At
             u == upTo - job.given
  <2>1. p \in ParcelType
    BY <1>3
  <2> HIDE DEF p, u
  <2>2. RestartParcel(p, u, TRUE, 0).remaining = u
    BY <2>1 DEF RestartParcel, ParcelType
  <2> QED  BY <2>2 DEF p, u
<1> HIDE DEF r
<1>9. r \in ParcelType
  <2>1. fifo'[job.i] = r /\ job.i \in 1 .. Len(fifo')
    BY <1>1, <1>2
  <2> QED  BY <1>2, <2>1
<1>10. /\ Total(UnitsOf(fifo')) = Total(UnitsOf(fifo)) + (r.remaining - rem)
       /\ Running(UnitsOf(fifo'))[job.i] = Running(UnitsOf(fifo))[job.i] + (r.remaining - rem)
  <2>1. LET t == [fifo EXCEPT ![job.i] = r] IN
        /\ Total(UnitsOf(t)) = Total(UnitsOf(fifo)) + (r.remaining - fifo[job.i].remaining)
        /\ Running(UnitsOf(t))[job.i]
              = Running(UnitsOf(fifo))[job.i] + (r.remaining - fifo[job.i].remaining)
    BY <1>1, <1>2, <1>9, PutParcel
  <2>2. fifo[job.i].remaining = rem
    BY <1>3 DEF rem
  <2> QED  BY <1>1, <2>1, <2>2
<1>11. Running(UnitsOf(fifo'))[job.i] = upTo
  BY <1>2, <1>3, <1>5, <1>7, <1>8, <1>10
<1>12. Total(UnitsOf(fifo')) - upTo = job.held - seen
  <2> DEFINE a == Total(UnitsOf(fifo))
             b == Total(UnitsOf(fifo'))
  <2>1. a \in Int /\ a - job.given = job.held - job.seen /\ b = a + ((upTo - job.given) - rem)
    BY <1>4, <1>5, <1>8, <1>10
  <2> HIDE DEF a, b
  <2> DEFINE g == job.given
             h == job.held
             m == job.seen
  <2>2. g \in Int /\ h \in Int /\ m \in Int /\ rem \in Int
    BY <1>2, <1>3
  <2>3. a - g = h - m /\ b = a + ((upTo - g) - rem)
    BY <2>1
  <2> HIDE DEF g, h, m
  <2>4. b - upTo = h - (m + rem)
    BY <1>7, <2>1, <2>2, <2>3
  <2> QED  BY <1>6, <2>4 DEF b, h, m
<1>13. row' = row /\ balance' = balance
  BY <1>1 DEF Fixed
<1>14. CASE job.i = Len(fifo)
  <2>1. job'.do = "absorb" /\ upTo = total
    BY <1>1, <1>14 DEF Job
  <2>2. Len(fifo') = Len(fifo)
    BY <1>1, <1>2
  <2>3. Total(UnitsOf(fifo')) = upTo
    BY <1>2, <1>11, <1>14, <2>2, TotalsAre
  <2>4. Total(UnitsOf(fifo')) = balance'
    BY <1>4, <1>13, <2>1, <2>3
  <2> QED  BY <2>1, <2>4 DEF UnitsCount
<1>15. CASE job.i # Len(fifo)
  <2>1. /\ job'.do = "share" /\ job'.i = job.i + 1 /\ job'.held = job.held
        /\ job'.seen = seen /\ job'.given = upTo
    <3> DEFINE i == job.i + 1
               next == [job EXCEPT !.i = i, !.seen = seen, !.given = upTo]
    <3>1. job' = next
      BY <1>1, <1>15
    <3> HIDE DEF i
    <3>2. /\ next.do = job.do /\ next.i = i /\ next.held = job.held
          /\ next.seen = seen /\ next.given = upTo
      BY <1>2 DEF JobType
    <3> HIDE DEF next
    <3> QED  BY <1>1, <3>1, <3>2 DEF i
  <2>2. balance' = SplitUnits(job'.held, row'.new, row'.old)
    BY <1>4, <1>13, <2>1 DEF total
  <2>3. job'.i - 1 = job.i
    BY <1>2, <2>1
  <2> QED  BY <1>11, <1>12, <2>1, <2>2, <2>3 DEF UnitsCount
<1> QED  BY <1>14, <1>15

LEMMA AbsorbUnits == ASSUME IInv, UnitsCount, Absorb, IInv' PROVE UnitsCount'
<1> DEFINE into == IF job.i < Len(fifo) THEN job.i + 1 ELSE job.i - 1
           r == Absorbed(fifo[into], At)
           joined == [fifo EXCEPT ![into] = r]
<1>1. /\ job.do = "absorb" /\ job.i \in 1 .. Len(fifo) /\ Fixed
      /\ \/ At.remaining = 0 /\ Len(fifo) > 1 /\ fifo' = RemoveAt(joined, job.i)
         \/ fifo' = fifo
      /\ job' = IF job.i = 1 THEN Idle ELSE [job EXCEPT !.i = @ - 1]
  BY DEF Absorb
<1>2. /\ fifo \in Seq(ParcelType) /\ job \in JobType /\ job.i \in Nat /\ Len(fifo) \in Nat
      /\ \A k \in 1 .. Len(fifo) : Sound(fifo[k]) /\ Fresh(fifo[k])
  BY <1>1, StateIs DEF IInv, Queue, AbsorbOK
<1>3. job'.do \in {"idle", "absorb"}
  BY <1>1, <1>2 DEF Idle, Job, JobType
<1>4. Total(UnitsOf(fifo')) = Total(UnitsOf(fifo))
  <2>1. CASE At.remaining = 0 /\ Len(fifo) > 1 /\ fifo' = RemoveAt(joined, job.i)
    <3>1. into \in 1 .. Len(fifo) /\ into # job.i
      BY <1>1, <1>2, <2>1
    <3> HIDE DEF into
    <3>2. fifo[into] \in ParcelType /\ r \in ParcelType
      <4>1. Sound(At) /\ Fresh(At) /\ Sound(fifo[into]) /\ Fresh(fifo[into])
        BY <1>1, <1>2, <3>1 DEF At
      <4> QED  BY <4>1, AbsorbedSound DEF Sound
    <3>3. r.remaining = fifo[into].remaining
      BY <3>2, AbsorbedIs
    <3> HIDE DEF r
    <3>4. Total(UnitsOf(joined)) = Total(UnitsOf(fifo)) + (r.remaining - fifo[into].remaining)
      BY <1>2, <3>1, <3>2, PutParcel
    <3>5. joined \in Seq(ParcelType) /\ Len(joined) = Len(fifo) /\ joined[job.i] = At
      BY <1>1, <1>2, <3>1, <3>2 DEF At
    <3> HIDE DEF joined
    <3>6. /\ fifo' \in Seq(ParcelType) /\ Len(fifo') = Len(joined) - 1
          /\ \A k \in 1 .. Len(joined) - 1 :
                fifo'[k] = joined[IF k < job.i THEN k ELSE k + 1]
      BY <1>1, <2>1, <3>5, RemoveAtItems
    <3>7. Total(UnitsOf(fifo')) = Total(UnitsOf(joined)) - At.remaining
      BY <1>1, <3>5, <3>6, DropParcel
    <3>8. fifo[into].remaining \in Int /\ Total(UnitsOf(fifo)) \in Int
      <4>1. fifo[into].remaining \in Int
        BY <3>2 DEF ParcelType
      <4>2. Total(UnitsOf(fifo)) \in Int
        BY StateIs
      <4> QED  BY <4>1, <4>2
    <3> QED  BY <2>1, <3>3, <3>4, <3>7, <3>8
  <2> QED  BY <1>1, <2>1
<1>5. Total(UnitsOf(fifo')) = balance'
  BY <1>1, <1>4 DEF UnitsCount, Fixed
<1> QED  BY <1>3, <1>5 DEF UnitsCount

\* A loop that begins a parcel's cost again and leaves its units.
LEMMA TurnUnits ==
    ASSUME IInv, UnitsCount, IInv', AdjustNext \/ DeemNext
    PROVE  UnitsCount'
<1>1. PICK r : /\ fifo' = [fifo EXCEPT ![job.i] = r]
               /\ At \in ParcelType => r.remaining = At.remaining
  <2>1. CASE AdjustNext
    <3> DEFINE part == (row.amount * (job.seen + At.remaining)) \div job.held - job.given
               p == RestartParcel(At, At.remaining, row.known, part)
    <3>1. fifo' = [fifo EXCEPT ![job.i] = p]
      BY <2>1 DEF AdjustNext
    <3>2. At \in ParcelType => p.remaining = At.remaining
      <4> DEFINE x == At
                 known == row.known
      <4> HIDE DEF x, known, part
      <4>1. x \in ParcelType => RestartParcel(x, x.remaining, known, part).remaining = x.remaining
        BY RestartedIs
      <4> QED  BY <4>1 DEF x, known
    <3> HIDE DEF p
    <3> QED  BY <3>1, <3>2
  <2>2. CASE DeemNext
    <3> DEFINE p == Deemed(At, row.known, row.amount)
    <3>1. fifo' = [fifo EXCEPT ![job.i] = p]
      BY <2>2 DEF DeemNext
    <3>2. At \in ParcelType => p.remaining = At.remaining
      BY DeemedIs, Zenon
    <3> HIDE DEF p
    <3> QED  BY <3>1, <3>2
  <2> QED  BY <2>1, <2>2
<1>2. /\ job.do \in {"adjust", "deem"} /\ job.i \in 1 .. Len(fifo) /\ Fixed
      /\ job'.do \in {"idle", "adjust", "deem"}
  <2>1. job \in JobType
    BY StateIs
  <2>2. CASE AdjustNext
    <3>1. job.do = "adjust" /\ job.i \in 1 .. Len(fifo) /\ Fixed
      BY <2>2 DEF AdjustNext, Looping
    <3>2. job' = Idle \/ \E given, seen : Advance(given, seen)
      BY <2>2 DEF AdjustNext
    <3>3. job'.do \in {"idle", "adjust"}
      <4>1. CASE job' = Idle
        BY <4>1 DEF Idle, Job
      <4>2. ASSUME NEW given, NEW seen, Advance(given, seen) PROVE job'.do = job.do
        BY <2>1, <4>2 DEF Advance, JobType
      <4> QED  BY <3>1, <3>2, <4>1, <4>2
    <3> QED  BY <3>1, <3>3
  <2>3. CASE DeemNext
    BY <2>1, <2>3 DEF DeemNext, Looping, Advance, JobType
  <2> QED  BY <2>2, <2>3
<1>3. fifo \in Seq(ParcelType) /\ fifo' \in Seq(ParcelType) /\ At \in ParcelType /\ At = fifo[job.i]
      /\ At.remaining \in Int
  <2>1. fifo \in Seq(ParcelType) /\ fifo' \in Seq(ParcelType)
    BY DEF IInv, TypeOK
  <2>2. At = fifo[job.i]
    BY DEF At
  <2>3. At \in ParcelType /\ At.remaining \in Nat
    BY <1>2, AtParcel
  <2> QED  BY <2>1, <2>2, <2>3
<1>4. r \in ParcelType
  <2>1. fifo'[job.i] = r /\ job.i \in 1 .. Len(fifo')
    BY <1>1, <1>2, <1>3
  <2> QED  BY <1>3, <2>1
<1>5. Total(UnitsOf([fifo EXCEPT ![job.i] = r]))
         = Total(UnitsOf(fifo)) + (r.remaining - fifo[job.i].remaining)
  BY <1>2, <1>3, <1>4, PutParcel
<1>6. Total(UnitsOf(fifo')) = Total(UnitsOf(fifo))
  <2>1. Total(UnitsOf(fifo)) \in Int /\ r.remaining = At.remaining
    BY <1>1, <1>3, StateIs
  <2> QED  BY <1>1, <1>3, <1>5, <2>1
<1>7. Total(UnitsOf(fifo')) = balance'
  BY <1>2, <1>6 DEF UnitsCount, Fixed
<1> QED  BY <1>2, <1>7 DEF UnitsCount

LEMMA NextUnits == ASSUME IInv, UnitsCount, [Next]_vars PROVE UnitsCount'
<1>0. IInv'
  BY NextIInv
<1>1. CASE UNCHANGED vars
  BY <1>1 DEF vars, UnitsCount
<1>2. CASE Next
  <2>1. ASSUME NEW units \in Quantities, NEW known \in RateKnown, NEW outlay \in Costs,
               Buy(units, outlay, known)
        PROVE  UnitsCount'
    BY <2>1, BuyUnits
  <2>2. ASSUME NEW units \in Quantities, NEW known \in RateKnown, NEW net \in Nets,
               Sell(units, net, known)
        PROVE  UnitsCount'
    BY <2>2, SellUnits
  <2>3. ASSUME NEW ratio \in Ratios, Split(ratio[1], ratio[2]) PROVE UnitsCount'
    BY <2>3, SplitBegins
  <2>4. ASSUME NEW change \in Changes, NEW known \in RateKnown, Adjust(change, known)
        PROVE  UnitsCount'
    BY <2>4, AdjustUnits
  <2>5. CASE NextDay
    BY <2>5, NextDayUnits
  <2>6. CASE Loop
    BY <1>0, <2>6, TakeHeadUnits, StopsUnits, TallyUnits, TalliedUnits, ShareOutUnits,
       AbsorbUnits, TurnUnits DEF Loop
  <2> QED  BY <1>2, <2>1, <2>2, <2>3, <2>4, <2>5, <2>6 DEF Next
<1> QED  BY <1>1, <1>2

-----------------------------------------------------------------------------
(***************************************************************************)
(* The proceeds.  A sale's uses have been given what the running total     *)
(* owes the units matched so far, and all of them are the whole of it, as  *)
(* the money received is whole cents.                                      *)
(***************************************************************************)
ProceedsCount ==
    /\ row.kind = "sell" => \E net \in Int : row.amount = net * Grain
    /\ job.do = "sell" /\ row.known =>
          Total(ProceedsOf(uses)) = job.given /\ job.given = ProceedsOwed(job.seen)
    /\ job.do = "idle" /\ row.kind = "sell" /\ row.known =>
          Total(ProceedsOf(uses)) = row.amount

LEMMA WholeSale ==
    ASSUME NEW net \in Int, NEW n \in Nat \ {0}
    PROVE  Cents((net * Grain) * n, n) = net * Grain
<1>1. Grain \in Nat \ {0} /\ net * Grain \in Int
  BY ParcelsAssumption
<1> DEFINE m == net * Grain
<1> HIDE DEF m
<1>2. m \in Int
  BY <1>1 DEF m
<1>3. RoundHalfEven(m * n, Grain * n) = RoundHalfEven(m, Grain)
  BY <1>1, <1>2, RoundCancel, Zenon
<1>4. RoundHalfEven(m, Grain) = net
  BY <1>1, RoundExact DEF m
<1>5. Grain * n = n * Grain /\ Grain * net = net * Grain
  BY <1>1
<1> QED  BY <1>3, <1>4, <1>5 DEF Cents, m

LEMMA AddUse ==
    ASSUME NEW s \in Seq(UseType), NEW u \in UseType
    PROVE  Total(ProceedsOf(Append(s, u))) = Total(ProceedsOf(s)) + u.proceeds
<1> DEFINE t == Append(s, u)
           i == Len(s) + 1
           a == ProceedsOf(t)
           b == ProceedsOf(s)
<1>1. /\ t \in Seq(UseType) /\ Len(t) = i /\ i \in 1 .. Len(t) /\ t[i] = u
      /\ Len(s) = Len(t) - 1 /\ Len(s) \in Nat
      /\ \A k \in 1 .. Len(s) : s[k] = t[k] /\ k < i /\ k \in 1 .. Len(t)
  OBVIOUS
<1> HIDE DEF t, i
<1>2. /\ a \in Seq(Int) /\ Len(a) = Len(t) /\ \A k \in 1 .. Len(t) : a[k] = t[k].proceeds
  BY <1>1, ProceedsSeq
<1>3. /\ b \in Seq(Int) /\ Len(b) = Len(s) /\ \A k \in 1 .. Len(s) : b[k] = s[k].proceeds
  BY ProceedsSeq
<1> HIDE DEF a, b
<1>4. i \in 1 .. Len(a) /\ Len(b) = Len(a) - 1 /\ a[i] = u.proceeds
  BY <1>1, <1>2, <1>3
<1>5. \A k \in 1 .. Len(a) - 1 : b[k] = a[IF k < i THEN k ELSE k + 1]
  BY <1>1, <1>2, <1>3
<1>6. Total(b) = Total(a) - a[i]
  BY <1>2, <1>3, <1>4, <1>5, SumRemove
<1>7. Total(a) \in Int /\ u.proceeds \in Int
  BY <1>2, RunningIs DEF UseType
<1> QED  BY <1>4, <1>6, <1>7 DEF a, b, t

LEMMA SellProceeds ==
    ASSUME NEW units \in Quantities, NEW net \in Nets, NEW known \in RateKnown,
           Sell(units, net, known)
    PROVE  ProceedsCount'
<1>1. units \in Nat \ {0} /\ net \in Int
  BY ParcelsAssumption
<1>2. /\ row' = Row("sell", units, net * Grain, known, <<1, 1>>) /\ uses' = <<>>
      /\ job' = Job("sell", 1, units, 0, 0)
  BY DEF Sell, Walk
<1>3. row'.kind = "sell" /\ row'.amount = net * Grain
  BY <1>2 DEF Row
<1>4. job'.do = "sell" /\ job'.given = 0 /\ job'.seen = 0 /\ job'.held = units
  BY <1>2 DEF Job
<1>5. Total(ProceedsOf(uses')) = 0
  <2>1. ProceedsOf(uses') = <<>>
    BY <1>2 DEF ProceedsOf
  <2> QED  BY <2>1, SumNothing
<1>6. ProceedsOwed(job.seen)' = 0
  <2>1. row'.amount * 0 = 0
    <3>1. Grain \in Nat
      BY ParcelsAssumption
    <3>2. net * Grain \in Int
      BY <1>1, <3>1
    <3> QED  BY <1>3, <3>2
  <2> QED  BY <1>1, <1>4, <2>1, CentsZero DEF ProceedsOwed
<1> QED  BY <1>1, <1>3, <1>4, <1>5, <1>6 DEF ProceedsCount

LEMMA TakeHeadProceeds ==
    ASSUME IInv, IInv', ProceedsCount, TakeHead
    PROVE  ProceedsCount'
<1> DEFINE taking == Lesser(At.remaining, job.held - job.seen)
           owed == ProceedsOwed(job.seen + taking)
<1>1. PICK use : uses' = Append(uses, use) /\ use.proceeds = owed - job.given
  <2> DEFINE use == Use(At, taking, Base(At).known, Billed(At, Take(At, taking), BaseName(At)),
                        row.known, owed - job.given)
  <2>1. uses' = Append(uses, use)
    BY DEF TakeHead
  <2>2. use.proceeds = owed - job.given
    BY DEF Use
  <2> HIDE DEF use
  <2> QED  BY <2>1, <2>2
<1>2. /\ job.do = "sell" /\ Fixed /\ job' = [job EXCEPT !.seen = job.seen + taking, !.given = owed]
  BY DEF TakeHead, Looping
<1>3. /\ uses \in Seq(UseType) /\ uses' \in Seq(UseType) /\ job \in JobType
      /\ job'.given \in Int
  BY StateIs DEF IInv, TypeOK, JobType
<1> HIDE DEF taking
<1>4. /\ job'.do = "sell" /\ job'.seen = job.seen + taking /\ job'.given = owed
      /\ job'.held = job.held /\ row' = row
  <2> DEFINE m == job.seen + taking
             next == [job EXCEPT !.seen = m, !.given = owed]
  <2>1. job' = next
    BY <1>2
  <2> HIDE DEF m, owed
  <2>2. /\ next.do = job.do /\ next.seen = m /\ next.given = owed /\ next.held = job.held
    BY <1>3 DEF JobType
  <2> HIDE DEF next
  <2> QED  BY <1>2, <2>1, <2>2 DEF m, Fixed
<1>5. use \in UseType
  <2>1. Len(uses) \in Nat /\ Len(uses) + 1 \in 1 .. Len(uses') /\ uses'[Len(uses) + 1] = use
    BY <1>1, <1>3
  <2> QED  BY <1>3, <2>1
<1>6. ASSUME row.known
      PROVE  Total(ProceedsOf(uses')) = job'.given /\ job'.given = ProceedsOwed(job.seen)'
  <2>1. Total(ProceedsOf(uses)) = job.given /\ job.given \in Int
    BY <1>2, <1>6, StateIs DEF ProceedsCount
  <2>2. Total(ProceedsOf(uses')) = Total(ProceedsOf(uses)) + use.proceeds
    BY <1>1, <1>3, <1>5, AddUse
  <2>3. ProceedsOwed(job.seen)' = owed
    BY <1>4 DEF ProceedsOwed
  <2> HIDE DEF owed
  <2> QED  BY <1>1, <1>3, <1>4, <2>1, <2>2, <2>3
<1> QED  BY <1>4, <1>6 DEF ProceedsCount

LEMMA SoldProceeds == ASSUME IInv, ProceedsCount, Sold PROVE ProceedsCount'
<1>1. /\ job.do = "sell" /\ job.seen = job.held /\ row' = row /\ uses' = uses
      /\ job'.do = "idle"
  BY DEF Sold, Fixed, Idle, Job
<1>2. /\ row.kind = "sell" /\ job.held \in Nat \ {0}
  BY <1>1, StateIs DEF IInv, SellOK
<1>3. PICK net \in Int : row.amount = net * Grain
  BY <1>2 DEF ProceedsCount
<1>4. ASSUME row.known PROVE Total(ProceedsOf(uses')) = row'.amount
  <2>1. Total(ProceedsOf(uses)) = ProceedsOwed(job.held)
    BY <1>1, <1>4 DEF ProceedsCount
  <2>2. ProceedsOwed(job.held) = Cents((net * Grain) * job.held, job.held)
    BY <1>3, <1>4 DEF ProceedsOwed
  <2>3. Cents((net * Grain) * job.held, job.held) = net * Grain
    BY <1>2, WholeSale
  <2> QED  BY <1>1, <1>3, <2>1, <2>2, <2>3
<1> QED  BY <1>1, <1>3, <1>4 DEF ProceedsCount

LEMMA NextProceeds == ASSUME IInv, ProceedsCount, [Next]_vars PROVE ProceedsCount'
<1>0. IInv'
  BY NextIInv
<1>1. CASE UNCHANGED vars
  BY <1>1 DEF vars, ProceedsCount, ProceedsOwed
<1>2. ASSUME row'.kind # "sell", job'.do # "sell" PROVE ProceedsCount'
  BY <1>2 DEF ProceedsCount
<1>3. CASE Next
  <2>1. ASSUME NEW units \in Quantities, NEW known \in RateKnown, NEW outlay \in Costs,
               Buy(units, outlay, known)
        PROVE  ProceedsCount'
    BY <1>2, <2>1 DEF Buy, Walk, Row, Idle, Job
  <2>2. ASSUME NEW units \in Quantities, NEW known \in RateKnown, NEW net \in Nets,
               Sell(units, net, known)
        PROVE  ProceedsCount'
    BY <2>2, SellProceeds
  <2>3. ASSUME NEW ratio \in Ratios, Split(ratio[1], ratio[2]) PROVE ProceedsCount'
    BY <1>2, <2>3 DEF Split, Walk, Row, Job
  <2>4. ASSUME NEW change \in Changes, NEW known \in RateKnown, Adjust(change, known)
        PROVE  ProceedsCount'
    BY <1>2, <2>4 DEF Adjust, Walk, Row, Job
  <2>5. CASE NextDay
    <3>1. CASE UNCHANGED <<row, job, uses>>
      <4>1. job'.do = "idle"
        BY <2>5, <3>1 DEF NextDay, Idle, Job
      <4> QED  BY <3>1, <4>1 DEF ProceedsCount
    <3>2. CASE row'.kind = "deem" /\ job'.do = "deem"
      BY <1>2, <3>2
    <3>3. UNCHANGED <<row, job, uses>> \/ (row'.kind = "deem" /\ job'.do = "deem")
      BY <2>5 DEF NextDay, Row, Job
    <3> QED  BY <3>1, <3>2, <3>3
  <2>6. CASE Loop
    <3>1. CASE TakeHead
      BY <1>0, <3>1, TakeHeadProceeds
    <3>2. CASE Sold
      BY <3>2, SoldProceeds
    <3>3. CASE Oversell \/ Crash
      <4>1. job'.do \in {"oversold", "crashed"} /\ row' = row
        BY <3>3, StateIs DEF Oversell, Crash, JobType, Fixed
      <4> QED  BY <4>1 DEF ProceedsCount
    <3>4. CASE Tally \/ Tallied \/ ShareOut \/ Absorb \/ AdjustNext \/ DeemNext \/ AllDeemed
      <4>1. job.do \in {"tally", "share", "absorb", "adjust", "deem"} /\ row' = row
        BY <3>4 DEF Tally, Tallied, ShareOut, Absorb, AdjustNext, DeemNext, AllDeemed, Looping, Fixed
      <4>2. row.kind # "sell"
        BY <4>1 DEF IInv, TallyOK, ShareOK, AbsorbOK, AdjustOK, DeemOK
      <4>3. job'.do # "sell"
        BY <1>0, <4>1, <4>2 DEF IInv, SellOK
      <4> QED  BY <1>2, <4>1, <4>2, <4>3
    <3> QED  BY <2>6, <3>1, <3>2, <3>3, <3>4 DEF Loop
  <2> QED  BY <1>3, <2>1, <2>2, <2>3, <2>4, <2>5, <2>6 DEF Next
<1> QED  BY <1>1, <1>3

-----------------------------------------------------------------------------
(***************************************************************************)
(* The costs.  While every figure is known, what was paid in less what was *)
(* billed out is what the parcels hold, to half a cent for each used up:   *)
(* a parcel's own rounding is lost with it, and a parcel begun again, or   *)
(* taken over, carries all it held.                                        *)
(***************************************************************************)
LEMMA HalfCent ==
    ASSUME NEW n \in Int
    PROVE  Cents(n, 1) \in Int /\ 2 * (n - Cents(n, 1)) \in -Grain .. Grain
<1> DEFINE d == Grain
           q == n \div d
           r == n % d
           m == RoundHalfEven(n, d)
<1>1. d \in Nat \ {0} /\ 1 * Grain = d
  BY ParcelsAssumption
<1> HIDE DEF d
<1>2. q \in Int /\ r \in 0 .. d - 1 /\ n = d * q + r
  BY <1>1
<1>3. /\ m \in {q, q + 1}
      /\ m = q => 2 * r <= d
      /\ m = q + 1 => 2 * r >= d
  BY <1>1, <1>2 DEF RoundHalfEven
<1>4. Cents(n, 1) = d * m
  BY <1>1 DEF Cents, d
<1> HIDE DEF m, q, r
<1>5. d * (q + 1) = d * q + d /\ d * q \in Int
  BY <1>1, <1>2
<1>6. CASE m = q
  <2>1. 2 * (n - d * m) = 2 * r /\ d * m \in Int
    BY <1>1, <1>2, <1>5, <1>6
  <2> QED  BY <1>1, <1>2, <1>3, <1>4, <1>6, <2>1 DEF d
<1>7. CASE m = q + 1
  <2>1. 2 * (n - d * m) = 2 * r - 2 * d /\ d * m \in Int
    BY <1>1, <1>2, <1>5, <1>7
  <2> QED  BY <1>1, <1>2, <1>3, <1>4, <1>7, <2>1 DEF d
<1> QED  BY <1>3, <1>6, <1>7

\* A share begun again holds what it held and what it was moved by, or nothing,
\* and then how far below nothing is told.
LEMMA RestartHolds ==
    ASSUME NEW s \in ShareType, s.known, NEW change \in Int
    PROVE  /\ Restart(s, TRUE, change).known
           /\ Held(Restart(s, TRUE, change)) = Held(s) + change + Beyond(s, TRUE, change)
           /\ Held(s) \in Int /\ Beyond(s, TRUE, change) \in Int
<1>1. Held(s) \in Int /\ Held(s) + change \in Int
  BY DEF Held, ShareType
<1> DEFINE moved == Held(s) + change
<1>2. /\ Restart(s, TRUE, change).known
      /\ Restart(s, TRUE, change).total = IF moved < 0 THEN 0 ELSE moved
      /\ Restart(s, TRUE, change).allotted = 0
  BY DEF Restart, Share
<1>3. Beyond(s, TRUE, change) = IF moved < 0 THEN -moved ELSE 0
  BY DEF Beyond
<1>4. Held(Restart(s, TRUE, change)) =
         Restart(s, TRUE, change).total - Restart(s, TRUE, change).allotted
  BY DEF Held
<1> DEFINE again == Restart(s, TRUE, change)
           below == Beyond(s, TRUE, change)
<1>5. /\ moved \in Int /\ moved = Held(s) + change /\ again.known
      /\ again.total = (IF moved < 0 THEN 0 ELSE moved)
      /\ below = (IF moved < 0 THEN -moved ELSE 0)
      /\ Held(again) = again.total - 0
  BY <1>1, <1>2, <1>3, <1>4
<1> HIDE DEF moved, again, below
<1>6. Held(again) = moved + below /\ below \in Int
  BY <1>5
<1>7. Held(again) = Held(s) + change + below
  BY <1>1, <1>5, <1>6
<1> QED  BY <1>1, <1>5, <1>6, <1>7 DEF again, below

Lost == book.paid - book.billed - Total(CostsOf(fifo))

CostCount ==
    book.known =>
        /\ \A k \in 1 .. Len(fifo) : fifo[k].share["cost"].known
        /\ row.kind = "adjust" => row.known
        /\ 2 * Lost \in -(Grain * book.popped) .. Grain * book.popped

LEMMA InitCost == ASSUME Init PROVE CostCount
<1>1. fifo = <<>> /\ row.kind = "none" /\ book.paid = 0 /\ book.billed = 0 /\ book.popped = 0
  BY DEF Init, Row
<1>2. Total(CostsOf(fifo)) = 0 /\ Len(fifo) = 0
  <2>1. CostsOf(fifo) = <<>>
    BY <1>1 DEF CostsOf
  <2> QED  BY <1>1, <2>1, SumNothing
<1>3. Lost = 0 /\ Grain * book.popped = 0
  BY <1>1, <1>2, ParcelsAssumption DEF Lost
<1> QED  BY <1>1, <1>2, <1>3 DEF CostCount

\* A step that loses nothing.
LEMMA NothingLost ==
    ASSUME CostCount,
           book'.known => book.known /\ Lost' = Lost /\ book'.popped = book.popped,
           book'.known => \A k \in 1 .. Len(fifo') : fifo'[k].share["cost"].known,
           book'.known /\ row'.kind = "adjust" => row'.known
    PROVE  CostCount'
BY DEF CostCount

LEMMA BuyCost ==
    ASSUME IInv, CostCount, NEW units \in Quantities, NEW outlay \in Costs,
           NEW known \in RateKnown, Buy(units, outlay, known)
    PROVE  CostCount'
<1> DEFINE p == NewParcel(units, known, outlay)
<1>1. units \in Nat /\ outlay \in Nat /\ known \in BOOLEAN /\ rows \in Nat /\ day \in Nat
  BY ParcelsAssumption DEF IInv, TypeOK
<1>2. /\ p \in ParcelType /\ p.share["cost"] = Share(known, outlay)
  <2>1. p.share["cost"] = Share(known, outlay)
    BY DEF NewParcel, ShareNames
  <2> QED  BY <1>1, <2>1, NewParcelSound DEF Sound
<1>3. /\ fifo' = Append(fifo, p) /\ row' = Row("buy", units, outlay, known, <<1, 1>>)
      /\ book' = [book EXCEPT !.known = @ /\ known, !.paid = @ + outlay]
  BY DEF Buy, Walk
<1> HIDE DEF p
<1>4. /\ book'.known = (book.known /\ known) /\ book'.paid = book.paid + outlay
      /\ book'.billed = book.billed /\ book'.popped = book.popped
  BY <1>3, StateIs DEF BookType
<1>5. row'.kind # "adjust"
  BY <1>3 DEF Row
<1>6. ASSUME book'.known
      PROVE  Lost' = Lost /\ \A k \in 1 .. Len(fifo') : fifo'[k].share["cost"].known
  <2>1. known /\ book.known
    BY <1>4, <1>6
  <2>2. p.share["cost"].known /\ Held(p.share["cost"]) = outlay
    BY <1>1, <1>2, <2>1 DEF Share, Held
  <2>3. Total(CostsOf(fifo')) = Total(CostsOf(fifo)) + outlay
    BY <1>2, <1>3, <2>2, StateIs, AddParcel
  <2>4. Lost' = Lost
    <3> DEFINE a == Total(CostsOf(fifo))
    <3>1. /\ book.paid \in Int /\ book.billed \in Int /\ a \in Int
      BY StateIs
    <3>2. Lost' = (book.paid + outlay) - book.billed - (a + outlay) /\ Lost = book.paid - book.billed - a
      BY <1>4, <2>3 DEF Lost
    <3> HIDE DEF a
    <3> QED  BY <1>1, <3>1, <3>2
  <2>5. \A k \in 1 .. Len(fifo) : fifo[k].share["cost"].known
    BY <2>1 DEF CostCount
  <2>6. /\ Len(fifo') = Len(fifo) + 1 /\ Len(fifo) \in Nat
        /\ \A k \in 1 .. Len(fifo) : fifo'[k] = fifo[k]
        /\ fifo'[Len(fifo) + 1] = p
    BY <1>2, <1>3, StateIs
  <2>7. \A k \in 1 .. Len(fifo') : k \in 1 .. Len(fifo) \/ k = Len(fifo) + 1
    BY <2>6
  <2> QED  BY <2>2, <2>4, <2>5, <2>6, <2>7
<1> QED  BY <1>4, <1>5, <1>6, NothingLost

\* A row that only begins, or a loop that only counts.
LEMMA LooksOnly ==
    ASSUME CostCount, fifo' = fifo,
           book' = book,
           row' = row \/ row'.kind # "adjust"
    PROVE  CostCount'
BY DEF CostCount, Lost

LEMMA AdjustCost ==
    ASSUME IInv, CostCount, NEW change \in Changes, NEW known \in RateKnown,
           Adjust(change, known)
    PROVE  CostCount'
<1>1. /\ fifo' = fifo /\ row' = Row("adjust", 0, change, known, <<1, 1>>)
      /\ book' = [book EXCEPT !.known = @ /\ known] /\ known \in BOOLEAN
  BY ParcelsAssumption DEF Adjust, Walk
<1>2. /\ book'.known = (book.known /\ known) /\ book'.paid = book.paid
      /\ book'.billed = book.billed /\ book'.popped = book.popped
  BY <1>1, StateIs DEF BookType
<1>3. row'.known = known
  BY <1>1 DEF Row
<1>4. Lost' = Lost
  BY <1>1, <1>2 DEF Lost
<1>5. book'.known => \A k \in 1 .. Len(fifo') : fifo'[k].share["cost"].known
  BY <1>1, <1>2 DEF CostCount
<1> QED  BY <1>2, <1>3, <1>4, <1>5, NothingLost

LEMMA TakeHeadCost ==
    ASSUME IInv, IInv', CostCount, TakeHead
    PROVE  CostCount'
<1> DEFINE taking == Lesser(At.remaining, job.held - job.seen)
           taken == Take(At, taking)
           s == At.share["cost"]
           bill == Billed(At, taken, "cost")
           popped == IF taken.remaining = 0 THEN 1 ELSE 0
<1>1. /\ job.do = "sell" /\ job.i \in 1 .. Len(fifo) /\ ~Undefined /\ Fixed
      /\ fifo' = IF taken.remaining = 0 THEN Tail(fifo) ELSE [fifo EXCEPT ![1] = taken]
      /\ book' = [book EXCEPT !.billed = @ + bill, !.popped = @ + popped]
  BY DEF TakeHead, Looping
<1>2. /\ fifo \in Seq(ParcelType) /\ fifo' \in Seq(ParcelType) /\ job.i = 1 /\ Len(fifo) \in Nat
      /\ 1 \in 1 .. Len(fifo) /\ book.paid \in Int /\ book.billed \in Int /\ book.popped \in Nat
      /\ Total(CostsOf(fifo)) \in Int
  BY <1>1, StateIs DEF SellOK, IInv, TypeOK
<1>3. /\ At \in ParcelType /\ At.remaining \in Nat /\ At.quantity \in Nat /\ At = fifo[1]
      /\ At.remaining <= At.quantity /\ s \in ShareType /\ s.total \in Int /\ s.allotted \in Int
  <2>1. /\ At \in ParcelType /\ At.remaining \in Nat /\ At.quantity \in Nat
        /\ At.remaining <= At.quantity /\ \A n \in ShareNames : At.share[n] \in ShareType
    BY <1>1, AtParcel
  <2>2. At = fifo[1]
    BY <1>2 DEF At
  <2>3. s \in ShareType
    BY <2>1 DEF ShareNames
  <2> HIDE DEF s
  <2>4. s.total \in Int /\ s.allotted \in Int
    BY <2>3 DEF ShareType
  <2> QED  BY <2>1, <2>2, <2>3, <2>4
<1> HIDE DEF taking
<1>4. /\ taken.remaining = At.remaining - taking
      /\ taken.share["cost"] = [s EXCEPT !.allotted = Owed(s, At.quantity - taken.remaining, At.quantity)]
  <2>1. taken.remaining = At.remaining - taking
    BY <1>3, TakenIs
  <2>2. taken.share["cost"]
           = [s EXCEPT !.allotted = Owed(s, At.quantity - (At.remaining - taking), At.quantity)]
    BY <1>3, TakenIs
  <2> HIDE DEF taken, s
  <2> QED  BY <2>1, <2>2
<1> HIDE DEF taken
<1>5. /\ taken.share["cost"].known = s.known
      /\ Held(taken.share["cost"]) = s.total - taken.share["cost"].allotted
      /\ bill = taken.share["cost"].allotted - s.allotted
      /\ Held(s) = s.total - s.allotted
      /\ taken.share["cost"].allotted = Owed(s, At.quantity - taken.remaining, At.quantity)
  BY <1>3, <1>4 DEF Billed, Held, ShareType
<1>6. /\ book'.known = book.known /\ book'.paid = book.paid
      /\ book'.billed = book.billed + bill /\ book'.popped = book.popped + popped
  BY <1>1, StateIs DEF BookType
<1>7. row' = row
  BY <1>1 DEF Fixed
<1>8. taken.share["cost"].allotted \in Int
  <2>1. book'.billed \in Int
    BY DEF IInv, TypeOK, BookType
  <2>2. CASE s.known
    <3>1. At.quantity # 0
      BY <1>1, <2>2 DEF Undefined, SharesOf, ShareNames
    <3>2. CASE taken.remaining = 0
      <4>1. Owed(s, At.quantity - 0, At.quantity) \in Int
        <5>1. At.quantity - 0 \in 0 .. At.quantity
          BY <1>3
        <5> QED  BY <1>3, <3>1, <5>1, OwedRange
      <4> QED  BY <1>5, <3>2, <4>1
    <3>3. CASE taken.remaining # 0
      <4>1. fifo'[1] = taken /\ 1 \in 1 .. Len(fifo')
        BY <1>1, <1>2, <3>3
      <4>2. taken \in ParcelType
        BY <1>2, <4>1
      <4> QED  BY <4>2 DEF ParcelType, ShareNames, ShareType
    <3> QED  BY <3>2, <3>3
  <2>3. CASE ~s.known
    BY <1>5, <2>3 DEF Owed
  <2> QED  BY <2>2, <2>3
<1> HIDE DEF bill, s, popped
<1>9. CASE ~book.known
  BY <1>6, <1>9 DEF CostCount
<1>10. CASE book.known
  <2>1. s.known /\ \A k \in 1 .. Len(fifo) : fifo[k].share["cost"].known
    BY <1>2, <1>3, <1>10 DEF CostCount, s
  <2>2. row'.kind = "adjust" => row'.known
    BY <1>7, <1>10 DEF CostCount
  <2> DEFINE a == Total(CostsOf(fifo))
             b == taken.share["cost"].allotted
  <2>3. CASE taken.remaining = 0
    <3>1. fifo' = Tail(fifo) /\ fifo # <<>> /\ popped = 1
      BY <1>1, <1>2, <2>3 DEF popped
    <3>2. Total(CostsOf(fifo')) = a - Held(s)
      BY <1>2, <1>3, <3>1, DropFirst DEF s
    <3>3. \A k \in 1 .. Len(fifo') : fifo'[k].share["cost"].known
      <4>1. \A k \in 1 .. Len(fifo') : k + 1 \in 1 .. Len(fifo) /\ fifo'[k] = fifo[k + 1]
        BY <1>2, <3>1
      <4> QED  BY <2>1, <4>1
    <3>4. b = Cents(s.total, 1)
      <4>1. At.quantity # 0
        BY <1>1, <2>1 DEF Undefined, SharesOf, ShareNames, s
      <4>2. At.quantity - taken.remaining = At.quantity /\ s.total \in Nat
        BY <1>3, <2>3 DEF ShareType
      <4>3. Cents(s.total * At.quantity, At.quantity) = Cents(s.total, 1)
        BY <1>3, <4>1, <4>2, CentsCancel
      <4> QED  BY <1>5, <2>1, <4>2, <4>3 DEF Owed
    <3>5. 2 * (s.total - b) \in -Grain .. Grain
      BY <1>3, <3>4, HalfCent
    <3>6. Lost' = Lost + (s.total - b)
      <4>1. /\ Lost' = book.paid - (book.billed + bill) - (a - Held(s))
            /\ Lost = book.paid - book.billed - a
        BY <1>6, <3>2 DEF Lost
      <4>2. bill = b - s.allotted /\ Held(s) = s.total - s.allotted
        BY <1>5
      <4>3. a \in Int /\ b \in Int
        BY <1>2, <1>8
      <4> DEFINE u == book.paid
                 v == book.billed
                 x == s.total
                 y == s.allotted
                 lost == Lost
                 left == Lost'
      <4>4. /\ u \in Int /\ v \in Int /\ x \in Int /\ y \in Int
            /\ left = u - (v + (b - y)) - (a - (x - y)) /\ lost = u - v - a
        BY <1>2, <1>3, <4>1, <4>2
      <4> HIDE DEF a, b, u, v, x, y, lost, left
      <4>5. left = lost + (x - b)
        BY <4>3, <4>4
      <4> QED  BY <4>5 DEF left, lost, x
    <3>7. 2 * Lost \in -(Grain * book.popped) .. Grain * book.popped
      BY <1>10 DEF CostCount
    <3>8. /\ Grain * book'.popped = Grain * book.popped + Grain /\ Grain * book.popped \in Int
          /\ Grain \in Int
      <4> DEFINE m == book.popped
                 n == book'.popped
      <4>1. m \in Nat /\ n = m + 1 /\ Grain \in Nat
        BY <1>2, <1>6, <3>1, ParcelsAssumption
      <4> HIDE DEF m, n
      <4>2. Grain * (m + 1) = Grain * m + Grain /\ Grain * m \in Int
        BY <4>1
      <4> QED  BY <4>1, <4>2 DEF m, n
    <3>9. Lost \in Int
      BY <1>2 DEF Lost
    <3>10. 2 * Lost' \in -(Grain * book'.popped) .. Grain * book'.popped
      <4> DEFINE m == Grain * book.popped
                 n == Grain * book'.popped
                 x == s.total - b
      <4>1. n = m + Grain /\ m \in Int /\ 2 * Lost \in -m .. m /\ x \in Int /\ 2 * x \in -Grain .. Grain
        BY <1>3, <1>8, <3>5, <3>7, <3>8
      <4>2. Lost' = Lost + x
        BY <3>6
      <4> HIDE DEF m, n, x
      <4>3. 2 * Lost' \in -n .. n
        BY <3>8, <3>9, <4>1, <4>2
      <4> QED  BY <4>3 DEF n
    <3> QED  BY <2>2, <3>3, <3>10 DEF CostCount
  <2>4. CASE taken.remaining # 0
    <3>1. fifo' = [fifo EXCEPT ![1] = taken] /\ popped = 0
      BY <1>1, <2>4 DEF popped
    <3>2. /\ taken \in ParcelType /\ Len(fifo') = Len(fifo)
          /\ \A k \in 1 .. Len(fifo) : fifo'[k] = IF k = 1 THEN taken ELSE fifo[k]
      <4>1. fifo'[1] = taken /\ 1 \in 1 .. Len(fifo')
        BY <1>2, <3>1
      <4> QED  BY <1>2, <3>1, <4>1
    <3>3. Total(CostsOf([fifo EXCEPT ![1] = taken]))
             = Total(CostsOf(fifo)) + (Held(taken.share["cost"]) - Held(fifo[1].share["cost"]))
      BY <1>2, <3>2, PutParcel
    <3>4. Total(CostsOf(fifo')) = a + ((s.total - b) - Held(s))
      BY <1>3, <1>5, <3>1, <3>3 DEF s
    <3>5. \A k \in 1 .. Len(fifo') : fifo'[k].share["cost"].known
      BY <1>5, <2>1, <3>2
    <3>6. Lost' = Lost
      <4>1. /\ Lost' = book.paid - (book.billed + bill) - (a + ((s.total - b) - Held(s)))
            /\ Lost = book.paid - book.billed - a
        BY <1>6, <3>4 DEF Lost
      <4>2. bill = b - s.allotted /\ Held(s) = s.total - s.allotted
        BY <1>5
      <4>3. a \in Int /\ b \in Int
        BY <1>2, <1>8
      <4> DEFINE u == book.paid
                 v == book.billed
                 x == s.total
                 y == s.allotted
                 lost == Lost
                 left == Lost'
      <4>4. /\ u \in Int /\ v \in Int /\ x \in Int /\ y \in Int
            /\ left = u - (v + (b - y)) - (a + ((x - b) - (x - y))) /\ lost = u - v - a
        BY <1>2, <1>3, <4>1, <4>2
      <4> HIDE DEF a, b, u, v, x, y, lost, left
      <4>5. left = lost
        BY <4>3, <4>4
      <4> QED  BY <4>5 DEF left, lost
    <3>7. book'.popped = book.popped
      BY <1>2, <1>6, <3>1
    <3> QED  BY <1>6, <2>2, <3>5, <3>6, <3>7, NothingLost
  <2> QED  BY <2>3, <2>4
<1> QED  BY <1>9, <1>10

\* A parcel begun again: what it is moved by, and what was below nothing, is
\* what was paid in.
LEMMA BegunAgain ==
    ASSUME IInv, IInv', CostCount, job.i \in 1 .. Len(fifo), NEW change \in Int,
           Len(fifo') = Len(fifo),
           \A k \in 1 .. Len(fifo) : k # job.i => fifo'[k] = fifo[k],
           row' = row, book'.known = book.known, book'.billed = book.billed,
           book'.popped = book.popped,
           book.known =>
             /\ fifo'[job.i].share["cost"] = Restart(At.share["cost"], TRUE, change)
             /\ book'.paid = book.paid + change + Beyond(At.share["cost"], TRUE, change)
    PROVE  CostCount'
<1>1. CASE ~book.known
  BY <1>1 DEF CostCount
<1>2. CASE book.known
  <2> DEFINE i == job.i
             r == fifo'[i]
             s == At.share["cost"]
             again == Restart(s, TRUE, change)
             below == Beyond(s, TRUE, change)
  <2>1. /\ fifo \in Seq(ParcelType) /\ fifo' \in Seq(ParcelType) /\ i \in 1 .. Len(fifo)
        /\ i \in 1 .. Len(fifo')
    BY StateIs DEF IInv, TypeOK
  <2>2. r \in ParcelType /\ At \in ParcelType /\ s \in ShareType
    <3>1. r \in ParcelType /\ At \in ParcelType
      BY <2>1 DEF At
    <3> QED  BY <3>1 DEF ParcelType, ShareNames
  <2>3. \A k \in 1 .. Len(fifo) : fifo[k].share["cost"].known
    BY <1>2 DEF CostCount
  <2>4. s.known
    BY <2>1, <2>3 DEF At
  <2>5. r.share["cost"] = again /\ book'.paid = book.paid + change + below
    BY <1>2
  <2>6. At = fifo[i]
    BY DEF At
  <2> HIDE DEF r, s
  <2>7. again.known /\ Held(again) = Held(s) + change + below /\ Held(s) \in Int /\ below \in Int
    BY <2>2, <2>4, RestartHolds
  <2> HIDE DEF again, below
  <2>8. \A k \in 1 .. Len(fifo') : fifo'[k].share["cost"].known
    <3> TAKE k \in 1 .. Len(fifo')
    <3>1. CASE k = i
      BY <2>5, <2>7, <3>1 DEF r
    <3>2. CASE k # i
      BY <2>3, <3>2
    <3> QED  BY <3>1, <3>2
  <2>9. \A k \in 1 .. Len(fifo) : fifo'[k] = IF k = i THEN r ELSE fifo[k]
    BY DEF r
  <2>10. Total(CostsOf(fifo'))
            = Total(CostsOf(fifo)) + (Held(r.share["cost"]) - Held(fifo[i].share["cost"]))
    <3> HIDE DEF i
    <3> QED  BY <2>1, <2>2, <2>9, PutAt
  <2>11. Lost' = Lost
    <3> DEFINE a == Total(CostsOf(fifo))
               b == Total(CostsOf(fifo'))
               u == book.paid
               v == book.billed
               h == Held(s)
               lost == Lost
               left == Lost'
    <3>1. b = a + (Held(again) - h)
      BY <2>5, <2>6, <2>10 DEF s
    <3>2. /\ u \in Int /\ v \in Int /\ a \in Int /\ h \in Int
          /\ lost = u - v - a /\ left = (u + change + below) - v - b
          /\ b = a + ((h + change + below) - h)
      BY <2>5, <2>7, <3>1, StateIs DEF Lost
    <3> HIDE DEF a, b, u, v, h, lost, left
    <3>3. left = lost
      BY <2>7, <3>2
    <3> QED  BY <3>3 DEF left, lost
  <2>12. row'.kind = "adjust" => row'.known
    BY <1>2 DEF CostCount
  <2> QED  BY <1>2, <2>8, <2>11, <2>12, NothingLost
<1> QED  BY <1>1, <1>2

LEMMA ShareOutCost == ASSUME IInv, IInv', CostCount, ShareOut PROVE CostCount'
<1>1. PICK units : fifo' = [fifo EXCEPT ![job.i] = RestartParcel(At, units, TRUE, 0)]
  BY DEF ShareOut
<1> DEFINE s == At.share["cost"]
           below == Beyond(s, TRUE, 0)
           zero == 0
           r == RestartParcel(At, units, TRUE, 0)
<1>2. /\ job.i \in 1 .. Len(fifo) /\ row' = row
      /\ book' = [book EXCEPT !.paid = book.paid + below]
      /\ fifo' = [fifo EXCEPT ![job.i] = r]
  BY <1>1 DEF ShareOut, Looping, Fixed
<1>3. fifo \in Seq(ParcelType) /\ At \in ParcelType /\ s \in ShareType /\ book.paid \in Int
  <2>1. fifo \in Seq(ParcelType) /\ book.paid \in Int
    BY StateIs
  <2>2. At \in ParcelType /\ s \in ShareType
    BY <1>2, AtParcel DEF ShareNames
  <2> QED  BY <2>1, <2>2
<1>4. r.share["cost"] = Restart(s, TRUE, 0)
  <2> DEFINE p == At
             f == FALSE
             t == ~f
             z == 0
  <2>1. p \in ParcelType
    BY <1>3
  <2> HIDE DEF p, t, z
  <2>2. RestartParcel(p, units, t, z).share["cost"] = Restart(p.share["cost"], t, z)
    BY <2>1, RestartedIs
  <2>3. t = TRUE /\ z = 0
    BY DEF t, z
  <2> QED  BY <2>2, <2>3 DEF p
<1> HIDE DEF r
<1>5. /\ Len(fifo') = Len(fifo) /\ fifo'[job.i] = r
      /\ \A k \in 1 .. Len(fifo) : k # job.i => fifo'[k] = fifo[k]
  BY <1>2, <1>3
<1> HIDE DEF below, s
<1>6. /\ book'.known = book.known /\ book'.billed = book.billed /\ book'.popped = book.popped
      /\ book'.paid = book.paid + below
  BY <1>2, StateIs DEF BookType
<1>7. below \in Int
  BY <1>3 DEF below, Beyond, Held, ShareType
<1>8. zero \in Int /\ book'.paid = book.paid + zero + below
  BY <1>3, <1>6, <1>7
<1>9. /\ fifo'[job.i].share["cost"] = Restart(At.share["cost"], TRUE, zero)
      /\ book'.paid = book.paid + zero + Beyond(At.share["cost"], TRUE, zero)
  BY <1>4, <1>5, <1>8 DEF below, s
<1> HIDE DEF zero
<1> QED  BY <1>2, <1>5, <1>6, <1>8, <1>9, BegunAgain

LEMMA DeemNextCost == ASSUME IInv, IInv', CostCount, DeemNext PROVE CostCount'
<1> DEFINE s == At.share["cost"]
           below == Beyond(s, TRUE, 0)
           zero == 0
           r == Deemed(At, row.known, row.amount)
<1>1. /\ job.i \in 1 .. Len(fifo) /\ row' = row /\ fifo' = [fifo EXCEPT ![job.i] = r]
      /\ book' = [book EXCEPT !.paid = book.paid + below]
  BY DEF DeemNext, Looping, Fixed
<1>3. fifo \in Seq(ParcelType) /\ At \in ParcelType /\ s \in ShareType /\ book.paid \in Int
  <2>1. fifo \in Seq(ParcelType) /\ book.paid \in Int
    BY StateIs
  <2>2. At \in ParcelType /\ s \in ShareType
    BY <1>1, AtParcel DEF ShareNames
  <2> QED  BY <2>1, <2>2
<1>4. r.share["cost"] = Restart(s, TRUE, 0)
  <2> DEFINE p == At
             known == row.known
             price == row.amount
  <2>1. p \in ParcelType
    BY <1>3
  <2> HIDE DEF p, known, price
  <2>2. Deemed(p, known, price).share["cost"] = Restart(p.share["cost"], TRUE, 0)
    BY <2>1, DeemedIs, Zenon
  <2> QED  BY <2>2 DEF p, known, price
<1> HIDE DEF r
<1>5. /\ Len(fifo') = Len(fifo) /\ fifo'[job.i] = r
      /\ \A k \in 1 .. Len(fifo) : k # job.i => fifo'[k] = fifo[k]
  BY <1>1, <1>3
<1> HIDE DEF below, s
<1>6. /\ book'.known = book.known /\ book'.billed = book.billed /\ book'.popped = book.popped
      /\ book'.paid = book.paid + below
  BY <1>1, StateIs DEF BookType
<1>7. below \in Int
  BY <1>3 DEF below, Beyond, Held, ShareType
<1>8. zero \in Int /\ book'.paid = book.paid + zero + below
  BY <1>3, <1>6, <1>7
<1>9. /\ fifo'[job.i].share["cost"] = Restart(At.share["cost"], TRUE, zero)
      /\ book'.paid = book.paid + zero + Beyond(At.share["cost"], TRUE, zero)
  BY <1>4, <1>5, <1>8 DEF below, s
<1> HIDE DEF zero
<1> QED  BY <1>1, <1>5, <1>6, <1>8, <1>9, BegunAgain

LEMMA AdjustNextCost == ASSUME IInv, IInv', CostCount, AdjustNext PROVE CostCount'
<1> DEFINE s == At.share["cost"]
           part == (row.amount * (job.seen + At.remaining)) \div job.held - job.given
           below == Beyond(s, row.known, part)
           r == RestartParcel(At, At.remaining, row.known, part)
<1>1. /\ job.i \in 1 .. Len(fifo) /\ row' = row /\ fifo' = [fifo EXCEPT ![job.i] = r]
      /\ book' = [book EXCEPT !.paid = book.paid + part + below] /\ job.do = "adjust"
  BY DEF AdjustNext, Looping, Fixed
<1>2. /\ fifo \in Seq(ParcelType) /\ At \in ParcelType /\ s \in ShareType /\ book.paid \in Int
      /\ At.remaining \in Nat /\ row.kind = "adjust" /\ row.known \in BOOLEAN
  <2>1. fifo \in Seq(ParcelType) /\ book.paid \in Int /\ row.known \in BOOLEAN
    BY StateIs
  <2>2. row.kind = "adjust"
    BY <1>1 DEF IInv, AdjustOK
  <2>3. At \in ParcelType /\ At.remaining \in Nat /\ s \in ShareType
    BY <1>1, AtParcel DEF ShareNames
  <2> QED  BY <2>1, <2>2, <2>3
<1>3. part \in Int
  <2> DEFINE n == row.amount * (job.seen + At.remaining)
             d == job.held
             g == job.given
  <2>1. n \in Int /\ d \in Nat \ {0} /\ g \in Int
    <3>1. job.held # 0
      BY <1>1 DEF IInv, AdjustOK
    <3> DEFINE a == row.amount
               b == job.seen + At.remaining
    <3>2a. row.amount \in Int /\ job.seen \in Nat
      BY StateIs
    <3>2. a \in Int /\ b \in Int
      BY <1>2, <3>2a
    <3> HIDE DEF a, b
    <3>3. a * b \in Int
      BY <3>2
    <3> QED  BY <3>1, <3>3, StateIs DEF a, b
  <2> HIDE DEF n, d, g
  <2>2. n \div d - g \in Int
    BY <2>1
  <2> QED  BY <2>2 DEF n, d, g
<1> HIDE DEF part
<1>4. r.share["cost"] = Restart(s, row.known, part)
  <2> DEFINE p == At
             units == At.remaining
             known == row.known
  <2>1. p \in ParcelType
    BY <1>2
  <2> HIDE DEF p, units, known
  <2>2. RestartParcel(p, units, known, part).share["cost"] = Restart(p.share["cost"], known, part)
    BY <2>1, RestartedIs
  <2> QED  BY <2>2 DEF p, units, known
<1> HIDE DEF r
<1>5. /\ Len(fifo') = Len(fifo) /\ fifo'[job.i] = r
      /\ \A k \in 1 .. Len(fifo) : k # job.i => fifo'[k] = fifo[k]
  BY <1>1, <1>2
<1> HIDE DEF below, s
<1>6. /\ book'.known = book.known /\ book'.billed = book.billed /\ book'.popped = book.popped
      /\ book'.paid = book.paid + part + below
  BY <1>1, StateIs DEF BookType
<1>7. book.known =>
        /\ fifo'[job.i].share["cost"] = Restart(At.share["cost"], TRUE, part)
        /\ book'.paid = book.paid + part + Beyond(At.share["cost"], TRUE, part)
  <2> SUFFICES ASSUME book.known
               PROVE  /\ fifo'[job.i].share["cost"] = Restart(At.share["cost"], TRUE, part)
                      /\ book'.paid = book.paid + part + Beyond(At.share["cost"], TRUE, part)
    OBVIOUS
  <2>1. row.known = TRUE
    BY <1>2 DEF CostCount
  <2> QED  BY <1>4, <1>5, <1>6, <2>1 DEF below, s
<1> QED  BY <1>1, <1>3, <1>5, <1>6, <1>7, BegunAgain

LEMMA AbsorbCost == ASSUME IInv, IInv', CostCount, Absorb PROVE CostCount'
<1> DEFINE into == IF job.i < Len(fifo) THEN job.i + 1 ELSE job.i - 1
           r == Absorbed(fifo[into], At)
           joined == [fifo EXCEPT ![into] = r]
<1>1. /\ job.do = "absorb" /\ job.i \in 1 .. Len(fifo) /\ Fixed /\ book' = book
      /\ \/ At.remaining = 0 /\ Len(fifo) > 1 /\ fifo' = RemoveAt(joined, job.i)
         \/ fifo' = fifo
  BY DEF Absorb
<1>2. /\ fifo \in Seq(ParcelType) /\ job.i \in Nat /\ Len(fifo) \in Nat
      /\ \A k \in 1 .. Len(fifo) : Sound(fifo[k]) /\ Fresh(fifo[k])
  BY <1>1, StateIs DEF IInv, Queue, AbsorbOK
<1>3. row' = row
  BY <1>1 DEF Fixed
<1>4. CASE fifo' = fifo \/ ~book.known
  BY <1>1, <1>3, <1>4 DEF CostCount, Lost
<1>5. CASE book.known /\ At.remaining = 0 /\ Len(fifo) > 1 /\ fifo' = RemoveAt(joined, job.i)
  <2>1. into \in 1 .. Len(fifo) /\ into # job.i
    BY <1>1, <1>2, <1>5
  <2> HIDE DEF into
  <2>2. /\ fifo[into] \in ParcelType /\ At \in ParcelType /\ At = fifo[job.i]
        /\ Fresh(At) /\ r \in ParcelType
    <3>1. Sound(At) /\ Fresh(At) /\ Sound(fifo[into]) /\ Fresh(fifo[into])
      BY <1>1, <1>2, <2>1 DEF At
    <3> QED  BY <3>1, AbsorbedSound DEF Sound, At
  <2> DEFINE mine == fifo[into].share["cost"]
             theirs == At.share["cost"]
             both == r.share["cost"]
  <2>3. mine \in ShareType /\ theirs \in ShareType
    BY <2>2 DEF ParcelType, ShareNames
  <2>4. mine.known /\ theirs.known /\ theirs.allotted = 0
    BY <1>1, <1>5, <2>1, <2>2 DEF CostCount, Fresh, ShareNames
  <2>5. both = Joined(mine, theirs, theirs.total)
    BY <2>2, AbsorbedIs
  <2> HIDE DEF r
  <2>6. both.known /\ Held(both) = Held(mine) + Held(theirs) /\ Held(mine) \in Int /\ Held(theirs) \in Int
    <3> HIDE DEF mine, theirs, both
    <3>1. /\ both.known /\ both.total = mine.total + theirs.total /\ both.allotted = mine.allotted
          /\ mine.total \in Int /\ mine.allotted \in Int /\ theirs.total \in Int
      BY <2>3, <2>4, <2>5 DEF Joined, ShareType
    <3> QED  BY <2>4, <3>1 DEF Held
  <2>7. Total(CostsOf(joined)) = Total(CostsOf(fifo)) + (Held(both) - Held(mine))
    BY <1>2, <2>1, <2>2, PutParcel
  <2>8. /\ joined \in Seq(ParcelType) /\ Len(joined) = Len(fifo) /\ joined[job.i] = At
        /\ \A k \in 1 .. Len(fifo) : joined[k] = IF k = into THEN r ELSE fifo[k]
    BY <1>1, <1>2, <2>1, <2>2 DEF At
  <2> HIDE DEF joined
  <2>9. /\ fifo' \in Seq(ParcelType) /\ Len(fifo') = Len(joined) - 1
        /\ \A k \in 1 .. Len(joined) - 1 : fifo'[k] = joined[IF k < job.i THEN k ELSE k + 1]
    BY <1>1, <1>5, <2>8, RemoveAtItems
  <2>10. Total(CostsOf(fifo')) = Total(CostsOf(joined)) - Held(theirs)
    BY <1>1, <2>8, <2>9, DropParcel
  <2>11. Total(CostsOf(fifo')) = Total(CostsOf(fifo))
    <3> DEFINE a == Total(CostsOf(fifo))
               b == Total(CostsOf(joined))
               x == Held(mine)
               y == Held(theirs)
               z == Held(both)
    <3>1. b = a + (z - x) /\ z = x + y /\ a \in Int /\ x \in Int /\ y \in Int
      BY <2>6, <2>7, StateIs
    <3>2. Total(CostsOf(fifo')) = b - y
      BY <2>10
    <3> HIDE DEF a, b, x, y, z
    <3>3. b - y = a
      BY <3>1
    <3> QED  BY <3>2, <3>3 DEF a
  <2>12. \A k \in 1 .. Len(joined) : joined[k].share["cost"].known
    <3> TAKE k \in 1 .. Len(joined)
    <3>1. CASE k = into
      BY <2>1, <2>6, <2>8, <3>1
    <3>2. CASE k # into
      BY <1>5, <2>8, <3>2 DEF CostCount
    <3> QED  BY <3>1, <3>2
  <2>13. \A k \in 1 .. Len(fifo') : fifo'[k].share["cost"].known
    <3>1. \A k \in 1 .. Len(fifo') : k + 1 \in 1 .. Len(joined) /\ k \in 1 .. Len(joined)
      BY <1>2, <2>8, <2>9
    <3> QED  BY <2>9, <2>12, <3>1
  <2>14. Lost' = Lost
    BY <1>1, <2>11 DEF Lost
  <2> QED  BY <1>1, <1>3, <1>5, <2>13, <2>14 DEF CostCount
<1> QED  BY <1>1, <1>4, <1>5

LEMMA NextCost == ASSUME IInv, CostCount, [Next]_vars PROVE CostCount'
<1>0. IInv'
  BY NextIInv
<1>1. CASE UNCHANGED vars
  BY <1>1 DEF vars, CostCount, Lost
<1>2. CASE Next
  <2>1. ASSUME NEW units \in Quantities, NEW known \in RateKnown, NEW outlay \in Costs,
               Buy(units, outlay, known)
        PROVE  CostCount'
    BY <2>1, BuyCost
  <2>2. ASSUME NEW units \in Quantities, NEW known \in RateKnown, NEW net \in Nets,
               Sell(units, net, known)
        PROVE  CostCount'
    BY <2>2, LooksOnly DEF Sell, Walk, Row
  <2>3. ASSUME NEW ratio \in Ratios, Split(ratio[1], ratio[2]) PROVE CostCount'
    BY <2>3, LooksOnly DEF Split, Walk, Row
  <2>4. ASSUME NEW change \in Changes, NEW known \in RateKnown, Adjust(change, known)
        PROVE  CostCount'
    BY <2>4, AdjustCost
  <2>5. CASE NextDay
    BY <2>5, LooksOnly DEF NextDay, Row
  <2>6. CASE Loop
    <3>1. CASE Sold \/ Oversell \/ Tally \/ Tallied \/ AllDeemed \/ Crash
      BY <3>1, LooksOnly DEF Sold, Oversell, Tally, Tallied, AllDeemed, Crash, Fixed
    <3> QED  BY <1>0, <2>6, <3>1, TakeHeadCost, ShareOutCost, AbsorbCost, AdjustNextCost,
                DeemNextCost DEF Loop
  <2> QED  BY <1>2, <2>1, <2>2, <2>3, <2>4, <2>5, <2>6 DEF Next
<1> QED  BY <1>1, <1>2

-----------------------------------------------------------------------------
(***************************************************************************)
(* The three counts along a walk, and what they say between rows.          *)
(***************************************************************************)
Counts == IInv /\ UnitsCount /\ ProceedsCount /\ CostCount

LEMMA InitProceeds == ASSUME Init PROVE ProceedsCount
BY DEF Init, Row, Idle, Job, ProceedsCount

LEMMA CountsHold == Spec => []Counts
<1>1. Init => Counts
  BY InitIInv, InitUnits, InitProceeds, InitCost DEF Counts
<1>2. Counts /\ [Next]_vars => Counts'
  BY NextIInv, NextUnits, NextProceeds, NextCost DEF Counts
<1> QED  BY <1>1, <1>2, PTL DEF Spec

\* However the rows come, the parcels between two of them hold exactly the units
\* the balance guard of queries._walk counts, and a sale the engine cannot cover
\* (OversoldError) is one the guard counts below nothing: splits, whose rounding
\* is shared over the parcels in one walk and made once in the other, included.
THEOREM WalksAgree == Spec => []UnitsAgree
<1>1. Counts => UnitsAgree
  BY DEF Counts, UnitsCount, UnitsAgree
<1> QED  BY <1>1, CountsHold, PTL

\* The parts a finished sale gives its parcels, each the running total owed less
\* what was given, add up to the whole cents received (fyreport.walk).
THEOREM ProceedsAddUp == Spec => []ProceedsWhole
<1>1. Counts => ProceedsWhole
  BY DEF Counts, ProceedsCount, ProceedsWhole
<1> QED  BY <1>1, CountsHold, PTL

\* Over any walk with every figure known, the money paid in less what was billed
\* out is the cost the parcels hold, to half a cent for each parcel used up: no
\* split, consolidation, deeming or reduction of cost loses or doubles any
\* (_Parcel.take, restart, absorb; _act; _deem).
THEOREM CostIsConserved == Spec => []CostConserved
<1>1. Counts => CostConserved
  BY DEF Counts, CostCount, Lost, CostConserved
<1> QED  BY <1>1, CountsHold, PTL

=============================================================================
