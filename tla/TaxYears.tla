------------------------------- MODULE TaxYears -------------------------------
(***************************************************************************)
(* The capital gains years of src/app/fyreport.py (`fy_cgt`, `_year_cgt`,  *)
(* ParcelUse), the CPI they index by (src/app/cpi.py) and the simulated    *)
(* sale built on them (src/app/simulate.py).  No figure is stored: each    *)
(* view works every year out again, from the first sale, over whatever     *)
(* sales, exchange rates, closes and index numbers are recorded by then.   *)
(*                                                                         *)
(* A day is a financial year, named by the year it ends, with one CPI      *)
(* quarter to the year.  Which parcels a sale uses and what it is billed   *)
(* for them is Parcels: here a disposal comes with its uses.  Money is in  *)
(* halves of a cent, so that the discount halves exactly.                  *)
(***************************************************************************)
EXTENDS Units, Sequences, SequencesExt

CONSTANTS
    Disposals,      \* what may be sold: see DisposalType
    Indexes,        \* index numbers a quarter may be given
    References,     \* reference periods of the index, in the order they come
    FirstYear,      \* bound: the first year anything may be sold in
    LastYear,       \* bound: the year the model stops in
    NewRules,       \* the year that 1 July 2027 begins
    Domestic,       \* tickers of AUD holdings, which need no rate
    MaxSales        \* bound: sales recorded

Years == FirstYear .. LastYear

Buckets == {"other", "discountable", "from_july_2027"}

\* A use of one parcel: when it was bought and for what, what it was worth just
\* before 1 July 2027, what was spent on it or came back after, what it sold for.
UseType ==
    [acquired : Int, cost : Int, value : Int,
     moved : Seq([when : Int, amount : Int]), proceeds : Int]

\* `matched` is FALSE for a sale of more than was held; an event is a return of
\* capital beyond the cost base, whose one use is a gain with no cost.
DisposalType ==
    [ticker : STRING, event : {"sale", "capital_return"}, matched : BOOLEAN,
     uses : Seq(UseType)]

ASSUME YearsAssumption ==
    /\ FirstYear \in Nat /\ LastYear \in Nat /\ FirstYear <= LastYear
    /\ NewRules \in Nat /\ MaxSales \in Nat
    /\ Disposals \subseteq DisposalType /\ Domestic \subseteq {d.ticker : d \in Disposals}
    /\ Indexes \subseteq Nat \ {0} /\ 1 \in References /\ References \subseteq Nat

VARIABLES
    today,      \* the financial year it is
    sales,      \* disposals recorded: [year, of, nth], at the figures they have now
    rates,      \* tickers whose currency converts
    closes,     \* tickers with a close in the week before 1 July 2027
    cpi,        \* models.CpiQuarter: each year's index number, 0 when not stored
    reference   \* CpiQuarter.reference_period of the stored numbers

vars == <<today, sales, rates, closes, cpi, reference>>

Tickers == {d.ticker : d \in Disposals}

-----------------------------------------------------------------------------
(***************************************************************************)
(* CPI.  A reader passes `facts`: what is recorded, and whether a quarter  *)
(* not published yet is estimated.                                         *)
(***************************************************************************)
Facts(estimate) == [rates |-> rates, closes |-> closes, cpi |-> cpi, estimate |-> estimate]

Unknown == 0

Stored(facts) == {y \in Years : facts.cpi[y] # Unknown}

Newest(ys) == CHOOSE y \in ys : \A z \in ys : z <= y

\* CpiBook.index: with `estimate` the latest stands in for any later quarter.
Index(facts, y) ==
    IF y \in Stored(facts) THEN facts.cpi[y]
    ELSE IF facts.estimate /\ Stored(facts) # {} /\ y > Newest(Stored(facts))
    THEN facts.cpi[Newest(Stored(facts))]
    ELSE Unknown

\* CpiBook.factor, in thousandths, a half rounded up; never below one.
Factor(facts, when, sold) ==
    LET then == Index(facts, when)
        now == Index(facts, sold)
        worked == (2000 * now + then) \div (2 * then)
    IN  IF when = sold THEN 1000
        ELSE IF then = Unknown \/ now = Unknown THEN Unknown
        ELSE IF worked > 1000 THEN worked ELSE 1000

-----------------------------------------------------------------------------
(***************************************************************************)
(* ParcelUse: one use `u` of a parcel by the sale `s`.                     *)
(***************************************************************************)
SumOf(Of(_), seq) == SumFunction([k \in DOMAIN seq |-> Of(seq[k])])

Cents(n, d) == 2 * RoundHalfEven(n, 2 * d)

IsSale(s) == s.of.event = "sale"

New(s) == s.year >= NewRules

HeldThrough(u, s) == IsSale(s) /\ New(s) /\ u.acquired < NewRules

\* Sold later than one year after it was acquired.
Discountable(u, s) == s.year > u.acquired + 1

\* The amounts in the cost base from 1 July 2027; what came back is not indexed.
Spent(u, s) ==
    (IF HeldThrough(u, s)
     THEN <<[when |-> NewRules, amount |-> u.value, indexed |-> TRUE]>>
     ELSE IF u.acquired >= NewRules
     THEN <<[when |-> u.acquired, amount |-> u.cost, indexed |-> TRUE]>>
     ELSE <<>>)
    \o [k \in DOMAIN u.moved |-> [when |-> u.moved[k].when, amount |-> u.moved[k].amount,
                                  indexed |-> u.moved[k].amount > 0]]

CostBase(u, s) ==
    IF HeldThrough(u, s) THEN SumOf(LAMBDA x : x.amount, Spent(u, s))
    ELSE u.cost + SumOf(LAMBDA x : x.amount, u.moved)

\* Whether the use's figures convert, and its value then is known.
Priced(u, s, facts) == s.of.ticker \in facts.rates

Valued(u, s, facts) ==
    HeldThrough(u, s) => Priced(u, s, facts) /\ s.of.ticker \in facts.closes

Total(u, s) == SumOf(LAMBDA x : x.amount, Spent(u, s))

\* _indexation runs for a sale from 1 July 2027 of a parcel held a year.
Indexed(u, s, facts) ==
    /\ IsSale(s) /\ New(s) /\ Discountable(u, s)
    /\ Priced(u, s, facts) /\ Valued(u, s, facts)

FactorOf(x, s, facts) == IF x.indexed THEN Factor(facts, x.when, s.year) ELSE 1000

AwaitingCpi(u, s, facts) ==
    /\ Indexed(u, s, facts)
    /\ \E k \in DOMAIN Spent(u, s) : FactorOf(Spent(u, s)[k], s, facts) = Unknown

\* ParcelUse.indexed_cost, by the factor weighed over the amounts spent.
IndexedCost(u, s, facts) ==
    IF Indexed(u, s, facts) /\ Total(u, s) > 0
    THEN Cents(CostBase(u, s) *
                   SumOf(LAMBDA x : x.amount * FactorOf(x, s, facts), Spent(u, s)),
               1000 * Total(u, s))
    ELSE CostBase(u, s)

\* Indexing cannot make a loss.
IndexedGain(proceeds, cost, indexed) ==
    IF proceeds >= indexed THEN proceeds - indexed
    ELSE IF proceeds < cost THEN proceeds - cost
    ELSE 0

After(u, s, facts) == IndexedGain(u.proceeds, CostBase(u, s), IndexedCost(u, s, facts))

Deferred(u) == u.value - u.cost

UseKnown(u, s, facts) ==
    Priced(u, s, facts) /\ Valued(u, s, facts) /\ ~AwaitingCpi(u, s, facts)

\* ParcelUse.gain
GainOf(u, s, facts) ==
    IF ~New(s) THEN u.proceeds - CostBase(u, s)
    ELSE After(u, s, facts) + IF HeldThrough(u, s) THEN Deferred(u) ELSE 0

\* _parts: a known use's gains or losses, each with the bucket it goes in.
Parts(u, s, facts) ==
    LET old == IF Discountable(u, s) THEN "discountable" ELSE "other"
    IN  IF ~New(s) THEN <<[bucket |-> old, amount |-> GainOf(u, s, facts)]>>
        ELSE (IF HeldThrough(u, s) THEN <<[bucket |-> old, amount |-> Deferred(u)]>> ELSE <<>>)
             \o <<[bucket |-> "from_july_2027", amount |-> After(u, s, facts)]>>

\* Disposal.known
Known(s, facts) == \A k \in DOMAIN s.of.uses : UseKnown(s.of.uses[k], s, facts)

GainOfSale(s, facts) == SumOf(LAMBDA u : GainOf(u, s, facts), s.of.uses)

-----------------------------------------------------------------------------
(***************************************************************************)
(* _year_cgt: a year's gains and losses netted.                            *)
(***************************************************************************)
Lesser(a, b) == IF a <= b THEN a ELSE b

AllOf(f) == f["other"] + f["discountable"] + f["from_july_2027"]

\* A mutant of Applied: the discountable gains are reduced first.
AppliedToDiscountable(losses, left) ==
    LET second == Lesser(losses, left["discountable"])
        first == Lesser(losses - second, left["other"])
        third == Lesser(losses - first - second, left["from_july_2027"])
    IN  [other |-> first, discountable |-> second, from_july_2027 |-> third]

\* Losses reduce the gains with no discount first, then the discountable ones,
\* then those from 1 July 2027.
Applied(losses, left) ==
    LET first == Lesser(losses, left["other"])
        second == Lesser(losses - first, left["discountable"])
        third == Lesser(losses - first - second, left["from_july_2027"])
    IN  [other |-> first, discountable |-> second, from_july_2027 |-> third]

Less(left, used) == [b \in Buckets |-> left[b] - used[b]]

\* A mutant of CarriedOut: a year's loss is carried on whole.
CarriedOutWhole(carried, used, unapplied, losses) == carried - used + losses

CarriedOut(carried, used, unapplied, losses) == carried - used + unapplied

\* The year's own losses, then those carried in, then the discount.
Netted(gains, losses, carried) ==
    LET own == Applied(losses, gains)
        left == Less(gains, own)
        unapplied == losses - AllOf(own)
        earlier == Applied(carried, left)
        last == Less(left, earlier)
        discount == last["discountable"] \div 2
    IN  [gains |-> gains, losses |-> losses, carried_in |-> carried,
         applied |-> own, carried_applied |-> AllOf(earlier), discount |-> discount,
         net_capital_loss |-> unapplied,
         net_capital_gain |-> IF unapplied > 0 THEN 0 ELSE AllOf(last) - discount,
         minimum_tax_gain |-> IF unapplied > 0 THEN 0 ELSE last["from_july_2027"],
         carried_out |-> CarriedOut(carried, AllOf(earlier), unapplied, losses),
         oversold |-> FALSE]

YearOf(sold, y) == {s \in sold : s.year = y}

KindOf(part) == IF part.amount < 0 THEN "loss" ELSE part.bucket

\* What a sale's uses bring of one kind, and what the sales that are known do.
Amount(s, facts, kind) ==
    SumOf(LAMBDA u : SumOf(LAMBDA p : IF KindOf(p) = kind THEN p.amount ELSE 0,
                           Parts(u, s, facts)),
          s.of.uses)

Amounts(sold, facts, kind) ==
    SumFunction([s \in {t \in sold : Known(t, facts)} |-> Amount(s, facts, kind)])

\* The year's sales, refused when one of them is of more than was held, and
\* without those whose figures are not all known.
YearCgt(sold, facts, y, carried) ==
    LET mine == YearOf(sold, y)
        gains == [b \in Buckets |-> Amounts(mine, facts, b)]
        losses == -Amounts(mine, facts, "loss")
    IN  IF \E s \in mine : ~s.of.matched
        THEN [Netted([b \in Buckets |-> 0], 0, 0) EXCEPT !.oversold = TRUE]
        ELSE Netted(gains, losses, carried)

\* Why a sale is left out: CgtSummary's awaiting_cpi, unvalued or withheld.
Reason(s, facts) ==
    LET uses == {s.of.uses[k] : k \in DOMAIN s.of.uses}
    IN  IF \E u \in uses : AwaitingCpi(u, s, facts) THEN "awaiting_cpi"
        ELSE IF \E u \in uses : ~Valued(u, s, facts) THEN "unvalued"
        ELSE "withheld"

LeftOut(sold, facts, y) ==
    {[ticker |-> s.of.ticker, why |-> Reason(s, facts)] :
        s \in {t \in YearOf(sold, y) : ~Known(t, facts)}}

\* fy_cgt: the years worked out in turn from the first sale, a refused one
\* standing for every year after it.
First(sold, y) ==
    LET sells == {s.year : s \in {t \in sold : IsSale(t)}}
    IN  IF sells = {} THEN y
        ELSE Lesser(y, CHOOSE first \in sells : \A other \in sells : first <= other)

\* A mutant of Named: the year names its own sales only.
NamedOwn(sold, facts, y) == LeftOut(sold, facts, y)

\* A sale left out of an earlier year is left out of the loss it carried too.
Named(sold, facts, y) == UNION {LeftOut(sold, facts, k) : k \in First(sold, y) .. y}

FyCgt(sold, facts, y) ==
    LET first == First(sold, y)
        upTo[k \in first .. y] ==
            IF k = first THEN YearCgt(sold, facts, k, 0)
            ELSE LET last == upTo[k - 1]
                 IN  IF last.oversold THEN last
                     ELSE YearCgt(sold, facts, k, last.carried_out)
    IN  upTo[y]

-----------------------------------------------------------------------------
(***************************************************************************)
(* simulate.sale: the year with and without a sale made today.             *)
(***************************************************************************)
\* why_not: a holding oversold, or one that cannot be valued, is not offered.
Offered(d) ==
    /\ d.event = "sale" /\ d.matched
    /\ d.ticker \in rates
    /\ \A s \in sales : s.of.ticker = d.ticker => s.of.matched
    /\ \A k \in DOMAIN d.uses : d.uses[k].acquired <= today

\* A mutant of YearSoFar: the year alone, without what was carried into it.
YearSoFarAlone(sold) == YearCgt(sold, Facts(TRUE), today, 0)

YearSoFar(sold) == FyCgt(sold, Facts(TRUE), today)

\* What the page shows of the year without the sale and with it.  A sale whose own
\* figures are not all known has no gain, and a year that is refused has no tax.
Shown(before, after, gain, known) ==
    LET taxable == after.net_capital_gain - before.net_capital_gain
        discount == after.discount - before.discount
    IN  [worked |-> known /\ ~before.oversold /\ ~after.oversold,
         gain |-> gain, taxable |-> taxable, discount |-> discount,
         losses_used |-> gain - discount - taxable,
         carried_forward |-> after.carried_out - before.carried_out]

Simulated(d) ==
    LET sell == [year |-> today, of |-> d, nth |-> 0]
    IN  Shown(YearSoFar(sales), FyCgt(sales \union {sell}, Facts(TRUE), today),
              GainOfSale(sell, Facts(TRUE)), Known(sell, Facts(TRUE)))

-----------------------------------------------------------------------------
Init ==
    /\ today = FirstYear /\ sales = {} /\ rates = Domestic /\ closes = {}
    /\ cpi = [y \in Years |-> Unknown] /\ reference = 1

\* A sale or a return of capital, of any year up to this one: a trade of an
\* earlier year may be entered late, or taken out again.
Record(y, d) ==
    /\ y <= today /\ Cardinality(sales) < MaxSales
    /\ \A k \in DOMAIN d.uses :
          /\ d.uses[k].acquired <= y
          /\ \A j \in DOMAIN d.uses[k].moved : d.uses[k].moved[j].when <= y
    /\ sales' = sales \union {[year |-> y, of |-> d,
                               nth |-> 1 + Cardinality({s \in sales : s.year = y /\ s.of = d})]}
    /\ UNCHANGED <<today, rates, closes, cpi, reference>>

Delete(s) ==
    /\ sales' = sales \ {s}
    /\ UNCHANGED <<today, rates, closes, cpi, reference>>

\* The price feed stores the first rate of a currency, from which on every figure
\* of its holdings converts, at the nearest rate or the earliest (FxBook.rate).
RateArrives(ticker) ==
    /\ ticker \notin rates
    /\ rates' = rates \union {ticker}
    /\ UNCHANGED <<today, sales, closes, cpi, reference>>

\* The first close of the week before 1 July 2027, from which on there is a value.
CloseArrives(ticker) ==
    /\ today >= NewRules /\ ticker \notin closes
    /\ closes' = closes \union {ticker}
    /\ UNCHANGED <<today, sales, rates, cpi, reference>>

\* One sale at two sets of figures, and at two values before 1 July 2027 only.
SameTrades(d, e) ==
    /\ e.ticker = d.ticker /\ e.event = d.event /\ e.matched = d.matched
    /\ Len(e.uses) = Len(d.uses)
    /\ \A k \in DOMAIN d.uses :
          /\ e.uses[k].acquired = d.uses[k].acquired
          /\ Len(e.uses[k].moved) = Len(d.uses[k].moved)
          /\ \A j \in DOMAIN d.uses[k].moved :
                e.uses[k].moved[j].when = d.uses[k].moved[j].when

SameButValued(d, e) ==
    \A k \in DOMAIN d.uses : e.uses[k] = [d.uses[k] EXCEPT !.value = e.uses[k].value]

\* A rate nearer to one of its days, or a later close of the week, is stored after
\* the first (the feed's backfill, a day it had missed): a sale's figures change.
NearerArrives(d, e) ==
    /\ SameTrades(d, e)
    /\ \/ d.ticker \in rates \ Domestic
       \/ d.ticker \in closes /\ SameButValued(d, e)
    /\ \E s \in sales : s.of = d
    /\ \A s \in sales : s.of # e
    /\ sales' = {[s EXCEPT !.of = IF @ = d THEN e ELSE @] : s \in sales}
    /\ UNCHANGED <<today, rates, closes, cpi, reference>>

\* A quarter could be published that is not stored yet.
Due ==
    /\ today - 1 >= NewRules
    /\ \A y \in Stored(Facts(FALSE)) : y < today - 1

\* cpi.refresh: the quarters published so far, the stored ones as they were
\* first published, or all of them again after a new reference period.
Refresh(last, published, period) ==
    /\ Due
    /\ LET kept == IF period = reference THEN cpi ELSE [y \in Years |-> Unknown]
       IN  cpi' = [y \in Years |-> IF y \in NewRules .. last /\ kept[y] = Unknown
                                   THEN published[y] ELSE kept[y]]
    /\ reference' = period
    /\ UNCHANGED <<today, sales, rates, closes>>

NewYear ==
    /\ today < LastYear
    /\ today' = today + 1
    /\ UNCHANGED <<sales, rates, closes, cpi, reference>>

Next ==
    \/ \E y \in Years, d \in Disposals : Record(y, d)
    \/ \E s \in sales : Delete(s)
    \/ \E ticker \in Tickers : RateArrives(ticker) \/ CloseArrives(ticker)
    \/ \E d, e \in Disposals : NearerArrives(d, e)
    \/ \E last \in NewRules .. today - 1, period \in References :
          /\ period >= reference
          /\ \E published \in [NewRules .. last -> Indexes] : Refresh(last, published, period)
    \/ NewYear

Spec == Init /\ [][Next]_vars

-----------------------------------------------------------------------------
(***************************************************************************)
(* Properties.                                                             *)
(***************************************************************************)
\* The shape of every variable.
TypeOK ==
    /\ today \in Years /\ IsFiniteSet(sales)
    /\ \A s \in sales : s.year \in Years /\ s.of \in Disposals /\ s.nth \in Nat
    /\ rates \subseteq Tickers /\ closes \subseteq Tickers
    /\ cpi \in [Years -> Indexes \union {Unknown}] /\ reference \in References

Told(y) == FyCgt(sales, Facts(FALSE), y)

SumOver(Of(_), ks) == SumFunction([k \in ks |-> Of(k)])

MeetsOnce(told) ==
    \A y \in Years : ~told[y].oversold =>
        LET years == First(sales, y) .. y
        IN  SumOver(LAMBDA k : AllOf(told[k].gains) - told[k].losses, years)
                = SumOver(LAMBDA k : told[k].net_capital_gain + told[k].discount, years)
                  - told[y].carried_out

\* Over all the years worked out, every gain is taxed, discounted or met by a
\* loss, and every loss meets a gain once or is still carried: "a loss left over
\* reaches the years after it" (fy_cgt), and none reaches two of them.
LossesOnce == MeetsOnce([y \in Years |-> Told(y)])

Least(r) ==
    \A first \in 0 .. r.gains["other"], second \in 0 .. r.gains["discountable"] :
        first + second <= r.losses + r.carried_in =>
            LET left == r.gains["discountable"] - second
            IN  r.net_capital_gain <= r.gains["other"] - first + left - left \div 2

\* Before 1 July 2027 no other way of setting the losses against the gains
\* leaves a smaller net capital gain: "the taxpayer-favourable order of s102-5(1)".
LeastGain ==
    \A y \in FirstYear .. NewRules - 1 :
        LET told == Told(y)
        IN  ~told.oversold => Least(told)

\* What may be stored next of what is not there yet.
Arrivals(facts) ==
    {[facts EXCEPT !.rates = @ \union {ticker}] : ticker \in Tickers}
    \union {[facts EXCEPT !.closes = @ \union {ticker}] : ticker \in Tickers}
    \union UNION {{[facts EXCEPT !.cpi[y] = number] : number \in Indexes} :
                     y \in {z \in Years : z >= NewRules} \ Stored(facts)}

\* What a year's figures leave out, it names, what was left out of the losses carried
\* into it too: while it names nothing, no first rate of a currency, first close of
\* the week or index number not stored yet changes a figure or has it name anything.
\* A nearer rate or close, and a new reference period, may (NearerArrives, Refresh).
MissingIsNamed ==
    \A y \in Years : Named(sales, Facts(FALSE), y) = {} =>
        LET told == Told(y)
        IN  \A more \in Arrivals(Facts(FALSE)) \ {Facts(FALSE)} :
                Named(sales, more, y) = {} /\ FyCgt(sales, more, y) = told

Sensible(sale) ==
    sale.worked =>
        /\ sale.losses_used = -sale.carried_forward
        /\ sale.gain >= 0 => sale.losses_used \in 0 .. sale.gain

\* A simulated sale adds up: what it uses of the losses is exactly what is then
\* no longer carried on, and a sale at a gain uses no more than it gains and adds
\* to no loss ("a gain a carried loss already covers is not taxed again").
SaleAddsUp == \A d \in Disposals : Offered(d) => Sensible(Simulated(d))

=============================================================================
