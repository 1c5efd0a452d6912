------------------------------- MODULE Holdings -------------------------------
(***************************************************************************)
(* The read model of src/app/queries.py over the tables of Ledger: the     *)
(* holdings page (`build_holding`), a holding's own page (`ledger`) and    *)
(* the daily lines the charts draw, in total (`portfolio_series`), by      *)
(* group (`grouped_series`) and of one holding (`instrument_series`).      *)
(* Each walks the same rows again in a loop of its own, over whatever      *)
(* closes and exchange rates the feed has stored by then, its Market.      *)
(*                                                                         *)
(* A reader sees one portfolio's instruments.  Ledger keeps one            *)
(* instrument's rows in each portfolio; as every handler works on one such *)
(* ledger (or carries rows from one to another), its ledgers are read here *)
(* as the instruments of one portfolio.  Ledger has no amounts: a row's is *)
(* its Amount, different for each, brokerage and a sale's price in it.     *)
(* A row's own fx_rate, when it has one, is taken to be the stored one.    *)
(* Left out: returns of capital, which Ledger has not, percentages and the *)
(* years and periods worked out from a line, its flow net of sales, an     *)
(* instrument a portfolio has a setting or a plan for and nothing else,    *)
(* and the cache of the lines.                                             *)
(***************************************************************************)
EXTENDS Ledger, SequencesExt

CONSTANT Markets    \* what the feed may have stored, a subset of MarketType

Unpriced == 0       \* no close

\* For each holding the days with a close, the holdings not in AUD, the days with a
\* rate of their currency, and the group each holding charts in, named by its holdings.
MarketType ==
    [closes : [Portfolios -> SUBSET Days], foreign : SUBSET Portfolios,
     rates : SUBSET Days, group : [Portfolios -> SUBSET Portfolios]]

ASSUME HoldingsAssumption == Markets \subseteq MarketType

\* Figures that are different on different days and of different rows.
Close(day) == 2 + day
RateOf(day) == 3 + day
Amount(kind, id) == (IF kind = "dividend" THEN 7 ELSE 11) + id

Total(xs, Field_(_)) == FoldSet(LAMBDA x, acc : acc + Field_(x), 0, xs)

-----------------------------------------------------------------------------
(***************************************************************************)
(* Market data.                                                            *)
(***************************************************************************)
Latest(days) == CHOOSE d \in days : \A e \in days : e <= d

\* _Stepper.at: the last close on or before the day.
At(m, h, day) ==
    LET by == {d \in m.closes[h] : d <= day}
    IN  IF by = {} THEN Unpriced ELSE Close(Latest(by))

\* FxBook.known and FxBook.rate: the last rate on or before the day, or else the
\* earliest there is.
FxKnown(m, h) == h \in m.foreign => m.rates # {}

Rate(m, h, day) ==
    LET by == {d \in m.rates : d <= day}
    IN  IF h \notin m.foreign THEN 1
        ELSE IF by # {} THEN RateOf(Latest(by))
        ELSE RateOf(CHOOSE d \in m.rates : \A e \in m.rates : d <= e)

\* portfolio_instrument_ids
Own == {h \in Portfolios : Of(h, trades) \cup Of(h, dividends) \cup Of(h, actions) # {}}

-----------------------------------------------------------------------------
(***************************************************************************)
(* The events of a chart, and what they have come to by a day.             *)
(***************************************************************************)
Event(h, day, kind, id) == [holding |-> h, day |-> day, kind |-> kind, id |-> id]

\* A reinvested distribution is an event of the total's walk, of no amount.
Events(hs) ==
    UNION {{Event(h, trades[i].day, trades[i].type, i) : i \in Of(h, trades)}
           \cup {Event(h, dividends[i].day,
                       IF dividends[i].reinvest = None THEN "dividend" ELSE "reinvested", i)
                    : i \in Of(h, dividends)}
           \cup {Event(h, actions[i].day, "split", i) : i \in Of(h, actions)}
           : h \in hs}

\* The loops' order: by day, and an action from the start of its day.
Sooner(e, f) ==
    \/ e.day < f.day
    \/ e.day = f.day /\ e.kind = "split" /\ f.kind # "split"

\* A holding's running totals: its units, what was spent on it, taken from its sales and
\* earned in cash.
Nil(h) == [holding |-> h, units |-> 0, spent |-> 0, taken |-> 0, earned |-> 0]

\* One turn of the loop over the events, for the event's own holding.
Booked(m, held, e) ==
    LET amount == Amount(e.kind, e.id) * Rate(m, e.holding, e.day)
    IN  CASE e.kind = "buy" -> [held EXCEPT !.units = @ + trades[e.id].quantity,
                                            !.spent = @ + amount]
          [] e.kind = "drp" -> [held EXCEPT !.units = @ + trades[e.id].quantity]
          [] e.kind = "sell" -> [held EXCEPT !.units = @ - trades[e.id].quantity,
                                             !.taken = @ + amount]
          [] e.kind = "split" ->
                [held EXCEPT !.units = SplitUnits(@, actions[e.id].new, actions[e.id].old)]
          [] e.kind = "dividend" -> [held EXCEPT !.earned = @ + amount]
          [] e.kind = "reinvested" -> held

-----------------------------------------------------------------------------
(***************************************************************************)
(* The daily lines.                                                        *)
(***************************************************************************)
Charted(m) == {h \in Own : FxKnown(m, h)}

\* What the events up to a day have come to, for each holding.
BookBy(m, day) ==
    {FoldLeft(LAMBDA held, e : Booked(m, held, e), Nil(h),
              SetToSortSeq({e \in Events({h}) : e.day <= day}, Sooner)) : h \in Charted(m)}

\* The days with a close of anything owned, from the first of the events.
Dates(m, events) ==
    {d \in UNION {m.closes[h] : h \in Own} : \E e \in events : e.day <= d}

\* The chart's date before, 0 for its first.
Previous(dates, day) ==
    LET before == {d \in dates : d < day} IN IF before = {} THEN 0 ELSE Latest(before)

Entry(value, invested, back, flow, cash) ==
    [value |-> value, invested |-> invested, gain |-> value + back - invested,
     flow_in |-> flow, cash_div |-> cash]

\* Held that day with no close by then.
NoClose(m, day, book) == {p \in book : p.units # 0 /\ At(m, p.holding, day) = Unpriced}

Value(m, day, book) ==
    Total({p \in book : p.units # 0},
          LAMBDA p : p.units * At(m, p.holding, day) * Rate(m, p.holding, day))

Spent(book) == Total(book, LAMBDA p : p.spent)
Taken(book) == Total(book, LAMBDA p : p.taken)
Earned(book) == Total(book, LAMBDA p : p.earned)

\* portfolio_series, a day of it: everything's running totals, less what the holdings
\* that cannot be valued brought.  `before` is the book of the chart's last date.
TotalOn(m, day, book, before) ==
    LET gone == NoClose(m, day, book)
    IN  Entry(Value(m, day, book \ gone), Spent(book) - Spent(gone),
              (Taken(book) - Taken(gone)) + (Earned(book) - Earned(gone)),
              Spent(book) - Spent(before), Earned(book) - Earned(before))

portfolio_series(m) ==
    LET dates == Dates(m, Events(Charted(m)))
    IN  [d \in dates |-> TotalOn(m, d, BookBy(m, d), BookBy(m, Previous(dates, d)))]

\* grouped_series, a day of a group's line: what each holding brought, an unpriced one
\* skipped whole.
GroupOn(m, day, book, before) ==
    LET counted == book \ NoClose(m, day, book)
    IN  Entry(Value(m, day, counted), Spent(counted), Taken(counted) + Earned(counted),
              Spent(book) - Spent(before), Earned(book) - Earned(before))

InGroup(m, g, book) == {p \in book : m.group[p.holding] = g}

\* A mutant of Live: a group is charted for what it was worth.
LiveByValue(line) == \E d \in DOMAIN line : line[d].value # 0

\* A group with nothing but zeros is dropped.
Live(line) == \E d \in DOMAIN line : line[d] # Entry(0, 0, 0, 0, 0)

\* Its events are without the reinvested distributions.
grouped_series(m) ==
    LET dates == Dates(m, {e \in Events(Charted(m)) : e.kind # "reinvested"})
        groups == {m.group[h] : h \in Charted(m)}
        line(g) == [d \in dates |->
                       GroupOn(m, d, InGroup(m, g, BookBy(m, d)),
                               InGroup(m, g, BookBy(m, Previous(dates, d))))]
    IN  [dates |-> dates, groups |-> [g \in {k \in groups : Live(line(k))} |-> line(g)]]

\* The market as a holding's own page has it, in the holding's currency.
Native(m) == [m EXCEPT !.foreign = {}]

\* instrument_series: the holding's own closes, from its first trade.
instrument_series(m, h) ==
    [d \in {c \in m.closes[h] : \E i \in Of(h, trades) : trades[i].day <= c} |->
        LET mine == {p \in BookBy(Native(m), d) : p.holding = h}
        IN  [value |-> Total(mine, LAMBDA p : p.units * Close(d)), invested |-> Spent(mine)]]

-----------------------------------------------------------------------------
(***************************************************************************)
(* The holdings page, and a holding's.                                     *)
(***************************************************************************)
\* build_holding.  What the units held cost is Parcels' walk.
Holding(m, h) ==
    LET units == UnitsThrough(Rows(h, trades, actions))
        buys == {i \in Of(h, trades) : trades[i].type = "buy"}
    IN  [units |-> units,
         invested |-> Total(buys, LAMBDA i : Amount("buy", i)),
         priced |-> m.closes[h] # {} /\ units # 0,
         value |-> IF m.closes[h] = {} THEN 0 ELSE units * Close(Latest(m.closes[h]))]

\* all_holdings
all_holdings(m) == [h \in Own |-> Holding(m, h)]

\* ledger: a page's rows, and the row the buttons of each act on.
ledger(h) ==
    LET owner(t) == {d \in Of(h, dividends) : dividends[d].reinvest = t}
    IN  {[kind |-> trades[t].type, id |-> t,
          row_kind |-> IF owner(t) = {} THEN "trade" ELSE "dividend",
          row_id |-> IF owner(t) = {} THEN t ELSE CHOOSE d \in owner(t) : TRUE]
            : t \in Of(h, trades)}
        \cup {[kind |-> "dividend", id |-> d, row_kind |-> "dividend", row_id |-> d]
            : d \in {e \in Of(h, dividends) : dividends[e].reinvest = None}}
        \cup {[kind |-> "split", id |-> a, row_kind |-> "action", row_id |-> a]
            : a \in Of(h, actions)}

-----------------------------------------------------------------------------
(***************************************************************************)
(* Properties.                                                             *)
(***************************************************************************)
Back(e) == e.gain - e.value + e.invested

Plus(e, f) ==
    Entry(e.value + f.value, e.invested + f.invested, Back(e) + Back(f),
          e.flow_in + f.flow_in, e.cash_div + f.cash_div)

SumOn(d, lines) ==
    FoldSet(LAMBDA g, acc : Plus(lines[g][d], acc), Entry(0, 0, 0, 0, 0), DOMAIN lines)

\* The groups' lines add up to the total's, on the same days.
SplitAddsUp(total, split) ==
    /\ DOMAIN total = split.dates
    /\ \A d \in DOMAIN total : total[d] = SumOn(d, split.groups)

NoMarket ==
    [closes |-> [h \in Portfolios |-> {}], foreign |-> {}, rates |-> {},
     group |-> [h \in Portfolios |-> {h}]]

\* On every day the charts' walk holds the units the balance guard counts.
UnitsAreTheGuards ==
    \A d \in Days : \A p \in BookBy(NoMarket, d) :
        p.units = UnitsThrough({r \in Rows(p.holding, trades, actions) : r.day <= d})

\* The total of the last day, once everything has happened by it, is the holdings page's.
PageAgrees(m, total, page) ==
    \A d \in DOMAIN total :
        (d = Latest(DOMAIN total) /\ \A e \in Events(Own) : e.day <= d) =>
            total[d].value = Total({h \in Own : page[h].priced}, LAMBDA h : page[h].value)

\* A holding's own line is the line of a group of it alone.
OwnLineAgrees(m, h, line) ==
    \A d \in DOMAIN line :
        LET alone == GroupOn(m, d, {p \in BookBy(m, d) : p.holding = h}, {})
        IN  line[d].value = alone.value /\ line[d].invested = alone.invested

\* A holding's page has one row for each of its rows but a reinvested distribution and its
\* purchase, which are one row and act on the distribution.
PageReaches(h) ==
    LET rows == ledger(h)
        targets == {<<r.row_kind, r.row_id>> : r \in rows}
    IN  /\ Cardinality(rows) = Cardinality(targets)
        /\ targets = {<<"trade", t>> : t \in {u \in Of(h, trades) : Owners(u) = {}}}
                     \cup ({"dividend"} \X Of(h, dividends))
                     \cup ({"action"} \X Of(h, actions))

\* Whatever has been entered, edited, moved and deleted, and whatever closes and rates
\* are stored, the walks of the read model tell one story: the split by group adds up to
\* the total on every day, the last day's total is the holdings page's, all count the units
\* the guard does, and a holding's page reaches each of its rows once ("leaves the day ENTIRELY: cost, proceeds and cash income
\* together", portfolio_series; "dropping its line left the split short of the total",
\* grouped_series).
ReadersAgree ==
    (\A c \in Credentials : pending[c] = None) =>
        /\ UnitsAreTheGuards
        /\ \A h \in Own : PageReaches(h)
        /\ \A m \in Markets : SplitAddsUp(portfolio_series(m), grouped_series(m))
        /\ \A m \in {n \in Markets : n = Native(n)} :
              /\ PageAgrees(m, portfolio_series(m), all_holdings(m))
              /\ \A h \in Own : OwnLineAgrees(m, h, instrument_series(m, h))
=============================================================================
