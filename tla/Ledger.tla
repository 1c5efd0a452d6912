-------------------------------- MODULE Ledger --------------------------------
(***************************************************************************)
(* One instrument's ledger in each portfolio: its trades, distributions,   *)
(* splits and the plan steps that recorded a buy, and every handler that   *)
(* writes them (src/app/main.py, api.py, imports_web.py, moves.py).  Each  *)
(* handler reads the tables, decides, and commits.                         *)
(*                                                                         *)
(* The web handlers run on one event loop and never overlap each other;    *)
(* the API's run in threads.  On SQLite a request holds the write lock     *)
(* from authentication (load_auth and load_api_key write the row they      *)
(* read) to its commit, so no request decides while another has still to   *)
(* commit (Serialised).  On Postgres those writes only lock the session's  *)
(* or the key's own row: a request decides on what is committed then and   *)
(* commits later, with at most one of the same credential under way.       *)
(*                                                                         *)
(* Amounts, notes, times of day and returns of capital are left out: none  *)
(* of them moves units.  A trade of a later time of day is one with a      *)
(* larger id here.                                                         *)
(***************************************************************************)
EXTENDS Units, FiniteSets

CONSTANTS
    Portfolios,
    Days,           \* dates up to today, as numbers
    Quantities,     \* units of a trade
    Ratios,         \* <<new, old>> of a split
    Credentials,    \* the web's event loop and the API keys
    Web,            \* the event loop, one of Credentials
    Serialised,     \* TRUE: SQLite.  FALSE: Postgres
    MaxTrades,      \* bounds: the largest ids
    MaxDividends,
    MaxActions,
    MaxSteps,
    None            \* SQL NULL

ASSUME LedgerAssumption ==
    /\ Days \subseteq Nat /\ Quantities \subseteq Nat \ {0}
    /\ Ratios \subseteq (Nat \ {0}) \X (Nat \ {0})
    /\ Web \in Credentials /\ Serialised \in BOOLEAN
    /\ {MaxTrades, MaxDividends, MaxActions, MaxSteps} \subseteq Nat
    /\ None \notin Nat

VARIABLES
    trades,         \* Trade: id -> row
    dividends,      \* Dividend: id -> row
    actions,        \* CorporateAction (splits): id -> row
    steps,          \* PlannedPurchase: id -> row
    pending         \* what each credential's request has decided to write, or None

tables == <<trades, dividends, actions, steps>>
vars == <<trades, dividends, actions, steps, pending>>

-----------------------------------------------------------------------------
(***************************************************************************)
(* Tables are functions from the ids in use to rows.                       *)
(***************************************************************************)
Empty == [id \in {} |-> None]

One(id, r) == [x \in {id} |-> r]

Without(table, ids) == [x \in DOMAIN table \ ids |-> table[x]]

With(table, put) ==
    [x \in DOMAIN table \cup DOMAIN put |-> IF x \in DOMAIN put THEN put[x] ELSE table[x]]

Of(p, table) == {id \in DOMAIN table : table[id].portfolio = p}

Trade(p, day, type, quantity) ==
    [portfolio |-> p, day |-> day, type |-> type, quantity |-> quantity]

Dividend(p, day, trade) == [portfolio |-> p, day |-> day, reinvest |-> trade]

Action(p, day, ratio) == [portfolio |-> p, day |-> day, new |-> ratio[1], old |-> ratio[2]]

Step(p, trade, status) == [portfolio |-> p, trade |-> trade, status |-> status]

\* A row's id is larger than any in use or about to be: SQLite's next rowid, a
\* Postgres sequence.  One above `limit` when none is left.
NextId(limit, table, name) ==
    LET used == DOMAIN table
                \cup UNION {DOMAIN pending[c][name] : c \in {x \in Credentials : pending[x] # None}}
    IN  CHOOSE n \in 1 .. limit + 1 : \A id \in used : id < n

NewTrade == NextId(MaxTrades, trades, "trades")
NewDividend == NextId(MaxDividends, dividends, "dividends")
NewAction == NextId(MaxActions, actions, "actions")
NewStep == NextId(MaxSteps, steps, "steps")

-----------------------------------------------------------------------------
(***************************************************************************)
(* The timeline (queries.timeline, moment, _walk).                         *)
(***************************************************************************)
\* queries.moment: the day, its actions before its trades, then the id, as one
\* number.
Moment(r) ==
    (2 * r.day + (IF r.isTrade THEN 1 ELSE 0)) * (MaxTrades + MaxActions + 1) + r.id

Earlier(r, s) == Moment(r) < Moment(s)

\* Rows of portfolio p, in the shape the walk needs.
Rows(p, ts, as) ==
    {[id |-> i, isTrade |-> TRUE, day |-> ts[i].day, gain |-> ts[i].type \in {"buy", "drp"},
      quantity |-> ts[i].quantity, ratio |-> <<1, 1>>]
        : i \in Of(p, ts)}
    \cup
    {[id |-> i, isTrade |-> FALSE, day |-> as[i].day, gain |-> FALSE,
      quantity |-> 0, ratio |-> <<as[i].new, as[i].old>>]
        : i \in Of(p, as)}

After(units, r) ==
    IF ~r.isTrade THEN SplitUnits(units, r.ratio[1], r.ratio[2])
    ELSE IF r.gain THEN units + r.quantity ELSE units - r.quantity

\* queries.units_through: the units held once `rows` have been walked in order.
UnitsThrough(rows) ==
    LET held[S \in SUBSET rows] ==
            IF S = {} THEN 0
            ELSE LET last == CHOOSE r \in S : \A s \in S \ {r} : Earlier(s, r)
                 IN  After(held[S \ {last}], last)
    IN  held[rows]

\* queries.balance_breach is None: the walk never goes below nothing.
Covered(p, ts, as) ==
    LET rows == Rows(p, ts, as)
    IN  \A r \in rows : UnitsThrough({s \in rows : ~Earlier(r, s)}) >= 0

-----------------------------------------------------------------------------
(***************************************************************************)
(* A write is what a handler has decided to save: rows put, new or in      *)
(* place of the ones with their ids, and ids deleted.                      *)
(***************************************************************************)
Nothing ==
    [trades |-> Empty, dividends |-> Empty, actions |-> Empty, steps |-> Empty,
     goneTrades |-> {}, goneDividends |-> {}, goneActions |-> {}]

Save(w) ==
    /\ trades' = With(Without(trades, w.goneTrades), w.trades)
    /\ dividends' = With(Without(dividends, w.goneDividends), w.dividends)
    /\ actions' = With(Without(actions, w.goneActions), w.actions)
    /\ steps' = With(steps, w.steps)

Init ==
    /\ trades = Empty /\ dividends = Empty /\ actions = Empty /\ steps = Empty
    /\ pending = [c \in Credentials |-> None]

\* A request's answer is `w`: decided now, committed later, and on SQLite
\* behind the write lock in between.
Answer(c, w) ==
    /\ pending[c] = None
    /\ Serialised => \A e \in Credentials : pending[e] = None
    /\ pending' = [pending EXCEPT ![c] = w]
    /\ UNCHANGED tables

Commit(c) ==
    /\ pending[c] # None
    /\ Save(pending[c])
    /\ pending' = [pending EXCEPT ![c] = None]

\* _owning_dividend, and a mutant that finds none.
NoOwners(t) == {}

Owners(t) == {d \in DOMAIN dividends : dividends[d].reinvest = t}

\* The plan's steps of p that recorded one of the trades `gone`.
Recorded(p, gone) ==
    {s \in DOMAIN steps : steps[s].portfolio = p /\ steps[s].trade \in gone}

\* Mutants of the two releases: none is made, or the step reopens.
NotReleased(p, gone) == Empty

ReopenedOnDelete(p, gone) ==
    [s \in Recorded(p, gone)
        |-> [steps[s] EXCEPT !.trade = None, !.status = "planned"]]

\* _release_planned_purchases: the step keeps its status and loses the trade.
Released(p, gone) ==
    [s \in Recorded(p, gone)
        |-> [steps[s] EXCEPT !.trade = None]]

\* _release_for_move: the step goes back to planned.
ReleasedForMove(p, gone) ==
    [s \in Recorded(p, gone)
        |-> [steps[s] EXCEPT !.trade = None, !.status = "planned"]]

-----------------------------------------------------------------------------
(***************************************************************************)
(* Trades.                                                                 *)
(***************************************************************************)
AddTrade(c, p, day, type, quantity) ==
    LET put == One(NewTrade, Trade(p, day, type, quantity))
    IN  /\ NewTrade <= MaxTrades
        /\ Covered(p, With(trades, put), actions)
        /\ Answer(c, [Nothing EXCEPT !.trades = put])

\* POST /trade/new (once per form: Submissions)
TradeCreate(p, day, type, quantity) ==
    type \in {"buy", "sell"} /\ AddTrade(Web, p, day, type, quantity)

\* POST /api/v1/trades, which takes a "drp" too
ApiTrade(c, p, day, type, quantity) ==
    c # Web /\ AddTrade(c, p, day, type, quantity)

\* POST /trade/{id}/edit
TradeEdit(t, day, type, quantity) ==
    LET p == trades[t].portfolio
        put == One(t, Trade(p, day, type, quantity))
    IN  /\ Owners(t) = {}
        /\ type \in {"buy", "sell"}
        /\ Covered(p, With(trades, put), actions)
        /\ Answer(Web, [Nothing EXCEPT !.trades = put])

\* POST /trade/{id}/delete
TradeDelete(t) ==
    LET p == trades[t].portfolio
    IN  /\ Owners(t) = {}
        /\ Covered(p, Without(trades, {t}), actions)
        /\ Answer(Web, [Nothing EXCEPT !.goneTrades = {t}, !.steps = Released(p, {t})])

\* POST /imports-exports/csv/{uid}/commit, for two new rows of a file in the
\* order they happened: the second is judged with the first accepted.
CsvCommit(p, first, second) ==
    LET put1 == One(NewTrade, first)
        put2 == One(NewTrade + 1, second)
    IN  /\ NewTrade + 1 <= MaxTrades
        /\ first.day <= second.day
        /\ Covered(p, With(trades, put1), actions)
        /\ Covered(p, With(With(trades, put1), put2), actions)
        /\ Answer(Web, [Nothing EXCEPT !.trades = With(put1, put2)])

-----------------------------------------------------------------------------
(***************************************************************************)
(* Distributions.                                                          *)
(***************************************************************************)
\* POST /imports-exports/statement/commit: the distribution and, reinvested,
\* the units it bought.  No breach is looked for.
Record(p, day, quantity) ==
    /\ NewDividend <= MaxDividends
    /\ \/ /\ NewTrade <= MaxTrades
          /\ Answer(Web, [Nothing EXCEPT
                 !.trades = One(NewTrade, Trade(p, day, "drp", quantity)),
                 !.dividends = One(NewDividend, Dividend(p, day, NewTrade))])
       \/ Answer(Web, [Nothing EXCEPT !.dividends = One(NewDividend, Dividend(p, day, None))])

\* POST /api/v1/dividends
ApiDividend(c, p, day) ==
    /\ c # Web
    /\ NewDividend <= MaxDividends
    /\ Answer(c, [Nothing EXCEPT !.dividends = One(NewDividend, Dividend(p, day, None))])

\* POST /dividend/{id}/edit: both halves of a reinvested one move together.
DividendEdit(d, day, quantity) ==
    LET row == dividends[d]
        t == row.reinvest
        put == IF t = None THEN Empty
               ELSE One(t, [trades[t] EXCEPT !.day = day, !.quantity = quantity])
        candidate == IF t = None THEN Empty
                     ELSE One(t, Trade(row.portfolio, day, "drp", quantity))
    IN  /\ t # None => Covered(row.portfolio, With(trades, candidate), actions)
        /\ Answer(Web, [Nothing EXCEPT
               !.trades = put, !.dividends = One(d, [row EXCEPT !.day = day])])

\* POST /dividend/{id}/delete: the units go with the cash.
DividendDelete(d) ==
    LET row == dividends[d]
        gone == {row.reinvest} \ {None}
    IN  /\ gone # {} => Covered(row.portfolio, Without(trades, gone), actions)
        /\ Answer(Web, [Nothing EXCEPT
               !.goneDividends = {d}, !.goneTrades = gone,
               !.steps = Released(row.portfolio, gone)])

-----------------------------------------------------------------------------
(***************************************************************************)
(* Corporate actions.                                                      *)
(***************************************************************************)
\* _action_from: something is held before the action, and the timeline with it
\* is covered.  A new one has no id yet and sorts as 0, before its day's others.
ActionStands(p, id, others, action) ==
    LET with == With(others, One(id, action))
        before == {r \in Rows(p, trades, others) :
                      \/ r.day < action.day
                      \/ r.day = action.day /\ ~r.isTrade /\ r.id < id}
    IN  /\ UnitsThrough(before) > 0
        /\ Covered(p, trades, with)

\* POST /action/new, /action/{id}/edit and /action/{id}/delete
ActionNew(p, day, ratio) ==
    LET action == Action(p, day, ratio)
    IN  /\ NewAction <= MaxActions
        /\ ActionStands(p, 0, actions, action)
        /\ Answer(Web, [Nothing EXCEPT !.actions = One(NewAction, action)])

ActionEdit(a, day, ratio) ==
    LET action == Action(actions[a].portfolio, day, ratio)
    IN  /\ ActionStands(action.portfolio, a, Without(actions, {a}), action)
        /\ Answer(Web, [Nothing EXCEPT !.actions = One(a, action)])

ActionDelete(a) ==
    /\ Covered(actions[a].portfolio, trades, Without(actions, {a}))
    /\ Answer(Web, [Nothing EXCEPT !.goneActions = {a}])

-----------------------------------------------------------------------------
(***************************************************************************)
(* The plan, and whole holdings.                                           *)
(***************************************************************************)
\* POST /schedule/complete: a buy, so no breach is looked for.
PlanComplete(p, day, quantity) ==
    /\ NewTrade <= MaxTrades /\ NewStep <= MaxSteps
    /\ Answer(Web, [Nothing EXCEPT
           !.trades = One(NewTrade, Trade(p, day, "buy", quantity)),
           !.steps = One(NewStep, Step(p, NewTrade, "done"))])

\* POST /schedule/skip
PlanSkip(p) ==
    /\ NewStep <= MaxSteps
    /\ Answer(Web, [Nothing EXCEPT !.steps = One(NewStep, Step(p, None, "skipped"))])

\* moves._couple: the ticked rows with the other halves of their pairs.
CoupledTrades(tickedTrades, tickedDividends) ==
    tickedTrades \cup ({dividends[d].reinvest : d \in tickedDividends} \ {None})

CoupledDividends(tickedTrades, tickedDividends) ==
    tickedDividends \cup {d \in DOMAIN dividends : dividends[d].reinvest \in tickedTrades}

\* moves.source_problem is None: what stays is covered.  The mutant does not look.
SourceUnchecked(p, ts) == TRUE

SourceStands(p, ts) == Covered(p, Without(trades, ts), actions)

\* moves.target_problem is None: what the rows join is covered.
TargetStands(target, moved) == Covered(target, With(trades, moved), actions)

\* moves.perform: the rows, in the portfolio they go to.
perform(table, ids, target) == [x \in ids |-> [table[x] EXCEPT !.portfolio = target]]

\* POST /trade/{id}/move
Move(p, target, tickedTrades, tickedDividends) ==
    LET ts == CoupledTrades(tickedTrades, tickedDividends)
        ds == CoupledDividends(tickedTrades, tickedDividends)
        moved == perform(trades, ts, target)
    IN  /\ target # p /\ tickedTrades \cup tickedDividends # {}
        /\ SourceStands(p, ts) /\ TargetStands(target, moved)
        /\ Answer(Web, [Nothing EXCEPT
               !.trades = moved,
               !.dividends = perform(dividends, ds, target),
               !.steps = ReleasedForMove(p, ts)])

\* What the move dialog offers, and so what may be ticked: a reinvested distribution
\* has no row of its own, and may still be named as its units' pair.
movable_rows(p) ==
    [trades |-> Of(p, trades),
     dividends |-> {d \in Of(p, dividends) :
                       dividends[d].reinvest = None \/ dividends[d].reinvest \in Of(p, trades)}]

\* balance_breach: the row at which the walk of `ts` first goes below nothing, if any.
Breach(p, ts) ==
    LET rows == Rows(p, ts, actions)
        short == {r \in rows : UnitsThrough({s \in rows : ~Earlier(r, s)}) < 0}
    IN  {r \in short : \A s \in short : ~Earlier(s, r)}

\* moves.expand, drawing the dialog: the pairs are coupled, then each row that what
\* stays could not cover is pulled in.  The mutant couples last.
ExpandedFirst(p, tickedTrades, tickedDividends) ==
    LET moving[n \in 0 .. MaxTrades] ==
            IF n = 0 THEN tickedTrades
            ELSE moving[n - 1] \cup {r.id : r \in Breach(p, Without(trades, moving[n - 1]))}
    IN  CoupledTrades(moving[MaxTrades], CoupledDividends(tickedTrades, tickedDividends))

expand(p, tickedTrades, tickedDividends) ==
    LET moving[n \in 0 .. MaxTrades] ==
            IF n = 0 THEN CoupledTrades(tickedTrades, tickedDividends)
            ELSE moving[n - 1] \cup {r.id : r \in Breach(p, Without(trades, moving[n - 1]))}
    IN  moving[MaxTrades]

\* POST /holdings/{id}/delete-trades
DeleteTrades(p) ==
    LET ts == Of(p, trades)
    IN  Answer(Web, [Nothing EXCEPT
            !.goneTrades = ts,
            !.goneDividends = Of(p, dividends),
            !.goneActions = Of(p, actions),
            !.steps = Released(p, ts)])

-----------------------------------------------------------------------------
NewRow ==
    \E p \in Portfolios, day \in Days, quantity \in Quantities :
        \/ \E type \in {"buy", "sell"} : TradeCreate(p, day, type, quantity)
        \/ \E c \in Credentials, type \in {"buy", "sell", "drp"} :
              ApiTrade(c, p, day, type, quantity)
        \/ \E c \in Credentials : ApiDividend(c, p, day)
        \/ Record(p, day, quantity)
        \/ PlanComplete(p, day, quantity)
        \/ \E later \in Days, types \in {"buy", "sell"} \X {"buy", "sell"} :
              CsvCommit(p, Trade(p, day, types[1], quantity), Trade(p, later, types[2], quantity))

Changed ==
    \E day \in Days, quantity \in Quantities :
        \/ \E t \in DOMAIN trades, type \in {"buy", "sell"} : TradeEdit(t, day, type, quantity)
        \/ \E d \in DOMAIN dividends : DividendEdit(d, day, quantity)

Removed ==
    \/ \E t \in DOMAIN trades : TradeDelete(t)
    \/ \E d \in DOMAIN dividends : DividendDelete(d)
    \/ \E p \in Portfolios : DeleteTrades(p)

OfActions ==
    \/ \E day \in Days, ratio \in Ratios :
          \/ \E p \in Portfolios : ActionNew(p, day, ratio)
          \/ \E a \in DOMAIN actions : ActionEdit(a, day, ratio)
    \/ \E a \in DOMAIN actions : ActionDelete(a)

Moved ==
    \E p, target \in Portfolios :
        \E ts \in SUBSET movable_rows(p).trades,
           ds \in SUBSET movable_rows(p).dividends :
               Move(p, target, ts, ds)

Next ==
    \/ NewRow \/ Changed \/ Removed \/ OfActions \/ Moved
    \/ \E p \in Portfolios : PlanSkip(p)
    \/ \E c \in Credentials : Commit(c)

Spec == Init /\ [][Next]_vars

-----------------------------------------------------------------------------
(***************************************************************************)
(* Properties.                                                             *)
(***************************************************************************)
TradeRow ==
    [portfolio : Portfolios, day : Days, type : {"buy", "sell", "drp"}, quantity : Quantities]
DividendRow == [portfolio : Portfolios, day : Days, reinvest : Nat \cup {None}]
ActionRow == [portfolio : Portfolios, day : Days, new : Nat \ {0}, old : Nat \ {0}]
StepRow ==
    [portfolio : Portfolios, trade : Nat \cup {None}, status : {"planned", "done", "skipped"}]

\* The shape of every table.
TypeOK ==
    /\ DOMAIN trades \subseteq 1 .. MaxTrades /\ \A t \in DOMAIN trades : trades[t] \in TradeRow
    /\ DOMAIN dividends \subseteq 1 .. MaxDividends
    /\ \A d \in DOMAIN dividends : dividends[d] \in DividendRow
    /\ DOMAIN actions \subseteq 1 .. MaxActions
    /\ \A a \in DOMAIN actions : actions[a] \in ActionRow
    /\ DOMAIN steps \subseteq 1 .. MaxSteps
    /\ \A s \in DOMAIN steps : steps[s] \in StepRow
    /\ DOMAIN pending = Credentials

\* No portfolio's timeline ever sells more than it holds, whatever is entered,
\* edited, deleted, split, imported or moved, in any order, and with no check
\* on the plan's buys and a statement's (`_breach`, moves.py).
NeverOversold == \A p \in Portfolios : Covered(p, trades, actions)

\* The two halves of a reinvested distribution exist, belong to one portfolio
\* and one day, and no trade reinvests two distributions (moves.py: "every
\* reader assumes the halves share a portfolio").
PairWhole ==
    \A d \in DOMAIN dividends : dividends[d].reinvest # None =>
        /\ dividends[d].reinvest \in DOMAIN trades
        /\ trades[dividends[d].reinvest].portfolio = dividends[d].portfolio
        /\ trades[dividends[d].reinvest].day = dividends[d].day
        /\ trades[dividends[d].reinvest].type = "drp"
        /\ \A e \in DOMAIN dividends : dividends[e].reinvest = dividends[d].reinvest => e = d

\* A plan step that names a trade is done, and names one its own portfolio
\* holds (`_release_for_move`: 'Leaving it "done" would show a purchase backed
\* by nothing').
StepHonest ==
    \A s \in DOMAIN steps : steps[s].trade # None =>
        /\ steps[s].status = "done"
        /\ steps[s].trade \in DOMAIN trades
        /\ trades[steps[s].trade].portfolio = steps[s].portfolio

\* What the dialog pre-ticks can be moved as it stands, whatever was ticked to begin
\* with: the source is left covered, and every pair is in it whole although pairs are
\* coupled before rows are pulled in (`expand`: "a second coupling pass looks obviously
\* necessary and is not").
DialogComplete ==
    \A p \in Portfolios :
       \A ts \in SUBSET movable_rows(p).trades, ds \in SUBSET movable_rows(p).dividends :
          LET moving == expand(p, ts, ds)
              carried == CoupledDividends(ts, ds)
          IN  /\ SourceStands(p, moving)
              /\ CoupledTrades(moving, carried) = moving
              /\ CoupledDividends(moving, carried) = carried

\* A step keeps what became of it: it leaves "done" only for "planned", and
\* only when the trade it recorded has gone to another portfolio.
StepKeepsHistory ==
    [][\A s \in DOMAIN steps :
         /\ s \in DOMAIN steps'
         /\ steps'[s].status # steps[s].status =>
               /\ steps[s].status = "done" /\ steps'[s].status = "planned"
               /\ steps[s].trade \in DOMAIN trades'
               /\ trades'[steps[s].trade].portfolio # steps[s].portfolio]_vars

=============================================================================
