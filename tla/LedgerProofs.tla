----------------------------- MODULE LedgerProofs -----------------------------
(***************************************************************************)
(* Proofs about Ledger, for any number of rows.  On SQLite and on          *)
(* Postgres: the types, that a reinvested distribution keeps its two       *)
(* halves, that a plan step names a trade its portfolio holds, that it     *)
(* keeps its history, and that what the move dialog ticks can be moved.    *)
(* On SQLite: that no timeline sells more than it holds.                   *)
(***************************************************************************)
EXTENDS Ledger, FiniteSetTheorems, WellFoundedInduction, TLAPS

-----------------------------------------------------------------------------
(***************************************************************************)
(* A write that keeps the tables sound, whatever it is: its rows have      *)
(* their types; a distribution it puts comes with its units, and one it    *)
(* leaves alone has its units left alone; a step it puts names a trade it  *)
(* puts, and one it leaves alone keeps its trade where it is; and a step   *)
(* is reopened only as its trade leaves the portfolio.                     *)
(***************************************************************************)
Typed(w) ==
    /\ DOMAIN w.trades \subseteq 1 .. MaxTrades
    /\ \A t \in DOMAIN w.trades : w.trades[t] \in TradeRow
    /\ DOMAIN w.dividends \subseteq 1 .. MaxDividends
    /\ \A d \in DOMAIN w.dividends : w.dividends[d] \in DividendRow
    /\ DOMAIN w.actions \subseteq 1 .. MaxActions
    /\ \A a \in DOMAIN w.actions : w.actions[a] \in ActionRow
    /\ DOMAIN w.steps \subseteq 1 .. MaxSteps
    /\ \A s \in DOMAIN w.steps : w.steps[s] \in StepRow

\* Distribution d, with its row r, and trade t, with its row x, are two halves.
Halves(r, x) == x.portfolio = r.portfolio /\ x.day = r.day /\ x.type = "drp"

LeftDividends(w) == DOMAIN dividends \ (w.goneDividends \cup DOMAIN w.dividends)

Paired(w) ==
    /\ \A d \in DOMAIN w.dividends : w.dividends[d].reinvest # None =>
          /\ w.dividends[d].reinvest \in DOMAIN w.trades
          /\ Halves(w.dividends[d], w.trades[w.dividends[d].reinvest])
          /\ \A e \in DOMAIN w.dividends :
                w.dividends[e].reinvest = w.dividends[d].reinvest => e = d
    /\ \A d \in LeftDividends(w) : dividends[d].reinvest # None =>
          /\ dividends[d].reinvest \notin w.goneTrades
          /\ dividends[d].reinvest \notin DOMAIN w.trades

Linked(w) ==
    /\ \A s \in DOMAIN w.steps : w.steps[s].trade # None =>
          /\ w.steps[s].status = "done"
          /\ w.steps[s].trade \in DOMAIN w.trades
          /\ w.trades[w.steps[s].trade].portfolio = w.steps[s].portfolio
    /\ \A s \in DOMAIN steps \ DOMAIN w.steps : steps[s].trade # None =>
          /\ steps[s].trade \notin w.goneTrades
          /\ steps[s].trade \in DOMAIN w.trades =>
                w.trades[steps[s].trade].portfolio = trades[steps[s].trade].portfolio

Remembers(w) ==
    \A s \in DOMAIN steps \cap DOMAIN w.steps : w.steps[s].status # steps[s].status =>
        /\ steps[s].status = "done" /\ w.steps[s].status = "planned"
        /\ steps[s].trade \in DOMAIN w.trades
        /\ w.trades[steps[s].trade].portfolio # steps[s].portfolio

Sound(w) == Typed(w) /\ Paired(w) /\ Linked(w) /\ Remembers(w)

\* What an API key's request writes: one new row, a trade or a distribution
\* taken in cash.
ApiWrite(w) ==
    /\ Typed(w)
    /\ w.goneTrades = {} /\ w.goneDividends = {} /\ w.goneActions = {}
    /\ DOMAIN w.actions = {} /\ DOMAIN w.steps = {}
    /\ \A d \in DOMAIN w.dividends : w.dividends[d].reinvest = None

\* Its ids are no saved row's.
New(w) == DOMAIN w.trades \cap DOMAIN trades = {} /\ DOMAIN w.dividends \cap DOMAIN dividends = {}

Apart(v, w) ==
    /\ DOMAIN v.trades \cap DOMAIN w.trades = {}
    /\ DOMAIN v.dividends \cap DOMAIN w.dividends = {}

\* Requests under way: the web's is sound, the keys' write new rows of their own.
PendingOK ==
    /\ pending[Web] # None => Sound(pending[Web])
    /\ \A c \in Credentials \ {Web} : pending[c] # None =>
          /\ ApiWrite(pending[c]) /\ New(pending[c])
          /\ \A e \in Credentials \ {c} : pending[e] # None => Apart(pending[c], pending[e])

\* The inductive invariant.
IInv == TypeOK /\ PairWhole /\ StepHonest /\ PendingOK

-----------------------------------------------------------------------------
(***************************************************************************)
(* Tables.                                                                 *)
(***************************************************************************)
\* What saving a write does to each table.
Written(w) ==
    /\ DOMAIN trades' = (DOMAIN trades \ w.goneTrades) \cup DOMAIN w.trades
    /\ \A t \in DOMAIN w.trades : trades'[t] = w.trades[t]
    /\ \A t \in DOMAIN trades \ (w.goneTrades \cup DOMAIN w.trades) : trades'[t] = trades[t]
    /\ DOMAIN dividends' = (DOMAIN dividends \ w.goneDividends) \cup DOMAIN w.dividends
    /\ \A d \in DOMAIN w.dividends : dividends'[d] = w.dividends[d]
    /\ \A d \in LeftDividends(w) : dividends'[d] = dividends[d]
    /\ DOMAIN actions' = (DOMAIN actions \ w.goneActions) \cup DOMAIN w.actions
    /\ \A a \in DOMAIN w.actions : actions'[a] = w.actions[a]
    /\ \A a \in DOMAIN actions \ (w.goneActions \cup DOMAIN w.actions) :
          actions'[a] = actions[a]
    /\ DOMAIN steps' = DOMAIN steps \cup DOMAIN w.steps
    /\ \A s \in DOMAIN w.steps : steps'[s] = w.steps[s]
    /\ \A s \in DOMAIN steps \ DOMAIN w.steps : steps'[s] = steps[s]

LEMMA SaveTables ==
    ASSUME NEW w, Save(w)
    PROVE  Written(w)
<1>1. /\ trades' = With(Without(trades, w.goneTrades), w.trades)
      /\ dividends' = With(Without(dividends, w.goneDividends), w.dividends)
      /\ actions' = With(Without(actions, w.goneActions), w.actions)
      /\ steps' = With(steps, w.steps)
  BY DEF Save
<1>2. /\ DOMAIN trades' = (DOMAIN trades \ w.goneTrades) \cup DOMAIN w.trades
      /\ \A t \in DOMAIN w.trades : trades'[t] = w.trades[t]
      /\ \A t \in DOMAIN trades \ (w.goneTrades \cup DOMAIN w.trades) : trades'[t] = trades[t]
  BY <1>1 DEF With, Without
<1>3. /\ DOMAIN dividends' = (DOMAIN dividends \ w.goneDividends) \cup DOMAIN w.dividends
      /\ \A d \in DOMAIN w.dividends : dividends'[d] = w.dividends[d]
      /\ \A d \in DOMAIN dividends \ (w.goneDividends \cup DOMAIN w.dividends) :
            dividends'[d] = dividends[d]
  BY <1>1 DEF With, Without
<1>4. /\ DOMAIN actions' = (DOMAIN actions \ w.goneActions) \cup DOMAIN w.actions
      /\ \A a \in DOMAIN w.actions : actions'[a] = w.actions[a]
      /\ \A a \in DOMAIN actions \ (w.goneActions \cup DOMAIN w.actions) :
            actions'[a] = actions[a]
  BY <1>1 DEF With, Without
<1>5. /\ DOMAIN steps' = DOMAIN steps \cup DOMAIN w.steps
      /\ \A s \in DOMAIN w.steps : steps'[s] = w.steps[s]
      /\ \A s \in DOMAIN steps \ DOMAIN w.steps : steps'[s] = steps[s]
  BY <1>1 DEF With
<1> QED  BY <1>2, <1>3, <1>4, <1>5 DEF LeftDividends, Written

-----------------------------------------------------------------------------
(***************************************************************************)
(* Saving a sound write.                                                   *)
(***************************************************************************)
LEMMA SaveTyped ==
    ASSUME TypeOK, NEW w, Typed(w), Written(w), DOMAIN pending' = Credentials
    PROVE  TypeOK'
<1>1. DOMAIN trades' \subseteq 1 .. MaxTrades /\ \A t \in DOMAIN trades' : trades'[t] \in TradeRow
  BY DEF Written, TypeOK, Typed
<1>2. /\ DOMAIN dividends' \subseteq 1 .. MaxDividends
      /\ \A d \in DOMAIN dividends' : dividends'[d] \in DividendRow
  BY DEF Written, TypeOK, Typed, LeftDividends
<1>3. /\ DOMAIN actions' \subseteq 1 .. MaxActions
      /\ \A a \in DOMAIN actions' : actions'[a] \in ActionRow
  BY DEF Written, TypeOK, Typed
<1>4. DOMAIN steps' \subseteq 1 .. MaxSteps /\ \A s \in DOMAIN steps' : steps'[s] \in StepRow
  BY DEF Written, TypeOK, Typed
<1> QED  BY <1>1, <1>2, <1>3, <1>4 DEF TypeOK

LEMMA SavePaired ==
    ASSUME PairWhole, NEW w, Paired(w), Written(w)
    PROVE  PairWhole'
<1> SUFFICES ASSUME NEW d \in DOMAIN dividends', dividends'[d].reinvest # None
             PROVE  /\ dividends'[d].reinvest \in DOMAIN trades'
                    /\ Halves(dividends'[d], trades'[dividends'[d].reinvest])
                    /\ \A e \in DOMAIN dividends' :
                          dividends'[e].reinvest = dividends'[d].reinvest => e = d
  BY DEF PairWhole, Halves
<1> DEFINE t == dividends'[d].reinvest
<1>1. CASE d \in DOMAIN w.dividends
  <2>1. t = w.dividends[d].reinvest /\ t \in DOMAIN w.trades /\ Halves(w.dividends[d], w.trades[t])
    BY <1>1 DEF Written, Paired
  <2>2. ASSUME NEW e \in DOMAIN dividends', dividends'[e].reinvest = t
        PROVE  e = d
    <3>1. CASE e \in DOMAIN w.dividends
      BY <1>1, <2>1, <2>2, <3>1 DEF Written, Paired
    <3>2. CASE e \notin DOMAIN w.dividends
      <4>1. e \in LeftDividends(w) /\ dividends'[e] = dividends[e]
        BY <3>2 DEF Written, LeftDividends
      <4>2. dividends[e].reinvest = t /\ t # None
        BY <2>2, <4>1
      <4>3. t \notin DOMAIN w.trades
        BY <4>1, <4>2 DEF Paired
      <4> QED  BY <2>1, <4>3
    <3> QED  BY <3>1, <3>2
  <2> QED  BY <1>1, <2>1, <2>2 DEF Written
<1>2. CASE d \notin DOMAIN w.dividends
  <2>1. d \in LeftDividends(w) /\ dividends'[d] = dividends[d]
    BY <1>2 DEF Written, LeftDividends
  <2>2. t \notin w.goneTrades /\ t \notin DOMAIN w.trades
    BY <2>1 DEF Paired
  <2>3. t \in DOMAIN trades /\ Halves(dividends[d], trades[t])
    BY <2>1 DEF PairWhole, LeftDividends, Halves
  <2>4. t \in DOMAIN trades' /\ trades'[t] = trades[t]
    BY <2>2, <2>3 DEF Written
  <2>5. ASSUME NEW e \in DOMAIN dividends', dividends'[e].reinvest = t
        PROVE  e = d
    <3>1. CASE e \in DOMAIN w.dividends
      BY <2>2, <2>5, <3>1 DEF Written, Paired
    <3>2. CASE e \notin DOMAIN w.dividends
      BY <2>1, <2>5, <3>2 DEF Written, PairWhole, LeftDividends
    <3> QED  BY <3>1, <3>2
  <2> QED  BY <2>1, <2>3, <2>4, <2>5
<1> QED  BY <1>1, <1>2

LEMMA SaveLinked ==
    ASSUME StepHonest, NEW w, Linked(w), Written(w)
    PROVE  StepHonest'
<1> SUFFICES ASSUME NEW s \in DOMAIN steps', steps'[s].trade # None
             PROVE  /\ steps'[s].status = "done"
                    /\ steps'[s].trade \in DOMAIN trades'
                    /\ trades'[steps'[s].trade].portfolio = steps'[s].portfolio
  BY DEF StepHonest
<1>1. CASE s \in DOMAIN w.steps
  BY <1>1 DEF Written, Linked
<1>2. CASE s \notin DOMAIN w.steps
  <2> DEFINE t == steps[s].trade
  <2>1. s \in DOMAIN steps /\ steps'[s] = steps[s]
    BY <1>2 DEF Written
  <2>2. steps[s].status = "done" /\ t \in DOMAIN trades /\ trades[t].portfolio = steps[s].portfolio
    BY <2>1 DEF StepHonest
  <2>3. /\ t \notin w.goneTrades
        /\ t \in DOMAIN w.trades => w.trades[t].portfolio = trades[t].portfolio
    BY <1>2, <2>1 DEF Linked
  <2>4. t \in DOMAIN trades' /\ trades'[t].portfolio = trades[t].portfolio
    <3>1. CASE t \in DOMAIN w.trades
      BY <2>3, <3>1 DEF Written
    <3>2. CASE t \notin DOMAIN w.trades
      BY <2>2, <2>3, <3>2 DEF Written
    <3> QED  BY <3>1, <3>2
  <2> QED  BY <2>1, <2>2, <2>4
<1> QED  BY <1>1, <1>2

\* StepKeepsHistory, as what one step does.
Keeps ==
    \A s \in DOMAIN steps :
        /\ s \in DOMAIN steps'
        /\ steps'[s].status # steps[s].status =>
              /\ steps[s].status = "done" /\ steps'[s].status = "planned"
              /\ steps[s].trade \in DOMAIN trades'
              /\ trades'[steps[s].trade].portfolio # steps[s].portfolio

LEMMA SaveKeeps ==
    ASSUME NEW w, Remembers(w), Written(w)
    PROVE  Keeps
<1> SUFFICES ASSUME NEW s \in DOMAIN steps
             PROVE  /\ s \in DOMAIN steps'
                    /\ steps'[s].status # steps[s].status =>
                          /\ steps[s].status = "done" /\ steps'[s].status = "planned"
                          /\ steps[s].trade \in DOMAIN trades'
                          /\ trades'[steps[s].trade].portfolio # steps[s].portfolio
  BY DEF Keeps
<1>1. CASE s \in DOMAIN w.steps
  BY <1>1 DEF Written, Remembers
<1>2. CASE s \notin DOMAIN w.steps
  BY <1>2 DEF Written
<1> QED  BY <1>1, <1>2

-----------------------------------------------------------------------------
(***************************************************************************)
(* New rows have ids of their own.                                         *)
(***************************************************************************)
LEMMA NextIdIsNew ==
    ASSUME NEW limit \in Nat, NEW table, NEW name, DOMAIN table \subseteq 1 .. limit,
           \A c \in Credentials : pending[c] # None => DOMAIN pending[c][name] \subseteq 1 .. limit
    PROVE  /\ NextId(limit, table, name) \in 1 .. limit + 1
           /\ \A id \in DOMAIN table : id < NextId(limit, table, name)
           /\ \A c \in Credentials : pending[c] # None =>
                 \A id \in DOMAIN pending[c][name] : id < NextId(limit, table, name)
<1> DEFINE used == DOMAIN table
                   \cup UNION {DOMAIN pending[c][name] : c \in {x \in Credentials : pending[x] # None}}
           Above(n) == \A id \in used : id < n
<1>1. used \subseteq 1 .. limit
  OBVIOUS
<1>2. limit + 1 \in 1 .. limit + 1 /\ Above(limit + 1)
  BY <1>1
<1>3. NextId(limit, table, name) = CHOOSE n \in 1 .. limit + 1 : Above(n)
  BY DEF NextId
<1> HIDE DEF Above
<1>4. NextId(limit, table, name) \in 1 .. limit + 1 /\ Above(NextId(limit, table, name))
  BY <1>2, <1>3
<1> QED  BY <1>4 DEF Above

\* Every request under way writes rows of the right types.
LEMMA PendingTyped ==
    ASSUME PendingOK, NEW c \in Credentials, pending[c] # None
    PROVE  Typed(pending[c])
BY DEF PendingOK, ApiWrite, Sound

LEMMA NewIds ==
    ASSUME TypeOK, PendingOK
    PROVE  /\ NewTrade \in Nat \ {0} /\ \A t \in DOMAIN trades : t < NewTrade
           /\ NewDividend \in Nat \ {0} /\ \A d \in DOMAIN dividends : d < NewDividend
           /\ NewAction \in Nat \ {0} /\ \A a \in DOMAIN actions : a < NewAction
           /\ NewStep \in Nat \ {0} /\ \A s \in DOMAIN steps : s < NewStep
           /\ \A c \in Credentials : pending[c] # None =>
                 /\ \A t \in DOMAIN pending[c].trades : t < NewTrade
                 /\ \A d \in DOMAIN pending[c].dividends : d < NewDividend
<1>1. /\ NewTrade \in Nat \ {0} /\ \A t \in DOMAIN trades : t < NewTrade
      /\ \A c \in Credentials : pending[c] # None =>
            \A t \in DOMAIN pending[c]["trades"] : t < NewTrade
  <2>1. /\ MaxTrades \in Nat /\ DOMAIN trades \subseteq 1 .. MaxTrades
        /\ \A c \in Credentials : pending[c] # None =>
              DOMAIN pending[c]["trades"] \subseteq 1 .. MaxTrades
    BY LedgerAssumption, PendingTyped DEF TypeOK, Typed
  <2> QED  BY <2>1, NextIdIsNew DEF NewTrade
<1>2. /\ NewDividend \in Nat \ {0} /\ \A d \in DOMAIN dividends : d < NewDividend
      /\ \A c \in Credentials : pending[c] # None =>
            \A d \in DOMAIN pending[c]["dividends"] : d < NewDividend
  <2>1. /\ MaxDividends \in Nat /\ DOMAIN dividends \subseteq 1 .. MaxDividends
        /\ \A c \in Credentials : pending[c] # None =>
              DOMAIN pending[c]["dividends"] \subseteq 1 .. MaxDividends
    BY LedgerAssumption, PendingTyped DEF TypeOK, Typed
  <2> QED  BY <2>1, NextIdIsNew DEF NewDividend
<1>3. NewAction \in Nat \ {0} /\ \A a \in DOMAIN actions : a < NewAction
  <2>1. /\ MaxActions \in Nat /\ DOMAIN actions \subseteq 1 .. MaxActions
        /\ \A c \in Credentials : pending[c] # None =>
              DOMAIN pending[c]["actions"] \subseteq 1 .. MaxActions
    BY LedgerAssumption, PendingTyped DEF TypeOK, Typed
  <2> QED  BY <2>1, NextIdIsNew DEF NewAction
<1>4. NewStep \in Nat \ {0} /\ \A s \in DOMAIN steps : s < NewStep
  <2>1. /\ MaxSteps \in Nat /\ DOMAIN steps \subseteq 1 .. MaxSteps
        /\ \A c \in Credentials : pending[c] # None =>
              DOMAIN pending[c]["steps"] \subseteq 1 .. MaxSteps
    BY LedgerAssumption, PendingTyped DEF TypeOK, Typed
  <2> QED  BY <2>1, NextIdIsNew DEF NewStep
<1> QED  BY <1>1, <1>2, <1>3, <1>4

\* The rows a write puts: ones of the tables, or new ones.
OursOrNew(w) ==
    /\ \A t \in DOMAIN w.trades : t \in DOMAIN trades \/ (t \in Nat /\ NewTrade <= t)
    /\ \A d \in DOMAIN w.dividends : d \in DOMAIN dividends \/ (d \in Nat /\ NewDividend <= d)

\* No key's request under way writes them.
LEMMA WebApart ==
    ASSUME TypeOK, PendingOK, NEW w, OursOrNew(w),
           NEW c \in Credentials \ {Web}, pending[c] # None
    PROVE  Apart(pending[c], w)
<1>1. /\ DOMAIN pending[c].trades \subseteq Nat /\ DOMAIN pending[c].dividends \subseteq Nat
  BY PendingTyped, LedgerAssumption DEF Typed
<1>2. New(pending[c])
  BY DEF PendingOK
<1>3. /\ NewTrade \in Nat /\ NewDividend \in Nat
      /\ \A t \in DOMAIN pending[c].trades : t < NewTrade
      /\ \A d \in DOMAIN pending[c].dividends : d < NewDividend
  BY NewIds
<1> QED  BY <1>1, <1>2, <1>3 DEF Apart, New, OursOrNew

\* New rows are new to the tables, and to every request under way.
AllNew(w) ==
    /\ \A t \in DOMAIN w.trades : t \in Nat /\ NewTrade <= t
    /\ \A d \in DOMAIN w.dividends : d \in Nat /\ NewDividend <= d

LEMMA NewApart ==
    ASSUME TypeOK, PendingOK, NEW w, AllNew(w)
    PROVE  /\ New(w) /\ OursOrNew(w)
           /\ \A c \in Credentials : pending[c] # None => Apart(pending[c], w) /\ Apart(w, pending[c])
<1>1. /\ DOMAIN trades \subseteq Nat /\ DOMAIN dividends \subseteq Nat
      /\ \A c \in Credentials : pending[c] # None =>
            DOMAIN pending[c].trades \subseteq Nat /\ DOMAIN pending[c].dividends \subseteq Nat
  BY PendingTyped, LedgerAssumption DEF Typed, TypeOK
<1>2. /\ NewTrade \in Nat /\ NewDividend \in Nat
      /\ \A t \in DOMAIN trades : t < NewTrade
      /\ \A d \in DOMAIN dividends : d < NewDividend
      /\ \A c \in Credentials : pending[c] # None =>
           /\ \A t \in DOMAIN pending[c].trades : t < NewTrade
           /\ \A d \in DOMAIN pending[c].dividends : d < NewDividend
  BY NewIds
<1> QED  BY <1>1, <1>2 DEF Apart, New, OursOrNew, AllNew

-----------------------------------------------------------------------------
(***************************************************************************)
(* A request that decides, and one that commits.                           *)
(***************************************************************************)
\* New rows, of no pair and no step, leave every pair and every step alone.
LEMMA NewRowsSound ==
    ASSUME PairWhole, StepHonest, NEW w, ApiWrite(w), New(w)
    PROVE  Sound(w)
<1>1. Paired(w)
  <2>1. ASSUME NEW d \in LeftDividends(w), dividends[d].reinvest # None
        PROVE  /\ dividends[d].reinvest \notin w.goneTrades
               /\ dividends[d].reinvest \notin DOMAIN w.trades
    <3>1. dividends[d].reinvest \in DOMAIN trades
      BY <2>1 DEF LeftDividends, PairWhole
    <3> QED  BY <3>1 DEF ApiWrite, New
  <2> QED  BY <2>1 DEF ApiWrite, Paired
<1>2. Linked(w)
  <2>1. ASSUME NEW s \in DOMAIN steps, steps[s].trade # None
        PROVE  /\ steps[s].trade \notin w.goneTrades
               /\ steps[s].trade \notin DOMAIN w.trades
    <3>1. steps[s].trade \in DOMAIN trades
      BY <2>1 DEF StepHonest
    <3> QED  BY <3>1 DEF ApiWrite, New
  <2> QED  BY <2>1 DEF ApiWrite, Linked
<1>3. Remembers(w) /\ Typed(w)
  BY DEF ApiWrite, Remembers
<1> QED  BY <1>1, <1>2, <1>3 DEF Sound

\* Saving a sound write keeps the tables right.
LEMMA SaveSound ==
    ASSUME TypeOK, PairWhole, StepHonest, NEW w, Sound(w), Save(w),
           DOMAIN pending' = Credentials
    PROVE  TypeOK' /\ PairWhole' /\ StepHonest' /\ Keeps
<1>1. Written(w) /\ Typed(w) /\ Paired(w) /\ Linked(w) /\ Remembers(w)
  BY SaveTables DEF Sound
<1>2. TypeOK'
  BY <1>1, SaveTyped
<1>3. PairWhole'
  BY <1>1, SavePaired
<1>4. StepHonest' /\ Keeps
  BY <1>1, SaveLinked, SaveKeeps
<1> QED  BY <1>2, <1>3, <1>4

\* What is said of a request under way depends on the tables alone.
LEMMA SameTables ==
    ASSUME UNCHANGED tables, TypeOK, PairWhole, StepHonest, DOMAIN pending' = Credentials
    PROVE  /\ TypeOK' /\ PairWhole' /\ StepHonest' /\ Keeps
<1>1. trades' = trades /\ dividends' = dividends /\ actions' = actions /\ steps' = steps
  BY DEF tables
<1>2. TypeOK' /\ PairWhole' /\ StepHonest'
  BY <1>1 DEF TypeOK, PairWhole, StepHonest
<1>3. Keeps
  BY <1>1 DEF Keeps
<1> QED  BY <1>2, <1>3

LEMMA Waiting ==
    ASSUME UNCHANGED tables, NEW c, NEW w, pending'[c] = w
    PROVE  /\ Sound(w) => Sound(pending[c])'
           /\ ApiWrite(w) => ApiWrite(pending[c])'
           /\ New(w) => New(pending[c])'
<1>1. trades' = trades /\ dividends' = dividends /\ actions' = actions /\ steps' = steps
  BY DEF tables
<1>2. Typed(w) => Typed(pending[c])'
  BY DEF Typed
<1>3. Paired(w) => Paired(pending[c])'
  BY <1>1 DEF Paired, LeftDividends, Halves
<1>4. Linked(w) => Linked(pending[c])'
  BY <1>1 DEF Linked
<1>5. Remembers(w) => Remembers(pending[c])'
  BY <1>1 DEF Remembers
<1>6. New(w) => New(pending[c])'
  BY <1>1 DEF New
<1> QED  BY <1>2, <1>3, <1>4, <1>5, <1>6 DEF Sound, ApiWrite

LEMMA WebAnswer ==
    ASSUME IInv, NEW w, Answer(Web, w), Sound(w), OursOrNew(w)
    PROVE  IInv' /\ Keeps
<1>0. Web \in Credentials
  BY LedgerAssumption
<1>1. pending' = [pending EXCEPT ![Web] = w] /\ UNCHANGED tables
  BY DEF Answer
<1>2. /\ DOMAIN pending' = Credentials /\ pending'[Web] = w
      /\ \A c \in Credentials \ {Web} : pending'[c] = pending[c]
  BY <1>0, <1>1 DEF IInv, TypeOK
<1>3. TypeOK' /\ PairWhole' /\ StepHonest' /\ Keeps
  BY <1>1, <1>2, SameTables DEF IInv
<1>4. Sound(pending[Web])'
  BY <1>1, <1>2, Waiting
<1>5. ASSUME NEW c \in Credentials \ {Web}, pending'[c] # None
      PROVE  /\ ApiWrite(pending[c])' /\ New(pending[c])'
             /\ \A e \in Credentials \ {c} : pending'[e] # None => Apart(pending[c], pending[e])'
  <2>1. pending'[c] = pending[c] /\ pending[c] # None
    BY <1>2, <1>5
  <2>2. Apart(pending[c], w)
    BY <2>1, WebApart DEF IInv
  <2>3. /\ ApiWrite(pending[c]) /\ New(pending[c])
        /\ \A e \in Credentials \ {c} : pending[e] # None => Apart(pending[c], pending[e])
    BY <2>1 DEF IInv, PendingOK
  <2>4. ApiWrite(pending[c])' /\ New(pending[c])'
    BY <1>1, <2>1, <2>3, Waiting
  <2>5. ASSUME NEW e \in Credentials \ {c}, pending'[e] # None
        PROVE  Apart(pending[c], pending[e])'
    <3>1. CASE e = Web
      BY <1>2, <2>1, <2>2, <3>1 DEF Apart
    <3>2. CASE e # Web
      BY <1>2, <2>1, <2>3, <2>5, <3>2 DEF Apart
    <3> QED  BY <3>1, <3>2
  <2> QED  BY <2>4, <2>5
<1>6. PendingOK'
  BY <1>4, <1>5 DEF PendingOK
<1> QED  BY <1>3, <1>6 DEF IInv

LEMMA ApiAnswer ==
    ASSUME IInv, NEW c \in Credentials \ {Web}, NEW w, Answer(c, w),
           ApiWrite(w), AllNew(w)
    PROVE  IInv' /\ Keeps
<1>0. /\ Web \in Credentials
      /\ New(w)
      /\ \A e \in Credentials : pending[e] # None => Apart(pending[e], w) /\ Apart(w, pending[e])
  BY LedgerAssumption, NewApart DEF IInv
<1>1. pending' = [pending EXCEPT ![c] = w] /\ UNCHANGED tables
  BY DEF Answer
<1>2. /\ DOMAIN pending' = Credentials /\ pending'[c] = w
      /\ \A e \in Credentials \ {c} : pending'[e] = pending[e]
  BY <1>1 DEF IInv, TypeOK
<1>3. TypeOK' /\ PairWhole' /\ StepHonest' /\ Keeps
  BY <1>1, <1>2, SameTables DEF IInv
<1>4. pending'[Web] # None => Sound(pending[Web])'
  BY <1>0, <1>1, <1>2, Waiting DEF IInv, PendingOK
<1>5. ASSUME NEW e \in Credentials \ {Web}, pending'[e] # None
      PROVE  /\ ApiWrite(pending[e])' /\ New(pending[e])'
             /\ \A f \in Credentials \ {e} : pending'[f] # None => Apart(pending[e], pending[f])'
  <2>1. CASE e = c
    <3>1. ApiWrite(pending[e])' /\ New(pending[e])'
      BY <1>0, <1>1, <1>2, <2>1, Waiting
    <3>2. \A f \in Credentials \ {e} : pending'[f] # None => Apart(pending[e], pending[f])'
      BY <1>0, <1>2, <2>1 DEF Apart
    <3> QED  BY <3>1, <3>2
  <2>2. CASE e # c
    <3>1. /\ pending'[e] = pending[e]
          /\ ApiWrite(pending[e]) /\ New(pending[e])
          /\ \A f \in Credentials \ {e} : pending[f] # None => Apart(pending[e], pending[f])
      BY <1>2, <1>5, <2>2 DEF IInv, PendingOK
    <3>2. ApiWrite(pending[e])' /\ New(pending[e])'
      BY <1>1, <3>1, Waiting
    <3>3. Apart(pending[e], w)
      BY <1>0, <1>2, <1>5, <2>2
    <3>4. \A f \in Credentials \ {e} : pending'[f] # None => Apart(pending[e], pending[f])'
      BY <1>2, <3>1, <3>3 DEF Apart
    <3> QED  BY <3>2, <3>4
  <2> QED  BY <2>1, <2>2
<1>6. PendingOK'
  BY <1>4, <1>5 DEF PendingOK
<1> QED  BY <1>3, <1>6 DEF IInv

\* A key's request commits its new rows: the web's stays sound.
LEMMA StillSound ==
    ASSUME PairWhole, StepHonest, NEW v, ApiWrite(v), New(v), Written(v),
           Sound(pending[Web]), pending'[Web] = pending[Web]
    PROVE  Sound(pending[Web])'
<1>1. /\ DOMAIN trades' = DOMAIN trades \cup DOMAIN v.trades
      /\ DOMAIN dividends' = DOMAIN dividends \cup DOMAIN v.dividends
      /\ \A t \in DOMAIN trades : trades'[t] = trades[t]
      /\ \A d \in DOMAIN dividends : dividends'[d] = dividends[d]
      /\ \A d \in DOMAIN v.dividends : dividends'[d].reinvest = None
      /\ DOMAIN steps' = DOMAIN steps
      /\ \A s \in DOMAIN steps : steps'[s] = steps[s]
  BY DEF Written, ApiWrite, New, LeftDividends
<1>2. Typed(pending[Web])'
  BY DEF Sound, Typed
<1>3. Paired(pending[Web])'
  <2>1. \A d \in LeftDividends(pending[Web])' : dividends'[d].reinvest # None =>
           d \in LeftDividends(pending[Web]) /\ dividends'[d] = dividends[d]
    BY <1>1 DEF LeftDividends
  <2>2. Paired(pending[Web])
    BY DEF Sound
  <2> QED  BY <2>1, <2>2 DEF Paired, Halves
<1>4. Linked(pending[Web])'
  <2>1. \A s \in DOMAIN steps : steps[s].trade # None =>
           steps[s].trade \in DOMAIN trades /\ trades'[steps[s].trade] = trades[steps[s].trade]
    BY <1>1 DEF StepHonest
  <2> DEFINE w == pending[Web]
  <2>2. Linked(w) /\ w' = w
    BY DEF Sound
  <2>3. DOMAIN steps' = DOMAIN steps /\ \A s \in DOMAIN steps : steps'[s] = steps[s]
    BY <1>1
  <2> HIDE DEF w
  <2>4. \A s \in DOMAIN w.steps : w.steps[s].trade # None =>
           /\ w.steps[s].status = "done"
           /\ w.steps[s].trade \in DOMAIN w.trades
           /\ w.trades[w.steps[s].trade].portfolio = w.steps[s].portfolio
    BY <2>2 DEF Linked
  <2>5. ASSUME NEW s \in DOMAIN steps' \ DOMAIN w.steps, steps'[s].trade # None
        PROVE  /\ steps'[s].trade \notin w.goneTrades
               /\ steps'[s].trade \in DOMAIN w.trades =>
                    w.trades[steps'[s].trade].portfolio = trades'[steps'[s].trade].portfolio
    <3>1. s \in DOMAIN steps \ DOMAIN w.steps /\ steps'[s] = steps[s] /\ steps[s].trade # None
      BY <2>3, <2>5
    <3>2. trades'[steps[s].trade] = trades[steps[s].trade]
      BY <2>1, <3>1
    <3>3. /\ steps[s].trade \notin w.goneTrades
          /\ steps[s].trade \in DOMAIN w.trades =>
                w.trades[steps[s].trade].portfolio = trades[steps[s].trade].portfolio
      BY <2>2, <3>1 DEF Linked
    <3> QED  BY <3>1, <3>2, <3>3
  <2>6. Linked(w)'
    BY <2>2, <2>4, <2>5, Zenon DEF Linked
  <2> QED  BY <2>6 DEF w
<1>5. Remembers(pending[Web])'
  BY <1>1 DEF Sound, Remembers
<1> QED  BY <1>2, <1>3, <1>4, <1>5 DEF Sound

LEMMA CommitKeeps ==
    ASSUME IInv, NEW c \in Credentials, Commit(c)
    PROVE  IInv' /\ Keeps
<1> DEFINE v == pending[c]
<1>1. /\ v # None /\ Save(v) /\ Written(v)
      /\ DOMAIN pending' = Credentials /\ pending'[c] = None
      /\ \A e \in Credentials \ {c} : pending'[e] = pending[e]
      /\ Web \in Credentials
  BY SaveTables, LedgerAssumption DEF Commit, IInv, TypeOK, PendingOK
<1>2. Sound(v)
  <2>1. CASE c = Web
    BY <1>1, <2>1 DEF IInv, PendingOK
  <2>2. CASE c # Web
    BY <1>1, <2>2, NewRowsSound DEF IInv, PendingOK
  <2> QED  BY <2>1, <2>2
<1>3. TypeOK' /\ PairWhole' /\ StepHonest' /\ Keeps
  BY <1>1, <1>2, SaveSound DEF IInv
<1>4. pending'[Web] # None => Sound(pending[Web])'
  <2> SUFFICES ASSUME pending'[Web] # None PROVE Sound(pending[Web])'
    OBVIOUS
  <2>1. c # Web /\ pending'[Web] = pending[Web]
    BY <1>1
  <2>2. Sound(pending[Web]) /\ ApiWrite(v) /\ New(v)
    BY <1>1, <2>1 DEF IInv, PendingOK
  <2> QED  BY <1>1, <2>1, <2>2, StillSound DEF IInv
<1>5. ASSUME NEW e \in Credentials \ {Web}, pending'[e] # None
      PROVE  /\ ApiWrite(pending[e])' /\ New(pending[e])'
             /\ \A f \in Credentials \ {e} : pending'[f] # None => Apart(pending[e], pending[f])'
  <2>1. e # c /\ pending'[e] = pending[e] /\ pending[e] # None
    BY <1>1, <1>5
  <2>2. /\ ApiWrite(pending[e]) /\ New(pending[e])
        /\ \A f \in Credentials \ {e} : pending[f] # None => Apart(pending[e], pending[f])
    BY <2>1 DEF IInv, PendingOK
  <2>3. Apart(pending[e], v)
    BY <1>1, <2>1, <2>2
  <2>4. ApiWrite(pending[e])'
    BY <2>1, <2>2 DEF ApiWrite, Typed
  <2>5. New(pending[e])'
    BY <1>1, <2>1, <2>2, <2>3 DEF New, Apart, Written
  <2>6. \A f \in Credentials \ {e} : pending'[f] # None => Apart(pending[e], pending[f])'
    BY <1>1, <2>1, <2>2 DEF Apart
  <2> QED  BY <2>4, <2>5, <2>6
<1>6. PendingOK'
  BY <1>1, <1>4, <1>5 DEF PendingOK
<1> QED  BY <1>3, <1>6 DEF IInv

-----------------------------------------------------------------------------
(***************************************************************************)
(* What each handler writes is sound.                                      *)
(***************************************************************************)
\* New trades, and distributions in cash.
LEMMA WebNewRows ==
    ASSUME IInv, NEW w, Answer(Web, w), ApiWrite(w), AllNew(w)
    PROVE  IInv' /\ Keeps
<1>1. New(w) /\ OursOrNew(w)
  BY NewApart DEF IInv
<1> QED  BY <1>1, NewRowsSound, WebAnswer DEF IInv

LEMMA AnyNewRows ==
    ASSUME IInv, NEW c \in Credentials, NEW w, Answer(c, w), ApiWrite(w), AllNew(w)
    PROVE  IInv' /\ Keeps
<1>1. CASE c = Web
  BY <1>1, WebNewRows
<1>2. CASE c # Web
  BY <1>2, ApiAnswer
<1> QED  BY <1>1, <1>2

LEMMA AddTradeKeeps ==
    ASSUME IInv, NEW c \in Credentials, NEW p \in Portfolios, NEW day \in Days,
           NEW type \in {"buy", "sell", "drp"}, NEW quantity \in Quantities,
           AddTrade(c, p, day, type, quantity)
    PROVE  IInv' /\ Keeps
<1> DEFINE row == Trade(p, day, type, quantity)
           w == [Nothing EXCEPT !.trades = One(NewTrade, row)]
<1>1. Answer(c, w) /\ NewTrade <= MaxTrades
  BY DEF AddTrade
<1>2. row \in TradeRow
  BY DEF Trade, TradeRow
<1>3. NewTrade \in Nat \ {0} /\ MaxTrades \in Nat
  BY NewIds, LedgerAssumption DEF IInv
<1>4. /\ DOMAIN w.trades = {NewTrade} /\ w.trades[NewTrade] = row
      /\ DOMAIN w.dividends = {} /\ DOMAIN w.actions = {} /\ DOMAIN w.steps = {}
      /\ w.goneTrades = {} /\ w.goneDividends = {} /\ w.goneActions = {}
  BY DEF Nothing, One, Empty
<1> HIDE DEF w, row
<1>5. ApiWrite(w) /\ AllNew(w)
  BY <1>1, <1>2, <1>3, <1>4 DEF ApiWrite, Typed, AllNew
<1> QED  BY <1>1, <1>5, AnyNewRows

LEMMA CsvCommitKeeps ==
    ASSUME IInv, NEW p, NEW first \in TradeRow, NEW second \in TradeRow,
           CsvCommit(p, first, second)
    PROVE  IInv' /\ Keeps
<1> DEFINE put == With(One(NewTrade, first), One(NewTrade + 1, second))
           w == [Nothing EXCEPT !.trades = put]
<1>1. Answer(Web, w) /\ NewTrade + 1 <= MaxTrades
  BY DEF CsvCommit
<1>2. NewTrade \in Nat \ {0} /\ MaxTrades \in Nat
  BY NewIds, LedgerAssumption DEF IInv
<1>3. /\ w.trades = put
      /\ DOMAIN w.dividends = {} /\ DOMAIN w.actions = {} /\ DOMAIN w.steps = {}
      /\ w.goneTrades = {} /\ w.goneDividends = {} /\ w.goneActions = {}
  BY DEF Nothing, Empty
<1>4. DOMAIN put = {NewTrade, NewTrade + 1} /\ \A t \in DOMAIN put : put[t] \in TradeRow
  BY DEF With, One
<1> HIDE DEF w, put
<1>5. ApiWrite(w) /\ AllNew(w)
  BY <1>1, <1>2, <1>3, <1>4 DEF ApiWrite, Typed, AllNew
<1> QED  BY <1>1, <1>5, WebNewRows

LEMMA CashDividendKeeps ==
    ASSUME IInv, NEW c \in Credentials, NEW p \in Portfolios, NEW day \in Days,
           NewDividend <= MaxDividends,
           Answer(c, [Nothing EXCEPT !.dividends = One(NewDividend, Dividend(p, day, None))])
    PROVE  IInv' /\ Keeps
<1> DEFINE row == Dividend(p, day, None)
           w == [Nothing EXCEPT !.dividends = One(NewDividend, row)]
<1>1. row \in DividendRow /\ row.reinvest = None
  BY DEF Dividend, DividendRow
<1>2. NewDividend \in Nat \ {0} /\ MaxDividends \in Nat
  BY NewIds, LedgerAssumption DEF IInv
<1>3. /\ DOMAIN w.dividends = {NewDividend} /\ w.dividends[NewDividend] = row
      /\ DOMAIN w.trades = {} /\ DOMAIN w.actions = {} /\ DOMAIN w.steps = {}
      /\ w.goneTrades = {} /\ w.goneDividends = {} /\ w.goneActions = {}
  BY DEF Nothing, One, Empty
<1>4. Answer(c, w)
  OBVIOUS
<1> HIDE DEF w, row
<1>5. ApiWrite(w) /\ AllNew(w)
  BY <1>1, <1>2, <1>3 DEF ApiWrite, Typed, AllNew
<1> QED  BY <1>4, <1>5, AnyNewRows

\* The distribution comes with its units.
LEMMA ReinvestedKeeps ==
    ASSUME IInv, NEW p \in Portfolios, NEW day \in Days, NEW quantity \in Quantities,
           NewDividend <= MaxDividends, NewTrade <= MaxTrades,
           Answer(Web, [Nothing EXCEPT
                 !.trades = One(NewTrade, Trade(p, day, "drp", quantity)),
                 !.dividends = One(NewDividend, Dividend(p, day, NewTrade))])
    PROVE  IInv' /\ Keeps
<1> DEFINE t == NewTrade
           x == Trade(p, day, "drp", quantity)
           row == Dividend(p, day, t)
           w == [Nothing EXCEPT !.trades = One(t, x), !.dividends = One(NewDividend, row)]
<1>1. /\ NewDividend \in Nat \ {0} /\ t \in Nat \ {0} /\ MaxDividends \in Nat /\ MaxTrades \in Nat
      /\ \A u \in DOMAIN trades : u < t
  BY NewIds, LedgerAssumption DEF IInv
<1>2. x \in TradeRow /\ row \in DividendRow /\ row.reinvest = t /\ Halves(row, x)
  BY <1>1 DEF Trade, TradeRow, Dividend, DividendRow, Halves
<1>3. /\ w.trades = One(t, x) /\ w.dividends = One(NewDividend, row)
      /\ w.actions = Empty /\ w.steps = Empty
      /\ w.goneTrades = {} /\ w.goneDividends = {} /\ w.goneActions = {}
  BY DEF Nothing
<1>4. /\ DOMAIN w.trades = {t} /\ w.trades[t] = x
      /\ DOMAIN w.dividends = {NewDividend} /\ w.dividends[NewDividend] = row
      /\ DOMAIN w.actions = {} /\ DOMAIN w.steps = {}
  BY <1>3 DEF One, Empty
<1>5. Answer(Web, w)
  OBVIOUS
<1>6. t \notin DOMAIN trades
  BY <1>1
<1> HIDE DEF w, x, row, t
<1>7. Typed(w) /\ OursOrNew(w)
  BY <1>1, <1>2, <1>4 DEF Typed, OursOrNew, t
<1>8. Paired(w)
  BY <1>2, <1>3, <1>4, <1>6 DEF Paired, IInv, PairWhole, LeftDividends
<1>9. Linked(w) /\ Remembers(w)
  BY <1>3, <1>4, <1>6 DEF Linked, Remembers, IInv, StepHonest
<1> QED  BY <1>5, <1>7, <1>8, <1>9, WebAnswer DEF Sound

\* A step that names a trade of another portfolio is none of p's.
LEMMA ReleasedRows ==
    ASSUME TypeOK, StepHonest, NEW p, NEW gone \in SUBSET DOMAIN trades,
           \A t \in gone : trades[t].portfolio = p
    PROVE  /\ Recorded(p, gone) \subseteq DOMAIN steps
           /\ \A s \in Recorded(p, gone) : steps[s].status = "done"
           /\ \A s \in DOMAIN steps \ Recorded(p, gone) :
                 steps[s].trade # None => steps[s].trade \notin gone
<1>1. None \notin gone
  BY LedgerAssumption DEF TypeOK
<1> QED  BY <1>1 DEF Recorded, StepHonest

\* Steps released as trades are deleted.
LEMMA ReleaseLinks ==
    ASSUME TypeOK, StepHonest, NEW p, NEW gone \in SUBSET DOMAIN trades,
           \A t \in gone : trades[t].portfolio = p,
           NEW w, w.goneTrades = gone, DOMAIN w.trades = {}, w.steps = Released(p, gone)
    PROVE  /\ Linked(w) /\ Remembers(w)
           /\ DOMAIN w.steps \subseteq DOMAIN steps
           /\ \A s \in DOMAIN w.steps : w.steps[s] \in StepRow
<1>1. DOMAIN w.steps = Recorded(p, gone)
  BY DEF Released
<1>2. DOMAIN w.steps \subseteq DOMAIN steps
  BY <1>1, ReleasedRows
<1>3. ASSUME NEW s \in DOMAIN w.steps
      PROVE  w.steps[s] \in StepRow /\ w.steps[s].trade = None /\ w.steps[s].status = steps[s].status
  <2>1. w.steps[s] = [steps[s] EXCEPT !.trade = None] /\ steps[s] \in StepRow
    BY <1>1, <1>2 DEF Released, TypeOK
  <2> QED  BY <2>1 DEF StepRow
<1>4. Linked(w)
  BY <1>1, <1>3, ReleasedRows DEF Linked
<1>5. Remembers(w)
  BY <1>3 DEF Remembers
<1> QED  BY <1>2, <1>3, <1>4, <1>5

LEMMA TradeEditKeeps ==
    ASSUME IInv, NEW t \in DOMAIN trades, NEW day \in Days, NEW type \in {"buy", "sell"},
           NEW quantity \in Quantities, TradeEdit(t, day, type, quantity)
    PROVE  IInv' /\ Keeps
<1> DEFINE p == trades[t].portfolio
           row == Trade(p, day, type, quantity)
           w == [Nothing EXCEPT !.trades = One(t, row)]
<1>1. Answer(Web, w) /\ \A d \in DOMAIN dividends : dividends[d].reinvest # t
  BY DEF TradeEdit, Owners
<1>2. p \in Portfolios /\ t \in 1 .. MaxTrades
  BY DEF IInv, TypeOK, TradeRow
<1>3. row \in TradeRow /\ row.portfolio = p
  BY <1>2 DEF Trade, TradeRow
<1>4. /\ DOMAIN w.trades = {t} /\ w.trades[t] = row
      /\ DOMAIN w.dividends = {} /\ DOMAIN w.actions = {} /\ DOMAIN w.steps = {}
      /\ w.goneTrades = {} /\ w.goneDividends = {} /\ w.goneActions = {}
  BY DEF Nothing, One, Empty
<1> HIDE DEF w, row
<1>5. Typed(w) /\ OursOrNew(w)
  BY <1>2, <1>3, <1>4 DEF Typed, OursOrNew
<1>6. Paired(w)
  BY <1>1, <1>4 DEF Paired, LeftDividends
<1>7. Linked(w) /\ Remembers(w)
  BY <1>3, <1>4 DEF Linked, Remembers
<1> QED  BY <1>1, <1>5, <1>6, <1>7, WebAnswer DEF Sound

LEMMA TradeDeleteKeeps ==
    ASSUME IInv, NEW t \in DOMAIN trades, TradeDelete(t)
    PROVE  IInv' /\ Keeps
<1> DEFINE p == trades[t].portfolio
           w == [Nothing EXCEPT !.goneTrades = {t}, !.steps = Released(p, {t})]
<1>1. Answer(Web, w) /\ \A d \in DOMAIN dividends : dividends[d].reinvest # t
  BY DEF TradeDelete, Owners
<1>2. /\ w.steps = Released(p, {t}) /\ w.goneTrades = {t}
      /\ DOMAIN w.trades = {} /\ DOMAIN w.dividends = {} /\ DOMAIN w.actions = {}
      /\ w.goneDividends = {} /\ w.goneActions = {}
  BY DEF Nothing, Empty
<1> HIDE DEF w
<1>3. /\ Linked(w) /\ Remembers(w) /\ DOMAIN w.steps \subseteq DOMAIN steps
      /\ \A s \in DOMAIN w.steps : w.steps[s] \in StepRow
  <2>1. {t} \in SUBSET DOMAIN trades /\ \A u \in {t} : trades[u].portfolio = p
    OBVIOUS
  <2> QED  BY <1>2, <2>1, ReleaseLinks DEF IInv
<1>4. Typed(w) /\ OursOrNew(w)
  BY <1>2, <1>3 DEF Typed, OursOrNew, IInv, TypeOK
<1>5. Paired(w)
  BY <1>1, <1>2 DEF Paired, LeftDividends
<1> QED  BY <1>1, <1>3, <1>4, <1>5, WebAnswer DEF Sound

LEMMA DividendEditKeeps ==
    ASSUME IInv, NEW d \in DOMAIN dividends, NEW day \in Days, NEW quantity \in Quantities,
           DividendEdit(d, day, quantity)
    PROVE  IInv' /\ Keeps
<1> DEFINE row == [dividends[d] EXCEPT !.day = day]
           t == dividends[d].reinvest
           x == [trades[t] EXCEPT !.day = day, !.quantity = quantity]
           put == IF t = None THEN Empty ELSE One(t, x)
           w == [Nothing EXCEPT !.trades = put, !.dividends = One(d, row)]
<1>1. Answer(Web, w)
  BY DEF DividendEdit
<1>2. /\ row \in DividendRow /\ row.reinvest = t /\ row.day = day
      /\ row.portfolio = dividends[d].portfolio
  <2>1. dividends[d] \in DividendRow
    BY DEF IInv, TypeOK
  <2> QED  BY <2>1 DEF DividendRow
<1>3. ASSUME t # None
      PROVE  /\ t \in DOMAIN trades /\ x \in TradeRow /\ Halves(row, x)
             /\ x.portfolio = trades[t].portfolio
             /\ \A e \in DOMAIN dividends : dividends[e].reinvest = t => e = d
  <2>1. /\ t \in DOMAIN trades /\ trades[t].portfolio = dividends[d].portfolio
        /\ trades[t].type = "drp"
        /\ \A e \in DOMAIN dividends : dividends[e].reinvest = t => e = d
    BY <1>3 DEF IInv, PairWhole
  <2>2. trades[t] \in TradeRow
    BY <2>1 DEF IInv, TypeOK
  <2>3. x \in TradeRow /\ x.day = day /\ x.type = trades[t].type /\ x.portfolio = trades[t].portfolio
    BY <2>2 DEF TradeRow
  <2> QED  BY <1>2, <2>1, <2>3 DEF Halves
<1>4. /\ t = None => DOMAIN w.trades = {}
      /\ t # None => DOMAIN w.trades = {t} /\ w.trades[t] = x
      /\ DOMAIN w.dividends = {d} /\ w.dividends[d] = row
      /\ DOMAIN w.actions = {} /\ DOMAIN w.steps = {}
      /\ w.goneTrades = {} /\ w.goneDividends = {} /\ w.goneActions = {}
  BY DEF Nothing, One, Empty
<1> HIDE DEF w, put, x, row
<1>5. Typed(w) /\ OursOrNew(w)
  BY <1>2, <1>3, <1>4 DEF Typed, OursOrNew, IInv, TypeOK
<1>6. Paired(w)
  BY <1>2, <1>3, <1>4 DEF Paired, LeftDividends
<1>7. Linked(w) /\ Remembers(w)
  BY <1>3, <1>4 DEF Linked, Remembers
<1> QED  BY <1>1, <1>5, <1>6, <1>7, WebAnswer DEF Sound

LEMMA DividendDeleteKeeps ==
    ASSUME IInv, NEW d \in DOMAIN dividends, DividendDelete(d)
    PROVE  IInv' /\ Keeps
<1> DEFINE p == dividends[d].portfolio
           gone == {dividends[d].reinvest} \ {None}
           w == [Nothing EXCEPT !.goneDividends = {d}, !.goneTrades = gone,
                                !.steps = Released(p, gone)]
<1>1. Answer(Web, w)
  BY DEF DividendDelete
<1>2. /\ w.steps = Released(p, gone) /\ w.goneTrades = gone /\ w.goneDividends = {d}
      /\ DOMAIN w.trades = {} /\ DOMAIN w.dividends = {} /\ DOMAIN w.actions = {}
      /\ w.goneActions = {}
  BY DEF Nothing, Empty
<1>3. /\ gone \in SUBSET DOMAIN trades /\ \A t \in gone : trades[t].portfolio = p
      /\ \A e \in DOMAIN dividends : dividends[e].reinvest \in gone => e = d
  BY DEF IInv, PairWhole
<1> HIDE DEF w, gone
<1>4. /\ Linked(w) /\ Remembers(w) /\ DOMAIN w.steps \subseteq DOMAIN steps
      /\ \A s \in DOMAIN w.steps : w.steps[s] \in StepRow
  BY <1>2, <1>3, ReleaseLinks DEF IInv
<1>5. Typed(w) /\ OursOrNew(w)
  BY <1>2, <1>4 DEF Typed, OursOrNew, IInv, TypeOK
<1>6. Paired(w)
  BY <1>2, <1>3 DEF Paired, LeftDividends
<1> QED  BY <1>1, <1>4, <1>5, <1>6, WebAnswer DEF Sound

LEMMA DeleteTradesKeeps ==
    ASSUME IInv, NEW p \in Portfolios, DeleteTrades(p)
    PROVE  IInv' /\ Keeps
<1> DEFINE ts == Of(p, trades)
           w == [Nothing EXCEPT !.goneTrades = ts, !.goneDividends = Of(p, dividends),
                                !.goneActions = Of(p, actions), !.steps = Released(p, ts)]
<1>1. Answer(Web, w)
  BY DEF DeleteTrades
<1>2. /\ w.steps = Released(p, ts) /\ w.goneTrades = ts
      /\ w.goneDividends = Of(p, dividends)
      /\ DOMAIN w.trades = {} /\ DOMAIN w.dividends = {} /\ DOMAIN w.actions = {}
  BY DEF Nothing, Empty
<1>3. ts \in SUBSET DOMAIN trades /\ \A t \in ts : trades[t].portfolio = p
  BY DEF Of
<1>4. \A d \in DOMAIN dividends \ Of(p, dividends) :
         dividends[d].reinvest # None => dividends[d].reinvest \notin ts
  BY DEF Of, IInv, PairWhole
<1> HIDE DEF w, ts
<1>5. /\ Linked(w) /\ Remembers(w) /\ DOMAIN w.steps \subseteq DOMAIN steps
      /\ \A s \in DOMAIN w.steps : w.steps[s] \in StepRow
  BY <1>2, <1>3, ReleaseLinks DEF IInv
<1>6. Typed(w) /\ OursOrNew(w)
  BY <1>2, <1>5 DEF Typed, OursOrNew, IInv, TypeOK
<1>7. Paired(w)
  BY <1>2, <1>4 DEF Paired, LeftDividends
<1> QED  BY <1>1, <1>5, <1>6, <1>7, WebAnswer DEF Sound

\* A write of splits alone.
LEMMA ActionsKeep ==
    ASSUME IInv, NEW w, Answer(Web, w), Typed(w),
           DOMAIN w.trades = {}, DOMAIN w.dividends = {}, DOMAIN w.steps = {},
           w.goneTrades = {}, w.goneDividends = {}
    PROVE  IInv' /\ Keeps
<1>1. Paired(w) /\ Linked(w) /\ Remembers(w) /\ OursOrNew(w)
  BY DEF Paired, LeftDividends, Linked, Remembers, OursOrNew
<1> QED  BY <1>1, WebAnswer DEF Sound

LEMMA PutActionKeeps ==
    ASSUME IInv, NEW id \in 1 .. MaxActions, NEW p \in Portfolios, NEW day \in Days,
           NEW ratio \in Ratios,
           Answer(Web, [Nothing EXCEPT !.actions = One(id, Action(p, day, ratio))])
    PROVE  IInv' /\ Keeps
<1> DEFINE row == Action(p, day, ratio)
           w == [Nothing EXCEPT !.actions = One(id, row)]
<1>1. row \in ActionRow
  <2>1. ratio[1] \in Nat \ {0} /\ ratio[2] \in Nat \ {0}
    BY LedgerAssumption
  <2> QED  BY <2>1 DEF Action, ActionRow
<1>2. /\ DOMAIN w.actions = {id} /\ w.actions[id] = row
      /\ DOMAIN w.trades = {} /\ DOMAIN w.dividends = {} /\ DOMAIN w.steps = {}
      /\ w.goneTrades = {} /\ w.goneDividends = {}
  BY DEF Nothing, One, Empty
<1>3. Answer(Web, w)
  OBVIOUS
<1> HIDE DEF w, row
<1>4. Typed(w)
  BY <1>1, <1>2 DEF Typed
<1> QED  BY <1>2, <1>3, <1>4, ActionsKeep

LEMMA ActionNewKeeps ==
    ASSUME IInv, NEW p \in Portfolios, NEW day \in Days, NEW ratio \in Ratios,
           ActionNew(p, day, ratio)
    PROVE  IInv' /\ Keeps
<1>1. NewAction \in 1 .. MaxActions
  BY NewIds, LedgerAssumption DEF ActionNew, IInv
<1>2. Answer(Web, [Nothing EXCEPT !.actions = One(NewAction, Action(p, day, ratio))])
  BY DEF ActionNew
<1> QED  BY <1>1, <1>2, PutActionKeeps

LEMMA ActionEditKeeps ==
    ASSUME IInv, NEW a \in DOMAIN actions, NEW day \in Days, NEW ratio \in Ratios,
           ActionEdit(a, day, ratio)
    PROVE  IInv' /\ Keeps
<1>1. a \in 1 .. MaxActions /\ actions[a].portfolio \in Portfolios
  BY DEF IInv, TypeOK, ActionRow
<1>2. Answer(Web, [Nothing EXCEPT !.actions = One(a, Action(actions[a].portfolio, day, ratio))])
  BY DEF ActionEdit
<1> QED  BY <1>1, <1>2, PutActionKeeps

LEMMA ActionDeleteKeeps ==
    ASSUME IInv, NEW a \in DOMAIN actions, ActionDelete(a)
    PROVE  IInv' /\ Keeps
<1> DEFINE w == [Nothing EXCEPT !.goneActions = {a}]
<1>1. Answer(Web, w)
  BY DEF ActionDelete
<1>2. /\ DOMAIN w.trades = {} /\ DOMAIN w.dividends = {} /\ DOMAIN w.actions = {}
      /\ DOMAIN w.steps = {} /\ w.goneTrades = {} /\ w.goneDividends = {}
  BY DEF Nothing, Empty
<1> HIDE DEF w
<1>3. Typed(w)
  BY <1>2 DEF Typed
<1> QED  BY <1>1, <1>2, <1>3, ActionsKeep

LEMMA PlanCompleteKeeps ==
    ASSUME IInv, NEW p \in Portfolios, NEW day \in Days, NEW quantity \in Quantities,
           PlanComplete(p, day, quantity)
    PROVE  IInv' /\ Keeps
<1> DEFINE t == NewTrade
           s == NewStep
           x == Trade(p, day, "buy", quantity)
           row == Step(p, t, "done")
           w == [Nothing EXCEPT !.trades = One(t, x), !.steps = One(s, row)]
<1>1. Answer(Web, w) /\ t <= MaxTrades /\ s <= MaxSteps
  BY DEF PlanComplete
<1>2. /\ t \in Nat \ {0} /\ s \in Nat \ {0} /\ MaxTrades \in Nat /\ MaxSteps \in Nat
      /\ t \notin DOMAIN trades /\ s \notin DOMAIN steps
  BY NewIds, LedgerAssumption DEF IInv
<1>3. /\ x \in TradeRow /\ row \in StepRow
      /\ row.trade = t /\ row.status = "done" /\ x.portfolio = row.portfolio
  BY <1>2 DEF Trade, TradeRow, Step, StepRow
<1>4. /\ DOMAIN w.trades = {t} /\ w.trades[t] = x
      /\ DOMAIN w.steps = {s} /\ w.steps[s] = row
      /\ DOMAIN w.dividends = {} /\ DOMAIN w.actions = {}
      /\ w.goneTrades = {} /\ w.goneDividends = {}
  BY DEF Nothing, One, Empty
<1> HIDE DEF w, x, row
<1>5. Typed(w) /\ OursOrNew(w)
  BY <1>1, <1>2, <1>3, <1>4 DEF Typed, OursOrNew
<1>6. Paired(w)
  BY <1>2, <1>4 DEF Paired, LeftDividends, IInv, PairWhole
<1>7. Linked(w) /\ Remembers(w)
  BY <1>2, <1>3, <1>4 DEF Linked, Remembers, IInv, StepHonest
<1> QED  BY <1>1, <1>5, <1>6, <1>7, WebAnswer DEF Sound

LEMMA PlanSkipKeeps ==
    ASSUME IInv, NEW p \in Portfolios, PlanSkip(p)
    PROVE  IInv' /\ Keeps
<1> DEFINE s == NewStep
           row == Step(p, None, "skipped")
           w == [Nothing EXCEPT !.steps = One(s, row)]
<1>1. Answer(Web, w) /\ s <= MaxSteps
  BY DEF PlanSkip
<1>2. s \in Nat \ {0} /\ MaxSteps \in Nat /\ s \notin DOMAIN steps
  BY NewIds, LedgerAssumption DEF IInv
<1>3. row \in StepRow /\ row.trade = None
  BY DEF Step, StepRow
<1>4. /\ DOMAIN w.steps = {s} /\ w.steps[s] = row
      /\ DOMAIN w.trades = {} /\ DOMAIN w.dividends = {} /\ DOMAIN w.actions = {}
      /\ w.goneTrades = {} /\ w.goneDividends = {}
  BY DEF Nothing, One, Empty
<1> HIDE DEF w, row
<1>5. Typed(w) /\ OursOrNew(w) /\ Paired(w) /\ Linked(w) /\ Remembers(w)
  BY <1>1, <1>2, <1>3, <1>4
     DEF Typed, OursOrNew, Paired, LeftDividends, Linked, Remembers
<1> QED  BY <1>1, <1>5, WebAnswer DEF Sound

\* Both halves of a pair are moved, or neither is, and a step whose trade
\* leaves is reopened.
LEMMA MoveKeeps ==
    ASSUME IInv, NEW p \in Portfolios, NEW target \in Portfolios,
           NEW tickedTrades \in SUBSET Of(p, trades),
           NEW tickedDividends \in SUBSET Of(p, dividends),
           Move(p, target, tickedTrades, tickedDividends)
    PROVE  IInv' /\ Keeps
<1> DEFINE ts == CoupledTrades(tickedTrades, tickedDividends)
           ds == CoupledDividends(tickedTrades, tickedDividends)
           moved == [t \in ts |-> [trades[t] EXCEPT !.portfolio = target]]
           w == [Nothing EXCEPT
                    !.trades = moved,
                    !.dividends = [d \in ds |-> [dividends[d] EXCEPT !.portfolio = target]],
                    !.steps = ReleasedForMove(p, ts)]
<1>1. Answer(Web, w) /\ target # p
  BY DEF Move, perform
<1>2. /\ DOMAIN w.trades = ts /\ DOMAIN w.dividends = ds /\ DOMAIN w.actions = {}
      /\ DOMAIN w.steps = Recorded(p, ts)
      /\ \A t \in ts : w.trades[t] = [trades[t] EXCEPT !.portfolio = target]
      /\ \A d \in ds : w.dividends[d] = [dividends[d] EXCEPT !.portfolio = target]
      /\ \A s \in Recorded(p, ts) :
            w.steps[s] = [steps[s] EXCEPT !.trade = None, !.status = "planned"]
      /\ w.goneTrades = {} /\ w.goneDividends = {}
  BY DEF Nothing, Empty, ReleasedForMove
<1>3. /\ ts \in SUBSET DOMAIN trades /\ \A t \in ts : trades[t].portfolio = p
      /\ ds \subseteq DOMAIN dividends
      /\ \A d \in ds : dividends[d].reinvest # None => dividends[d].reinvest \in ts
      /\ \A d \in DOMAIN dividends \ ds : dividends[d].reinvest # None => dividends[d].reinvest \notin ts
  BY DEF CoupledTrades, CoupledDividends, Of, IInv, PairWhole
<1> HIDE DEF w, ts, ds
<1>4. ASSUME NEW t \in ts
      PROVE  /\ w.trades[t] \in TradeRow /\ w.trades[t].portfolio = target
             /\ w.trades[t].day = trades[t].day /\ w.trades[t].type = trades[t].type
  <2>1. trades[t] \in TradeRow
    BY <1>3 DEF IInv, TypeOK
  <2>2. w.trades[t] = [trades[t] EXCEPT !.portfolio = target]
    BY <1>2
  <2> QED  BY <2>1, <2>2 DEF TradeRow
<1>5. ASSUME NEW d \in ds
      PROVE  /\ w.dividends[d] \in DividendRow /\ w.dividends[d].portfolio = target
             /\ w.dividends[d].day = dividends[d].day
             /\ w.dividends[d].reinvest = dividends[d].reinvest
  <2>1. dividends[d] \in DividendRow
    BY <1>3 DEF IInv, TypeOK
  <2>2. w.dividends[d] = [dividends[d] EXCEPT !.portfolio = target]
    BY <1>2
  <2> QED  BY <2>1, <2>2 DEF DividendRow
<1>6. /\ Recorded(p, ts) \subseteq DOMAIN steps
      /\ \A s \in Recorded(p, ts) : steps[s].status = "done"
      /\ \A s \in DOMAIN steps \ Recorded(p, ts) : steps[s].trade # None => steps[s].trade \notin ts
  BY <1>3, ReleasedRows DEF IInv
<1>7. ASSUME NEW s \in Recorded(p, ts)
      PROVE  w.steps[s] \in StepRow /\ w.steps[s].trade = None /\ w.steps[s].status = "planned"
  <2>1. steps[s] \in StepRow
    BY <1>6 DEF IInv, TypeOK
  <2>2. w.steps[s] = [steps[s] EXCEPT !.trade = None, !.status = "planned"]
    BY <1>2
  <2> QED  BY <2>1, <2>2 DEF StepRow
<1>8. Typed(w) /\ OursOrNew(w)
  BY <1>2, <1>3, <1>4, <1>5, <1>6, <1>7 DEF Typed, OursOrNew, IInv, TypeOK
<1>9. Paired(w)
  <2>1. ASSUME NEW d \in ds, w.dividends[d].reinvest # None
        PROVE  /\ w.dividends[d].reinvest \in DOMAIN w.trades
               /\ Halves(w.dividends[d], w.trades[w.dividends[d].reinvest])
               /\ \A e \in ds : w.dividends[e].reinvest = w.dividends[d].reinvest => e = d
    <3> DEFINE t == dividends[d].reinvest
    <3>1. /\ t \in ts /\ t # None /\ trades[t].day = dividends[d].day /\ trades[t].type = "drp"
          /\ \A e \in DOMAIN dividends : dividends[e].reinvest = t => e = d
      BY <1>3, <1>5, <2>1 DEF IInv, PairWhole
    <3>2. w.dividends[d].reinvest = t /\ t \in DOMAIN w.trades
      BY <1>2, <1>5, <3>1
    <3>3. Halves(w.dividends[d], w.trades[t])
      <4>1. /\ w.trades[t].portfolio = target /\ w.dividends[d].portfolio = target
            /\ w.trades[t].day = trades[t].day /\ w.dividends[d].day = dividends[d].day
            /\ w.trades[t].type = trades[t].type
        BY <1>4, <1>5, <3>1
      <4> QED  BY <3>1, <4>1 DEF Halves
    <3>4. \A e \in ds : w.dividends[e].reinvest = t => e = d
      BY <1>3, <1>5, <3>1
    <3> QED  BY <3>2, <3>3, <3>4
  <2> QED  BY <1>2, <1>3, <2>1 DEF Paired, LeftDividends
<1>10. Linked(w)
  BY <1>2, <1>6, <1>7 DEF Linked
<1>11. Remembers(w)
  <2>1. ASSUME NEW s \in Recorded(p, ts)
        PROVE  /\ steps[s].status = "done" /\ w.steps[s].status = "planned"
               /\ steps[s].trade \in ts
               /\ w.trades[steps[s].trade].portfolio # steps[s].portfolio
    <3>1. steps[s].trade \in ts /\ steps[s].portfolio = p
      BY DEF Recorded
    <3> QED  BY <1>1, <1>4, <1>6, <1>7, <3>1
  <2> QED  BY <1>2, <2>1 DEF Remembers
<1> QED  BY <1>1, <1>8, <1>9, <1>10, <1>11, WebAnswer DEF Sound

-----------------------------------------------------------------------------
(***************************************************************************)
(* The invariant.                                                          *)
(***************************************************************************)
LEMMA InitIInv == Init => IInv
<1> SUFFICES ASSUME Init PROVE IInv
  OBVIOUS
<1>1. /\ DOMAIN trades = {} /\ DOMAIN dividends = {} /\ DOMAIN actions = {} /\ DOMAIN steps = {}
      /\ DOMAIN pending = Credentials /\ \A c \in Credentials : pending[c] = None
  BY DEF Init, Empty
<1>2. Web \in Credentials
  BY LedgerAssumption
<1> QED  BY <1>1, <1>2 DEF IInv, TypeOK, PairWhole, StepHonest, PendingOK

LEMMA NewRowKeeps == IInv /\ NewRow => IInv' /\ Keeps
<1> SUFFICES ASSUME IInv, NEW p \in Portfolios, NEW day \in Days, NEW quantity \in Quantities,
                    \/ \E type \in {"buy", "sell"} : TradeCreate(p, day, type, quantity)
                    \/ \E c \in Credentials, type \in {"buy", "sell", "drp"} :
                          ApiTrade(c, p, day, type, quantity)
                    \/ \E c \in Credentials : ApiDividend(c, p, day)
                    \/ Record(p, day, quantity)
                    \/ PlanComplete(p, day, quantity)
                    \/ \E later \in Days, types \in {"buy", "sell"} \X {"buy", "sell"} :
                          CsvCommit(p, Trade(p, day, types[1], quantity),
                                       Trade(p, later, types[2], quantity))
             PROVE  IInv' /\ Keeps
  BY DEF NewRow
<1>1. ASSUME NEW type \in {"buy", "sell"}, TradeCreate(p, day, type, quantity)
      PROVE  IInv' /\ Keeps
  <2>1. Web \in Credentials /\ type \in {"buy", "sell", "drp"} /\ AddTrade(Web, p, day, type, quantity)
    BY <1>1, LedgerAssumption DEF TradeCreate
  <2> QED  BY <2>1, AddTradeKeeps
<1>2. ASSUME NEW c \in Credentials, NEW type \in {"buy", "sell", "drp"},
             ApiTrade(c, p, day, type, quantity)
      PROVE  IInv' /\ Keeps
  BY <1>2, AddTradeKeeps DEF ApiTrade
<1>3. ASSUME NEW c \in Credentials, ApiDividend(c, p, day)
      PROVE  IInv' /\ Keeps
  BY <1>3, CashDividendKeeps DEF ApiDividend
<1>4. CASE Record(p, day, quantity)
  <2>1. Web \in Credentials
    BY LedgerAssumption
  <2> QED  BY <1>4, <2>1, CashDividendKeeps, ReinvestedKeeps DEF Record
<1>5. CASE PlanComplete(p, day, quantity)
  BY <1>5, PlanCompleteKeeps
<1>6. ASSUME NEW later \in Days, NEW types \in {"buy", "sell"} \X {"buy", "sell"},
             CsvCommit(p, Trade(p, day, types[1], quantity), Trade(p, later, types[2], quantity))
      PROVE  IInv' /\ Keeps
  <2>1. /\ Trade(p, day, types[1], quantity) \in TradeRow
        /\ Trade(p, later, types[2], quantity) \in TradeRow
    BY DEF Trade, TradeRow
  <2> QED  BY <1>6, <2>1, CsvCommitKeeps
<1> QED  BY <1>1, <1>2, <1>3, <1>4, <1>5, <1>6

LEMMA NextIInv == IInv /\ [Next]_vars => IInv' /\ Keeps
<1> SUFFICES ASSUME IInv, [Next]_vars PROVE IInv' /\ Keeps
  OBVIOUS
<1>1. CASE NewRow
  BY <1>1, NewRowKeeps
<1>2. CASE Changed
  BY <1>2, TradeEditKeeps, DividendEditKeeps DEF Changed
<1>3. CASE Removed
  BY <1>3, TradeDeleteKeeps, DividendDeleteKeeps, DeleteTradesKeeps DEF Removed
<1>4. CASE OfActions
  BY <1>4, ActionNewKeeps, ActionEditKeeps, ActionDeleteKeeps DEF OfActions
<1>5. CASE Moved
  BY <1>5, MoveKeeps DEF Moved, movable_rows
<1>6. ASSUME NEW p \in Portfolios, PlanSkip(p) PROVE IInv' /\ Keeps
  BY <1>6, PlanSkipKeeps
<1>7. ASSUME NEW c \in Credentials, Commit(c) PROVE IInv' /\ Keeps
  BY <1>7, CommitKeeps
<1>8. CASE UNCHANGED vars
  <2>1. UNCHANGED tables /\ pending' = pending /\ DOMAIN pending' = Credentials
    BY <1>8 DEF vars, tables, IInv, TypeOK
  <2>2. TypeOK' /\ PairWhole' /\ StepHonest' /\ Keeps
    BY <2>1, SameTables DEF IInv
  <2>3. PendingOK'
    <3>1. pending'[Web] # None => Sound(pending[Web])'
      BY <2>1, Waiting DEF IInv, PendingOK
    <3>2. ASSUME NEW c \in Credentials \ {Web}, pending'[c] # None
          PROVE  /\ ApiWrite(pending[c])' /\ New(pending[c])'
                 /\ \A e \in Credentials \ {c} : pending'[e] # None => Apart(pending[c], pending[e])'
      <4>1. /\ ApiWrite(pending[c]) /\ New(pending[c])
            /\ \A e \in Credentials \ {c} : pending[e] # None => Apart(pending[c], pending[e])
        BY <2>1, <3>2 DEF IInv, PendingOK
      <4>2. ApiWrite(pending[c])' /\ New(pending[c])'
        BY <2>1, <4>1, Waiting
      <4>3. \A e \in Credentials \ {c} : pending'[e] # None => Apart(pending[c], pending[e])'
        BY <2>1, <4>1 DEF Apart
      <4> QED  BY <4>2, <4>3
    <3> QED  BY <2>1, <3>1, <3>2 DEF IInv, PendingOK
  <2> QED  BY <2>2, <2>3 DEF IInv
<1> QED  BY <1>1, <1>2, <1>3, <1>4, <1>5, <1>6, <1>7, <1>8 DEF Next

\* No handler, interleaved with any others, leaves the tables unsound or a request
\* under way that would: IInv is inductive.
THEOREM Invariant == Spec => []IInv
<1>1. Init => IInv
  BY InitIInv
<1>2. IInv /\ [Next]_vars => IInv'
  BY NextIInv
<1> QED  BY <1>1, <1>2, PTL DEF Spec

\* Every table keeps its shape, on SQLite and on Postgres, however many rows
\* and requests there are.
THEOREM TypeCorrect == Spec => []TypeOK
<1>1. IInv => TypeOK
  BY DEF IInv
<1> QED  BY <1>1, Invariant, PTL

\* However the handlers interleave, on SQLite and on Postgres, the two halves
\* of a reinvested distribution stay together (the edits, deletions and moves
\* of main.py and moves.py).
THEOREM PairsStayWhole == Spec => []PairWhole
<1>1. IInv => PairWhole
  BY DEF IInv
<1> QED  BY <1>1, Invariant, PTL

\* However the handlers interleave, a plan step that names a trade is done and
\* names one its own portfolio holds (_release_planned_purchases and
\* _release_for_move).
THEOREM StepsStayHonest == Spec => []StepHonest
<1>1. IInv => StepHonest
  BY DEF IInv
<1> QED  BY <1>1, Invariant, PTL

\* No handler loses a plan step or rewrites what became of it, but the move
\* that takes its trade to another portfolio.
THEOREM StepsKeepHistory == Spec => StepKeepsHistory
<1>1. IInv /\ [Next]_vars => Keeps
  BY NextIInv
<1>2. Keeps =>
         \A s \in DOMAIN steps :
            /\ s \in DOMAIN steps'
            /\ steps'[s].status # steps[s].status =>
                  /\ steps[s].status = "done" /\ steps'[s].status = "planned"
                  /\ steps[s].trade \in DOMAIN trades'
                  /\ trades'[steps[s].trade].portfolio # steps[s].portfolio
  BY DEF Keeps
<1> QED  BY <1>1, <1>2, Invariant, PTL DEF Spec, StepKeepsHistory

-----------------------------------------------------------------------------
(***************************************************************************)
(* Induction, by a least counterexample: over numbers, and over the parts of *)
(* a finite set.                                                           *)
(***************************************************************************)
LEMMA LeastNat ==
    ASSUME NEW S \in SUBSET Nat, S # {}
    PROVE  \E m \in S : \A n \in S : m <= n
<1> DEFINE R == OpToRel(<, Nat)
<1>1. IsWellFoundedOn(R, Nat)
  BY NatLessThanWellFounded
<1>2. \A a, b \in Nat : a < b => <<a, b>> \in R
  BY DEF OpToRel
<1> HIDE DEF R
<1>3. PICK m \in S : \A y \in S : ~ (<<y, m>> \in R)
  BY <1>1, WFMin
<1>4. ASSUME NEW n \in S PROVE m <= n
  <2>1. m \in Nat /\ n \in Nat
    OBVIOUS
  <2>2. ~(n < m)
    BY <1>2, <1>3, <2>1
  <2> QED  BY <2>1, <2>2
<1> QED  BY <1>4

\* Every number up to n is good, if nought is and the next after a good one is.
LEMMA UpTo ==
    ASSUME NEW n \in Nat, NEW G, 0 \in G, \A k \in 0 .. n - 1 : k \in G => k + 1 \in G
    PROVE  \A k \in 0 .. n : k \in G
<1> SUFFICES ASSUME NEW k \in 0 .. n, k \notin G PROVE FALSE
  OBVIOUS
<1> DEFINE bad == {i \in 0 .. n : i \notin G}
<1>1. bad \in SUBSET Nat /\ bad # {}
  OBVIOUS
<1>2. PICK m \in bad : \A i \in bad : m <= i
  BY <1>1, LeastNat
<1>3. m \in 0 .. n /\ m \notin G /\ m # 0
  OBVIOUS
<1>4. m - 1 \in 0 .. n - 1 /\ m - 1 \notin bad
  BY <1>2, <1>3
<1> QED  BY <1>3, <1>4

\* Every subset of a finite set is good, if a set is whose parts less one are.
LEMMA Subsets ==
    ASSUME NEW R, IsFiniteSet(R), NEW G,
           \A S \in SUBSET R : (\A x \in S : S \ {x} \in G) => S \in G
    PROVE  \A S \in SUBSET R : S \in G
<1> SUFFICES ASSUME NEW Q \in SUBSET R, Q \notin G PROVE FALSE
  OBVIOUS
<1> DEFINE bad == {S \in SUBSET R : S \notin G}
           sizes == {Cardinality(S) : S \in bad}
<1>1. \A S \in SUBSET R : IsFiniteSet(S) /\ Cardinality(S) \in Nat
  BY FS_Subset, FS_CardinalityType
<1>2. sizes \in SUBSET Nat /\ sizes # {}
  BY <1>1
<1>3. PICK m \in sizes : \A i \in sizes : m <= i
  BY <1>2, LeastNat
<1>4. PICK S \in bad : m = Cardinality(S)
  OBVIOUS
<1>5. PICK x \in S : S \ {x} \notin G
  BY <1>4
<1>6. S \ {x} \in bad
  BY <1>5
<1>7. Cardinality(S \ {x}) \in sizes
  BY <1>6
<1>8. Cardinality(S \ {x}) = Cardinality(S) - 1 /\ Cardinality(S) \in Nat
  BY <1>1, <1>5, FS_RemoveElement
<1> QED  BY <1>3, <1>4, <1>7, <1>8

\* ... so the whole set is of that kind.
LEMMA Whole ==
    ASSUME NEW R, NEW G, IsFiniteSet(R),
           \A S \in SUBSET R : (\A x \in S : S \ {x} \in G) => S \in G
    PROVE  R \in G
<1>1. \A S \in SUBSET R : S \in G
  BY Subsets, Zenon
<1> QED  BY <1>1

-----------------------------------------------------------------------------
(***************************************************************************)
(* The walk over a timeline.  `held` of Ledger's UnitsThrough is a recursive *)
(* function over the parts of a set of rows: it exists, and is unfolded a row *)
(* at a time from the last.                                                *)
(***************************************************************************)
\* A row of a timeline, and a timeline: no two rows at one moment.
RowSet == [id : 0 .. MaxTrades + MaxActions, isTrade : BOOLEAN, day : Nat, gain : BOOLEAN,
           quantity : Nat, ratio : (Nat \ {0}) \X (Nat \ {0})]

Line(R) == IsFiniteSet(R) /\ R \subseteq RowSet /\ \A r, s \in R : Moment(r) = Moment(s) => r = s

LEMMA MomentType == ASSUME NEW r \in RowSet PROVE Moment(r) \in Nat
<1>1. MaxTrades \in Nat /\ MaxActions \in Nat
  BY LedgerAssumption
<1>2. r.id \in Nat /\ r.day \in Nat
  BY <1>1 DEF RowSet
<1>3. 2 * r.day + (IF r.isTrade THEN 1 ELSE 0) \in Nat /\ MaxTrades + MaxActions + 1 \in Nat
  BY <1>1, <1>2
<1> DEFINE a == 2 * r.day + (IF r.isTrade THEN 1 ELSE 0) b == MaxTrades + MaxActions + 1
<1> HIDE DEF a, b
<1>4. a * b \in Nat
  BY <1>3 DEF a, b
<1> QED  BY <1>2, <1>4 DEF Moment, a, b

LEMMA PartIsLine == ASSUME NEW R, Line(R), NEW S \in SUBSET R PROVE Line(S)
  BY FS_Subset DEF Line

IsLast(S, r) == r \in S /\ \A s \in S \ {r} : Earlier(s, r)

Last(S) == CHOOSE r \in S : \A s \in S \ {r} : Earlier(s, r)

LEMMA LastIs ==
    ASSUME NEW S, Line(S), S # {}
    PROVE  IsLast(S, Last(S))
<1> DEFINE G == {T \in SUBSET S : T # {} => \E r \in T : \A s \in T \ {r} : Earlier(s, r)}
<1>0. \A r \in S : Moment(r) \in Nat
  BY MomentType DEF Line
<1>1. ASSUME NEW T \in SUBSET S, \A x \in T : T \ {x} \in G
      PROVE  T \in G
  <2> SUFFICES ASSUME T # {} PROVE \E r \in T : \A s \in T \ {r} : Earlier(s, r)
    OBVIOUS
  <2>1. PICK x \in T : TRUE
    OBVIOUS
  <2>2. T \ {x} \in G
    BY <1>1
  <2>3. CASE T \ {x} = {}
    BY <2>1, <2>3
  <2>4. CASE T \ {x} # {}
    <3>1. PICK y \in T \ {x} : \A s \in (T \ {x}) \ {y} : Earlier(s, y)
      BY <2>2, <2>4
    <3>2. Moment(x) # Moment(y) /\ Moment(x) \in Nat /\ Moment(y) \in Nat
      BY <1>0, <3>1 DEF Line
    <3>3. CASE Earlier(x, y)
      BY <3>1, <3>3
    <3>4. CASE ~Earlier(x, y)
      <4>1. Moment(y) < Moment(x)
        BY <3>2, <3>4 DEF Earlier
      <4>2. \A s \in T \ {x} : Earlier(s, x)
        BY <1>0, <3>1, <3>2, <4>1 DEF Earlier
      <4> QED  BY <4>2
    <3> QED  BY <3>3, <3>4
  <2> QED  BY <2>3, <2>4
<1>2. IsFiniteSet(S)
  BY DEF Line
<1> HIDE DEF G
<1>3. S \in G
  BY <1>1, <1>2, Whole, Zenon
<1>4. \E r \in S : \A s \in S \ {r} : Earlier(s, r)
  BY <1>3 DEF G
<1> QED  BY <1>4 DEF IsLast, Last

LEMMA OneLast ==
    ASSUME NEW S, Line(S), NEW r, IsLast(S, r)
    PROVE  Last(S) = r
<1>1. IsLast(S, Last(S))
  BY LastIs DEF IsLast
<1>2. Moment(r) \in Nat /\ Moment(Last(S)) \in Nat
  BY <1>1, MomentType DEF IsLast, Line
<1> QED  BY <1>1, <1>2 DEF IsLast, Earlier

\* What `held` is defined to be, on sets of rows D.
Held(f, D) ==
    f = [S \in D |-> IF S = {} THEN 0
                     ELSE LET last == CHOOSE r \in S : \A s \in S \ {r} : Earlier(s, r)
                          IN  After(f[S \ {last}], last)]

LEMMA HeldIs ==
    ASSUME NEW f, NEW D, Held(f, D), NEW S \in D
    PROVE  f[S] = IF S = {} THEN 0 ELSE After(f[S \ {Last(S)}], Last(S))
  BY DEF Held, Last

LEMMA HeldExists ==
    ASSUME NEW R, Line(R)
    PROVE  \E f : Held(f, SUBSET R)
<1> DEFINE D(n) == {S \in SUBSET R : Cardinality(S) <= n}
           G == {n \in Nat : \E f : Held(f, D(n))}
<1>1. IsFiniteSet(R) /\ Cardinality(R) \in Nat
      /\ \A S \in SUBSET R : IsFiniteSet(S) /\ Cardinality(S) \in Nat
                             /\ Cardinality(S) <= Cardinality(R)
  BY FS_Subset, FS_CardinalityType DEF Line
<1>2. 0 \in G
  <2>1. D(0) = {{}}
    <3>1. \A S \in SUBSET R : Cardinality(S) <= 0 => S = {}
      BY <1>1, FS_EmptySet
    <3>2. {} \in SUBSET R /\ Cardinality({}) = 0
      BY FS_EmptySet
    <3> QED  BY <3>1, <3>2
  <2>2. Held([S \in D(0) |-> 0], D(0))
    BY <2>1 DEF Held
  <2> QED  BY <2>2
<1>3. ASSUME NEW k \in Nat, k \in G
      PROVE  k + 1 \in G
  <2>1. PICK f : Held(f, D(k))
    BY <1>3
  <2> DEFINE g == [S \in D(k + 1) |-> IF S = {} THEN 0 ELSE After(f[S \ {Last(S)}], Last(S))]
  <2>2. ASSUME NEW S \in D(k + 1), S # {}
        PROVE  g[S \ {Last(S)}] = f[S \ {Last(S)}]
    <3>1. Last(S) \in S
      BY <2>2, PartIsLine, LastIs DEF IsLast
    <3>2. Cardinality(S \ {Last(S)}) = Cardinality(S) - 1 /\ Cardinality(S) \in Nat
      BY <1>1, <3>1, FS_RemoveElement
    <3>3. S \ {Last(S)} \in D(k) /\ S \ {Last(S)} \in D(k + 1)
      BY <3>2
    <3> DEFINE T == S \ {Last(S)}
    <3> HIDE DEF T
    <3>4. f[T] = IF T = {} THEN 0 ELSE After(f[T \ {Last(T)}], Last(T))
      BY <2>1, <3>3, HeldIs DEF T
    <3>5. g[T] = IF T = {} THEN 0 ELSE After(f[T \ {Last(T)}], Last(T))
      BY <3>3 DEF T
    <3> QED  BY <3>4, <3>5 DEF T
  <2>3. g = [S \in D(k + 1) |-> IF S = {} THEN 0 ELSE After(g[S \ {Last(S)}], Last(S))]
    <3> HIDE DEF D
    <3> QED  BY <2>2
  <2>4. Held(g, D(k + 1))
    <3> HIDE DEF g, D
    <3> QED  BY <2>3 DEF Held, Last
  <2>5. \E h : Held(h, D(k + 1))
    <3> HIDE DEF g, D
    <3> QED  BY <2>4
  <2>6. k + 1 \in Nat
    OBVIOUS
  <2> HIDE DEF D
  <2> QED  BY <2>5, <2>6, Zenon
<1> HIDE DEF G
<1>4. Cardinality(R) \in G
  BY <1>1, <1>2, <1>3, UpTo
<1>5. PICK f : Held(f, D(Cardinality(R)))
  BY <1>4 DEF G
<1>6. D(Cardinality(R)) = SUBSET R
  BY <1>1
<1> QED  BY <1>5, <1>6

\* Two such functions agree where both are defined.
LEMMA HeldAgree ==
    ASSUME NEW R, Line(R), NEW Q \in SUBSET R,
           NEW f, Held(f, SUBSET R), NEW g, Held(g, SUBSET Q)
    PROVE  f[Q] = g[Q]
<1> DEFINE G == {S \in SUBSET Q : f[S] = g[S]}
<1>1. ASSUME NEW S \in SUBSET Q, \A x \in S : S \ {x} \in G
      PROVE  S \in G
  <2>1. f[S] = IF S = {} THEN 0 ELSE After(f[S \ {Last(S)}], Last(S))
    BY HeldIs
  <2>2. g[S] = IF S = {} THEN 0 ELSE After(g[S \ {Last(S)}], Last(S))
    BY HeldIs
  <2>3. S # {} => Last(S) \in S
    BY PartIsLine, LastIs DEF IsLast
  <2> QED  BY <1>1, <2>1, <2>2, <2>3
<1>2. IsFiniteSet(Q)
  BY PartIsLine DEF Line
<1> HIDE DEF G
<1>3. Q \in G
  BY <1>1, <1>2, Whole, Zenon
<1> QED  BY <1>3 DEF G

LEMMA ThroughIs ==
    ASSUME NEW R, Line(R)
    PROVE  \E f : Held(f, SUBSET R) /\ UnitsThrough(R) = f[R]
<1> DEFINE f == CHOOSE h : Held(h, SUBSET R)
<1>1. Held(f, SUBSET R)
  BY HeldExists
<1>2. UnitsThrough(R) = f[R]
  BY DEF UnitsThrough, Held
<1> QED  BY <1>1, <1>2

LEMMA NothingHeld == UnitsThrough({}) = 0
<1>1. Line({})
  BY FS_EmptySet DEF Line
<1>2. PICK f : Held(f, SUBSET {}) /\ UnitsThrough({}) = f[{}]
  BY <1>1, ThroughIs
<1> QED  BY <1>2, HeldIs

\* The walk, row by row.
LEMMA Unfold ==
    ASSUME NEW R, Line(R), R # {}
    PROVE  UnitsThrough(R) = After(UnitsThrough(R \ {Last(R)}), Last(R))
<1>1. PICK f : Held(f, SUBSET R) /\ UnitsThrough(R) = f[R]
  BY ThroughIs
<1> DEFINE Q == R \ {Last(R)}
<1>2. Line(Q) /\ Q \in SUBSET R
  BY PartIsLine
<1>3. PICK g : Held(g, SUBSET Q) /\ UnitsThrough(Q) = g[Q]
  BY <1>2, ThroughIs
<1>4. f[Q] = g[Q]
  <2> HIDE DEF Q
  <2> QED  BY <1>1, <1>2, <1>3, HeldAgree
<1>5. f[R] = After(f[Q], Last(R))
  BY <1>1, HeldIs
<1> QED  BY <1>1, <1>3, <1>4, <1>5

-----------------------------------------------------------------------------
(***************************************************************************)
(* One row of a walk leaves whole units, and never fewer of more; so a buy *)
(* leaves no fewer to the end, and a row may stand in for another like it. *)
(***************************************************************************)
LEMMA SplitIs ==
    ASSUME NEW a \in Int, NEW n \in Nat \ {0}, NEW o \in Nat \ {0}
    PROVE  SplitUnits(a, n, o) \in Int /\ (a >= 0 => SplitUnits(a, n, o) >= 0)
<1>1. a * n \in Int /\ (a >= 0 => a * n >= 0)
  OBVIOUS
<1> DEFINE m == a * n
<1> HIDE DEF m
<1>2. RoundHalfEven(m, o) \in Int /\ (m >= 0 => RoundHalfEven(m, o) >= 0)
  BY <1>1 DEF RoundHalfEven, m
<1> QED  BY <1>1, <1>2 DEF SplitUnits, m

LEMMA SplitMonotone ==
    ASSUME NEW a \in Int, NEW b \in Int, a <= b, NEW n \in Nat \ {0}, NEW o \in Nat \ {0}
    PROVE  SplitUnits(a, n, o) <= SplitUnits(b, n, o)
<1>1. a * n \in Int /\ b * n \in Int /\ a * n <= b * n
  OBVIOUS
<1> DEFINE k == a * n m == b * n
<1> HIDE DEF k, m
<1>2. RoundHalfEven(k, o) <= RoundHalfEven(m, o)
  BY <1>1 DEF RoundHalfEven, k, m
<1> QED  BY <1>2 DEF SplitUnits, k, m

LEMMA RatioIs == ASSUME NEW r \in RowSet PROVE r.ratio[1] \in Nat \ {0} /\ r.ratio[2] \in Nat \ {0}
  BY DEF RowSet

LEMMA AfterIs ==
    ASSUME NEW r \in RowSet, NEW a \in Int
    PROVE  /\ After(a, r) \in Int
           /\ a >= 0 /\ (r.isTrade => r.gain) => After(a, r) >= 0
<1>1. r.quantity \in Nat /\ r.isTrade \in BOOLEAN /\ r.gain \in BOOLEAN
  BY DEF RowSet
<1>2. SplitUnits(a, r.ratio[1], r.ratio[2]) \in Int
      /\ (a >= 0 => SplitUnits(a, r.ratio[1], r.ratio[2]) >= 0)
  BY RatioIs, SplitIs
<1> QED  BY <1>1, <1>2 DEF After

LEMMA AfterMonotone ==
    ASSUME NEW r \in RowSet, NEW a \in Int, NEW b \in Int, a <= b
    PROVE  After(a, r) <= After(b, r)
<1>1. r.quantity \in Nat /\ r.isTrade \in BOOLEAN /\ r.gain \in BOOLEAN
  BY DEF RowSet
<1>2. SplitUnits(a, r.ratio[1], r.ratio[2]) <= SplitUnits(b, r.ratio[1], r.ratio[2])
  BY RatioIs, SplitMonotone
<1> QED  BY <1>1, <1>2 DEF After

LEMMA ThroughType ==
    ASSUME NEW R, Line(R)
    PROVE  UnitsThrough(R) \in Int
<1> DEFINE G == {S \in SUBSET R : UnitsThrough(S) \in Int}
<1>1. ASSUME NEW S \in SUBSET R, \A x \in S : S \ {x} \in G
      PROVE  S \in G
  <2>1. Line(S)
    BY PartIsLine
  <2>2. CASE S = {}
    BY <2>2, NothingHeld
  <2>3. CASE S # {}
    <3>1. Last(S) \in S /\ Last(S) \in RowSet
      BY <2>1, <2>3, LastIs DEF IsLast, Line
    <3>2. UnitsThrough(S) = After(UnitsThrough(S \ {Last(S)}), Last(S))
      BY <2>1, <2>3, Unfold
    <3>3. UnitsThrough(S \ {Last(S)}) \in Int
      BY <1>1, <3>1
    <3> QED  BY <3>1, <3>2, <3>3, AfterIs
  <2> QED  BY <2>2, <2>3
<1>2. IsFiniteSet(R)
  BY DEF Line
<1> HIDE DEF G
<1>3. R \in G
  BY <1>1, <1>2, Whole, Zenon
<1> QED  BY <1>3 DEF G

\* With one row more, the last is that row or the last there was.
LEMMA LastWith ==
    ASSUME NEW S, NEW g, Line(S \cup {g}), g \notin S
    PROVE  \/ Last(S \cup {g}) = g
           \/ /\ S # {} /\ Last(S \cup {g}) = Last(S) /\ Last(S) \in S
<1>1. IsLast(S \cup {g}, Last(S \cup {g})) /\ Line(S)
  BY LastIs, PartIsLine
<1>2. ASSUME Last(S \cup {g}) # g
      PROVE  S # {} /\ Last(S \cup {g}) = Last(S) /\ Last(S) \in S
  <2>1. IsLast(S, Last(S \cup {g}))
    BY <1>1, <1>2 DEF IsLast
  <2>2. Last(S) = Last(S \cup {g})
    BY <1>1, <2>1, OneLast
  <2> QED  BY <2>1, <2>2 DEF IsLast
<1> QED  BY <1>2

\* A buy or reinvested units leave no fewer.
LEMMA GainThrough ==
    ASSUME NEW R, NEW g, Line(R \cup {g}), g \notin R, g.isTrade, g.gain
    PROVE  UnitsThrough(R) <= UnitsThrough(R \cup {g})
<1> DEFINE G == {S \in SUBSET R : UnitsThrough(S) <= UnitsThrough(S \cup {g})}
<1>0. g \in RowSet /\ IsFiniteSet(R) /\ Line(R)
  <2>1. Line(R)
    BY PartIsLine
  <2> QED  BY <2>1 DEF Line
<1>1. ASSUME NEW S \in SUBSET R, \A x \in S : S \ {x} \in G
      PROVE  S \in G
  <2>1. Line(S) /\ Line(S \cup {g}) /\ g \notin S /\ S \cup {g} # {}
    BY PartIsLine
  <2>2. UnitsThrough(S) \in Int /\ UnitsThrough(S \cup {g}) \in Int
    BY <2>1, ThroughType
  <2>3. UnitsThrough(S \cup {g})
           = After(UnitsThrough((S \cup {g}) \ {Last(S \cup {g})}), Last(S \cup {g}))
    BY <2>1, Unfold
  <2>4. CASE Last(S \cup {g}) = g
    <3>1. (S \cup {g}) \ {g} = S
      BY <2>1
    <3>2. UnitsThrough(S \cup {g}) = After(UnitsThrough(S), g)
      BY <2>3, <2>4, <3>1
    <3>3. After(UnitsThrough(S), g) = UnitsThrough(S) + g.quantity /\ g.quantity \in Nat
      BY <1>0 DEF After, RowSet
    <3>4. UnitsThrough(S) <= UnitsThrough(S \cup {g})
      BY <2>2, <3>2, <3>3
    <3> QED  BY <3>4
  <2>5. CASE S # {} /\ Last(S \cup {g}) = Last(S) /\ Last(S) \in S
    <3> DEFINE T == S \ {Last(S)}
    <3>1. (S \cup {g}) \ {Last(S)} = T \cup {g} /\ T \in G
      BY <1>1, <2>1, <2>5
    <3>2. UnitsThrough(S) = After(UnitsThrough(T), Last(S))
      BY <2>1, <2>5, Unfold
    <3>3. UnitsThrough(S \cup {g}) = After(UnitsThrough(T \cup {g}), Last(S))
      BY <2>3, <2>5, <3>1
    <3>4. Line(T) /\ Line(T \cup {g})
      BY <2>1, PartIsLine
    <3>5. UnitsThrough(T) \in Int /\ UnitsThrough(T \cup {g}) \in Int /\ Last(S) \in RowSet
      BY <2>1, <2>5, <3>4, ThroughType DEF Line
    <3>6. UnitsThrough(T) <= UnitsThrough(T \cup {g})
      BY <3>1
    <3> HIDE DEF T
    <3>7. UnitsThrough(S) <= UnitsThrough(S \cup {g})
      BY <3>2, <3>3, <3>5, <3>6, AfterMonotone
    <3> QED  BY <3>7
  <2> QED  BY <2>1, <2>4, <2>5, LastWith
<1> HIDE DEF G
<1>2. R \in G
  BY <1>0, <1>1, Whole, Zenon
<1> QED  BY <1>2 DEF G

\* A row in another's place, before and after the same ones, with the same effect.
Alike(g, h, R) ==
    /\ \A a \in Int : After(a, g) = After(a, h)
    /\ \A s \in R : (Earlier(s, g) <=> Earlier(s, h)) /\ (Earlier(g, s) <=> Earlier(h, s))

LEMMA AlikeThrough ==
    ASSUME NEW R, NEW g, NEW h, Line(R \cup {g}), Line(R \cup {h}), g \notin R, h \notin R,
           Alike(g, h, R)
    PROVE  UnitsThrough(R \cup {g}) = UnitsThrough(R \cup {h})
<1> DEFINE G == {S \in SUBSET R : UnitsThrough(S \cup {g}) = UnitsThrough(S \cup {h})}
<1>0. IsFiniteSet(R) /\ Line(R)
  <2>1. Line(R)
    BY PartIsLine
  <2> QED  BY <2>1 DEF Line
<1>1. ASSUME NEW S \in SUBSET R, \A x \in S : S \ {x} \in G
      PROVE  S \in G
  <2>1. /\ Line(S) /\ Line(S \cup {g}) /\ Line(S \cup {h}) /\ g \notin S /\ h \notin S
        /\ S \cup {g} # {} /\ S \cup {h} # {}
    BY PartIsLine
  <2>2. /\ UnitsThrough(S \cup {g})
             = After(UnitsThrough((S \cup {g}) \ {Last(S \cup {g})}), Last(S \cup {g}))
        /\ UnitsThrough(S \cup {h})
             = After(UnitsThrough((S \cup {h}) \ {Last(S \cup {h})}), Last(S \cup {h}))
    BY <2>1, Unfold
  <2>3. IsLast(S \cup {g}, Last(S \cup {g}))
    BY <2>1, LastIs
  <2>4. CASE Last(S \cup {g}) = g
    <3>1. IsLast(S \cup {h}, h)
      BY <2>1, <2>3, <2>4 DEF IsLast, Alike
    <3>2. Last(S \cup {h}) = h
      BY <2>1, <3>1, OneLast
    <3>3. (S \cup {g}) \ {g} = S /\ (S \cup {h}) \ {h} = S
      BY <2>1
    <3>4. UnitsThrough(S) \in Int
      BY <2>1, ThroughType
    <3>5. UnitsThrough(S \cup {g}) = UnitsThrough(S \cup {h})
      BY <2>2, <2>4, <3>2, <3>3, <3>4 DEF Alike
    <3> QED  BY <3>5
  <2>5. CASE S # {} /\ Last(S \cup {g}) = Last(S) /\ Last(S) \in S
    <3> DEFINE l == Last(S) T == S \ {l}
    <3>1. IsLast(S \cup {h}, l)
      BY <2>1, <2>3, <2>5 DEF IsLast, Alike
    <3>2. Last(S \cup {h}) = l
      BY <2>1, <3>1, OneLast
    <3>3. (S \cup {g}) \ {l} = T \cup {g} /\ (S \cup {h}) \ {l} = T \cup {h} /\ T \in G
      BY <1>1, <2>1, <2>5
    <3>4. UnitsThrough(T \cup {g}) = UnitsThrough(T \cup {h})
      BY <3>3
    <3>5. UnitsThrough(S \cup {g}) = After(UnitsThrough(T \cup {g}), l)
      BY <2>2, <2>5, <3>3
    <3>6. UnitsThrough(S \cup {h}) = After(UnitsThrough(T \cup {h}), l)
      BY <2>2, <3>2, <3>3
    <3> HIDE DEF l, T
    <3>7. UnitsThrough(S \cup {g}) = UnitsThrough(S \cup {h})
      BY <3>4, <3>5, <3>6
    <3> QED  BY <3>7
  <2> QED  BY <2>1, <2>4, <2>5, LastWith
<1> HIDE DEF G
<1>2. R \in G
  BY <1>0, <1>1, Whole, Zenon
<1> QED  BY <1>2 DEF G

-----------------------------------------------------------------------------
(***************************************************************************)
(* Covered, of rows: no walk to a row goes below nothing.                  *)
(***************************************************************************)
Through(R, r) == {s \in R : ~Earlier(r, s)}

Walks(R) == \A r \in R : UnitsThrough(Through(R, r)) >= 0

LEMMA CoveredIs ==
    ASSUME NEW p, NEW ts, NEW as
    PROVE  Covered(p, ts, as) <=> Walks(Rows(p, ts, as))
  BY DEF Covered, Walks, Through

LEMMA ThroughLine ==
    ASSUME NEW R, Line(R), NEW r
    PROVE  Line(Through(R, r)) /\ UnitsThrough(Through(R, r)) \in Int
<1>1. Through(R, r) \in SUBSET R
  BY DEF Through
<1> QED  BY <1>1, PartIsLine, ThroughType

\* At any moment at all the units are covered.
LEMMA CoveredThen ==
    ASSUME NEW R, Line(R), Walks(R), NEW g \in RowSet
    PROVE  UnitsThrough(Through(R, g)) >= 0
<1> DEFINE T == Through(R, g)
<1>1. Line(T)
  BY ThroughLine
<1>2. CASE T = {}
  BY <1>2, NothingHeld
<1>3. CASE T # {}
  <2>1. IsLast(T, Last(T))
    BY <1>1, <1>3, LastIs
  <2>2. Last(T) \in R /\ Moment(Last(T)) \in Nat /\ Moment(g) \in Nat /\ \A s \in R : Moment(s) \in Nat
    BY <2>1, MomentType DEF IsLast, Through, Line
  <2>3. T = Through(R, Last(T))
    BY <2>1, <2>2 DEF IsLast, Through, Earlier
  <2> HIDE DEF T
  <2> QED  BY <2>2, <2>3 DEF Walks, T
<1> QED  BY <1>2, <1>3

LEMMA GainWalks ==
    ASSUME NEW R, NEW g, Line(R \cup {g}), g \notin R, g.isTrade, g.gain, Walks(R)
    PROVE  Walks(R \cup {g})
<1> SUFFICES ASSUME NEW r \in R \cup {g}
             PROVE  UnitsThrough(Through(R \cup {g}, r)) >= 0
  BY DEF Walks
<1> DEFINE P == Through(R, r) Q == Through(R \cup {g}, r)
<1>1. Line(R) /\ r \in RowSet
  <2>1. Line(R)
    BY PartIsLine
  <2> QED  BY <2>1 DEF Line
<1>2. UnitsThrough(P) >= 0 /\ UnitsThrough(P) \in Int
  BY <1>1, CoveredThen, ThroughLine
<1>3. Line(Q) /\ UnitsThrough(Q) \in Int
  BY ThroughLine
<1>4. Q = P \/ Q = P \cup {g}
  BY DEF Through
<1>5. g \notin P
  BY DEF Through
<1> HIDE DEF P, Q
<1>6. CASE Q = P
  BY <1>2, <1>6 DEF Q
<1>7. CASE Q = P \cup {g}
  <2>1. UnitsThrough(P) <= UnitsThrough(Q)
    BY <1>3, <1>5, <1>7, GainThrough
  <2> QED  BY <1>2, <1>3, <2>1 DEF Q
<1> QED  BY <1>4, <1>6, <1>7

LEMMA AlikeWalks ==
    ASSUME NEW R, NEW g, NEW h, Line(R \cup {g}), Line(R \cup {h}), g \notin R, h \notin R,
           Alike(g, h, R), Walks(R \cup {g})
    PROVE  Walks(R \cup {h})
<1> SUFFICES ASSUME NEW r \in R \cup {h}
             PROVE  UnitsThrough(Through(R \cup {h}, r)) >= 0
  BY DEF Walks
<1>1. ASSUME NEW q \in R \cup {g}, NEW S \in SUBSET R,
             Through(R \cup {g}, q) = S \cup {g}, Through(R \cup {h}, r) = S \cup {h}
      PROVE  UnitsThrough(Through(R \cup {h}, r)) >= 0
  <2>1. Line(S \cup {g}) /\ Line(S \cup {h}) /\ g \notin S /\ h \notin S
    BY PartIsLine
  <2>2. Alike(g, h, S)
    BY DEF Alike
  <2>3. UnitsThrough(S \cup {g}) = UnitsThrough(S \cup {h})
    BY <2>1, <2>2, AlikeThrough
  <2>4. UnitsThrough(S \cup {g}) >= 0
    BY <1>1 DEF Walks
  <2> QED  BY <1>1, <2>3, <2>4
<1> DEFINE P == Through(R, r)
<1>2. P \in SUBSET R
  BY DEF Through
<1>3. CASE r = h
  <2>0. ~Earlier(g, g) /\ ~Earlier(h, h)
    <3>1. Moment(g) \in Nat /\ Moment(h) \in Nat
      BY MomentType DEF Line
    <3> QED  BY <3>1 DEF Earlier
  <2>1. Through(R \cup {g}, g) = P \cup {g}
    BY <1>3, <2>0 DEF Through, Alike
  <2>2. Through(R \cup {h}, r) = P \cup {h}
    BY <1>3, <2>0 DEF Through
  <2> QED  BY <1>1, <1>2, <2>1, <2>2
<1>4. CASE r # h /\ ~Earlier(r, h)
  <2>1. Through(R \cup {g}, r) = P \cup {g}
    BY <1>4 DEF Through, Alike
  <2>2. Through(R \cup {h}, r) = P \cup {h}
    BY <1>4 DEF Through
  <2>3. r \in R \cup {g}
    BY <1>4
  <2> QED  BY <1>1, <1>2, <2>1, <2>2, <2>3
<1>5. CASE r # h /\ Earlier(r, h)
  <2>1. Through(R \cup {g}, r) = P /\ Through(R \cup {h}, r) = P
    BY <1>5 DEF Through, Alike
  <2>2. r \in R
    BY <1>5
  <2> QED  BY <2>1, <2>2 DEF Walks
<1> QED  BY <1>3, <1>4, <1>5

-----------------------------------------------------------------------------
(***************************************************************************)
(* The rows of the tables are a timeline.                                  *)
(***************************************************************************)
TypedTrades(ts) ==
    /\ DOMAIN ts \subseteq 1 .. MaxTrades
    /\ \A t \in DOMAIN ts : ts[t] \in TradeRow

TypedActions(as) ==
    /\ DOMAIN as \subseteq 0 .. MaxActions
    /\ \A a \in DOMAIN as : as[a] \in ActionRow

TradeRowOf(ts, i) ==
    [id |-> i, isTrade |-> TRUE, day |-> ts[i].day, gain |-> ts[i].type \in {"buy", "drp"},
     quantity |-> ts[i].quantity, ratio |-> <<1, 1>>]

ActionRowOf(as, i) ==
    [id |-> i, isTrade |-> FALSE, day |-> as[i].day, gain |-> FALSE,
     quantity |-> 0, ratio |-> <<as[i].new, as[i].old>>]

LEMMA RowsAre ==
    ASSUME NEW p, NEW ts, NEW as
    PROVE  Rows(p, ts, as) = {TradeRowOf(ts, i) : i \in Of(p, ts)}
                             \cup {ActionRowOf(as, i) : i \in Of(p, as)}
  BY DEF Rows, TradeRowOf, ActionRowOf

LEMMA Bounds == MaxTrades \in Nat /\ MaxActions \in Nat
  BY LedgerAssumption

LEMMA TradeRowIs ==
    ASSUME NEW ts, TypedTrades(ts), NEW i \in DOMAIN ts
    PROVE  /\ TradeRowOf(ts, i) \in RowSet /\ TradeRowOf(ts, i).id = i /\ TradeRowOf(ts, i).isTrade
           /\ TradeRowOf(ts, i).gain = (ts[i].type \in {"buy", "drp"})
           /\ TradeRowOf(ts, i).day = ts[i].day
<1>1. ts[i].day \in Nat /\ ts[i].quantity \in Nat
  BY LedgerAssumption DEF TypedTrades, TradeRow
<1>2. i \in 0 .. MaxTrades + MaxActions
  BY Bounds DEF TypedTrades
<1> QED  BY <1>1, <1>2 DEF TradeRowOf, RowSet

LEMMA ActionRowIs ==
    ASSUME NEW as, TypedActions(as), NEW i \in DOMAIN as
    PROVE  /\ ActionRowOf(as, i) \in RowSet /\ ActionRowOf(as, i).id = i
           /\ ActionRowOf(as, i).isTrade = FALSE /\ ActionRowOf(as, i).day = as[i].day
<1>1. as[i].day \in Nat /\ as[i].new \in Nat \ {0} /\ as[i].old \in Nat \ {0}
  BY LedgerAssumption DEF TypedActions, ActionRow
<1>2. i \in 0 .. MaxTrades + MaxActions
  <2>1. i \in 0 .. MaxActions
    BY DEF TypedActions
  <2> QED  BY <2>1, Bounds
<1> QED  BY <1>1, <1>2 DEF ActionRowOf, RowSet

\* Moments compare as day, kind and id do.
LEMMA MomentOrder ==
    ASSUME NEW r \in RowSet, NEW s \in RowSet
    PROVE  /\ r.day < s.day => Earlier(r, s)
           /\ r.day = s.day /\ ~r.isTrade /\ s.isTrade => Earlier(r, s)
           /\ r.day = s.day /\ r.isTrade = s.isTrade => (Earlier(r, s) <=> r.id < s.id)
           /\ Moment(r) = Moment(s) => r.isTrade = s.isTrade /\ r.id = s.id
<1> DEFINE a == 2 * r.day + (IF r.isTrade THEN 1 ELSE 0)
           b == 2 * s.day + (IF s.isTrade THEN 1 ELSE 0)
           n == MaxTrades + MaxActions + 1
<1>1. MaxTrades \in Nat /\ MaxActions \in Nat
  BY LedgerAssumption
<1>2. /\ r.day \in Nat /\ s.day \in Nat /\ r.isTrade \in BOOLEAN /\ s.isTrade \in BOOLEAN
      /\ r.id \in 0 .. MaxTrades + MaxActions /\ s.id \in 0 .. MaxTrades + MaxActions
  BY DEF RowSet
<1>3. a \in Nat /\ b \in Nat /\ n \in Nat /\ r.id \in 0 .. n - 1 /\ s.id \in 0 .. n - 1
  BY <1>1, <1>2
<1>4. Moment(r) = a * n + r.id /\ Moment(s) = b * n + s.id
  BY DEF Moment
<1>5. /\ r.day < s.day => a < b
      /\ r.day = s.day /\ ~r.isTrade /\ s.isTrade => a < b
      /\ r.day = s.day /\ r.isTrade = s.isTrade => a = b
      /\ a = b => r.isTrade = s.isTrade
  BY <1>2
<1> HIDE DEF a, b, n
<1>6. a * n \in Nat /\ b * n \in Nat
  BY <1>3
<1>7. a < b => a * n + n <= b * n
  <2> SUFFICES ASSUME a < b PROVE a * n + n <= b * n
    OBVIOUS
  <2>1. a + 1 <= b
    BY <1>3
  <2>2. (a + 1) * n <= b * n
    BY <1>3, <2>1
  <2>3. (a + 1) * n = a * n + n
    BY <1>3
  <2> QED  BY <2>2, <2>3
<1>8. b < a => b * n + n <= a * n
  <2> SUFFICES ASSUME b < a PROVE b * n + n <= a * n
    OBVIOUS
  <2>1. b + 1 <= a
    BY <1>3
  <2>2. (b + 1) * n <= a * n
    BY <1>3, <2>1
  <2>3. (b + 1) * n = b * n + n
    BY <1>3
  <2> QED  BY <2>2, <2>3
<1>9. a < b => Moment(r) < Moment(s)
  BY <1>3, <1>4, <1>6, <1>7
<1>10. b < a => Moment(s) < Moment(r)
  BY <1>3, <1>4, <1>6, <1>8
<1>11. Moment(r) \in Nat /\ Moment(s) \in Nat
  BY MomentType
<1>12. a = b => (Moment(r) < Moment(s) <=> r.id < s.id) /\ (Moment(r) = Moment(s) <=> r.id = s.id)
  BY <1>3, <1>4, <1>6
<1>13. Moment(r) = Moment(s) => a = b
  BY <1>3, <1>9, <1>10, <1>11
<1> QED  BY <1>5, <1>9, <1>12, <1>13 DEF Earlier

LEMMA RowsLine ==
    ASSUME NEW p, NEW ts, TypedTrades(ts), NEW as, TypedActions(as)
    PROVE  Line(Rows(p, ts, as))
<1> DEFINE A == {TradeRowOf(ts, i) : i \in Of(p, ts)} B == {ActionRowOf(as, i) : i \in Of(p, as)}
<1>0. /\ \A i \in Of(p, ts) : TradeRowOf(ts, i) \in RowSet /\ TradeRowOf(ts, i).id = i
                              /\ TradeRowOf(ts, i).isTrade
      /\ \A i \in Of(p, as) : ActionRowOf(as, i) \in RowSet /\ ActionRowOf(as, i).id = i
                              /\ ActionRowOf(as, i).isTrade = FALSE
  BY TradeRowIs, ActionRowIs DEF Of
<1>1. A \subseteq RowSet /\ B \subseteq RowSet
  BY <1>0
<1>2. IsFiniteSet(A)
  <2>1. IsFiniteSet(1 .. MaxTrades)
    BY Bounds, FS_Interval
  <2>2. Of(p, ts) \in SUBSET (1 .. MaxTrades)
    BY DEF Of, TypedTrades
  <2>3. IsFiniteSet(Of(p, ts))
    BY <2>1, <2>2, FS_Subset
  <2> DEFINE f == [i \in Of(p, ts) |-> TradeRowOf(ts, i)]
  <2>4. A = {f[i] : i \in Of(p, ts)}
    OBVIOUS
  <2>5. f \in Surjection(Of(p, ts), A)
    BY DEF Surjection
  <2> QED  BY <2>3, <2>5, FS_Surjection
<1>3. IsFiniteSet(B)
  <2>1. IsFiniteSet(0 .. MaxActions)
    BY Bounds, FS_Interval
  <2>2. Of(p, as) \in SUBSET (0 .. MaxActions)
    BY DEF Of, TypedActions
  <2>3. IsFiniteSet(Of(p, as))
    BY <2>1, <2>2, FS_Subset
  <2> DEFINE f == [i \in Of(p, as) |-> ActionRowOf(as, i)]
  <2>5. f \in Surjection(Of(p, as), B)
    BY DEF Surjection
  <2> QED  BY <2>3, <2>5, FS_Surjection
<1>4. \A r, s \in A \cup B : Moment(r) = Moment(s) => r = s
  <2> SUFFICES ASSUME NEW r \in A \cup B, NEW s \in A \cup B, Moment(r) = Moment(s) PROVE r = s
    OBVIOUS
  <2>1. r \in RowSet /\ s \in RowSet
    BY <1>1
  <2> HIDE DEF A, B
  <2>2. r.isTrade = s.isTrade /\ r.id = s.id
    BY <2>1, MomentOrder
  <2> USE DEF A, B
  <2>3. CASE r \in A /\ s \in A
    <3>1. PICK i \in Of(p, ts), j \in Of(p, ts) : r = TradeRowOf(ts, i) /\ s = TradeRowOf(ts, j)
      BY <2>3
    <3>2. TradeRowOf(ts, i).id = i /\ TradeRowOf(ts, j).id = j
      BY <1>0
    <3>3. r.id = i /\ s.id = j
      BY <3>1, <3>2
    <3>4. i = j
      BY <2>2, <3>3
    <3> QED  BY <3>1, <3>4
  <2>4. CASE r \in B /\ s \in B
    <3>1. PICK i \in Of(p, as), j \in Of(p, as) : r = ActionRowOf(as, i) /\ s = ActionRowOf(as, j)
      BY <2>4
    <3>2. ActionRowOf(as, i).id = i /\ ActionRowOf(as, j).id = j
      BY <1>0
    <3>3. r.id = i /\ s.id = j
      BY <3>1, <3>2
    <3>4. i = j
      BY <2>2, <3>3
    <3> QED  BY <3>1, <3>4
  <2>5. CASE (r \in A /\ s \in B) \/ (r \in B /\ s \in A)
    <3>1. \A x \in A : x.isTrade
      BY <1>0
    <3>2. \A x \in B : ~x.isTrade
      BY <1>0
    <3> QED  BY <2>2, <2>5, <3>1, <3>2
  <2> QED  BY <2>3, <2>4, <2>5
<1>5. IsFiniteSet(A \cup B)
  BY <1>2, <1>3, FS_Union
<1> HIDE DEF A, B
<1>6. Line(A \cup B)
  BY <1>1, <1>4, <1>5 DEF Line
<1> QED  BY <1>6, RowsAre DEF A, B

-----------------------------------------------------------------------------
(***************************************************************************)
(* Writes that oversell nothing, whatever is judged of the portfolio they  *)
(* are in; the other portfolios' rows are as they were.                    *)
(***************************************************************************)
\* The tables a write leaves.
LaterTrades(w) == With(Without(trades, w.goneTrades), w.trades)
LaterActions(w) == With(Without(actions, w.goneActions), w.actions)

\* A write that oversells nothing.
Fits(w) == \A p \in Portfolios : Covered(p, LaterTrades(w), LaterActions(w))

\* Tables of the same rows.
Same(p, table, other) ==
    Of(p, table) = Of(p, other) /\ \A i \in Of(p, table) : table[i] = other[i]

LEMMA SameRows ==
    ASSUME NEW p, NEW ts, NEW as, NEW us, NEW bs, Same(p, ts, us), Same(p, as, bs)
    PROVE  Covered(p, ts, as) <=> Covered(p, us, bs)
<1>1. {TradeRowOf(ts, i) : i \in Of(p, ts)} = {TradeRowOf(us, i) : i \in Of(p, us)}
  BY DEF Same, TradeRowOf
<1>2. {ActionRowOf(as, i) : i \in Of(p, as)} = {ActionRowOf(bs, i) : i \in Of(p, bs)}
  BY DEF Same, ActionRowOf
<1>3. Rows(p, ts, as) = Rows(p, us, bs)
  BY <1>1, <1>2, RowsAre
<1> QED  BY <1>3, CoveredIs

\* Rows written or deleted in one portfolio leave another's as they are.
Within(p, table, gone, put) ==
    /\ \A x \in DOMAIN put : put[x].portfolio = p
    /\ \A x \in DOMAIN table : x \in gone \cup DOMAIN put => table[x].portfolio = p

LEMMA WithinIs ==
    ASSUME NEW p, NEW table, NEW gone, NEW put, Within(p, table, gone, put), NEW q, q # p
    PROVE  Same(q, table, With(Without(table, gone), put))
<1> DEFINE later == With(Without(table, gone), put)
<1>1. /\ DOMAIN later = (DOMAIN table \ gone) \cup DOMAIN put
      /\ \A x \in DOMAIN put : later[x] = put[x]
      /\ \A x \in DOMAIN table \ (gone \cup DOMAIN put) : later[x] = table[x]
  BY DEF With, Without
<1> HIDE DEF later
<1>2. Of(q, table) = Of(q, later)
  BY <1>1 DEF Of, Within
<1>3. \A x \in Of(q, table) : table[x] = later[x]
  BY <1>1 DEF Of, Within
<1> QED  BY <1>2, <1>3 DEF Same, later

\* What is judged for one portfolio and leaves the others alone.
LEMMA Judged ==
    ASSUME NeverOversold, NEW w, NEW p,
           Within(p, trades, w.goneTrades, w.trades), Within(p, actions, w.goneActions, w.actions),
           Covered(p, LaterTrades(w), LaterActions(w))
    PROVE  Fits(w)
<1> SUFFICES ASSUME NEW q \in Portfolios
             PROVE  Covered(q, LaterTrades(w), LaterActions(w))
  BY DEF Fits
<1>1. CASE q = p
  BY <1>1
<1>2. CASE q # p
  <2>1. Same(q, trades, LaterTrades(w)) /\ Same(q, actions, LaterActions(w))
    BY <1>2, WithinIs DEF LaterTrades, LaterActions
  <2>2. Covered(q, trades, actions)
    BY DEF NeverOversold
  <2> QED  BY <2>1, <2>2, SameRows
<1> QED  BY <1>1, <1>2

\* A write that leaves trades and actions alone.
LEMMA Untouched ==
    ASSUME NeverOversold, NEW w, DOMAIN w.trades = {}, w.goneTrades = {}, DOMAIN w.actions = {},
           w.goneActions = {}
    PROVE  Fits(w)
<1>1. \A q : Within(q, trades, w.goneTrades, w.trades) /\ Within(q, actions, w.goneActions, w.actions)
  BY DEF Within
<1>2. ASSUME NEW q \in Portfolios
      PROVE  Covered(q, LaterTrades(w), LaterActions(w))
  <2>1. Same(q, trades, LaterTrades(w))
    BY DEF LaterTrades, Same, Of, With, Without
  <2>2. Same(q, actions, LaterActions(w))
    BY DEF LaterActions, Same, Of, With, Without
  <2>3. Covered(q, trades, actions)
    BY DEF NeverOversold
  <2> QED  BY <2>1, <2>2, <2>3, SameRows
<1> QED  BY <1>2 DEF Fits

\* A write of trades alone, judged on the tables it makes.
LEMMA JudgedTrades ==
    ASSUME NeverOversold, NEW w, NEW p, NEW ts,
           Within(p, trades, w.goneTrades, w.trades), DOMAIN w.actions = {}, w.goneActions = {},
           Same(p, ts, LaterTrades(w)), Covered(p, ts, actions)
    PROVE  Fits(w)
<1>1. Within(p, actions, w.goneActions, w.actions)
  BY DEF Within
<1>2. Same(p, actions, LaterActions(w))
  BY DEF LaterActions, Same, Of, With, Without
<1>3. Covered(p, LaterTrades(w), LaterActions(w))
  BY <1>2, SameRows
<1> QED  BY <1>1, <1>3, Judged

\* A new buy, or new reinvested units, which no handler looks for a breach of.
LEMMA GainFits ==
    ASSUME TypeOK, NeverOversold, NEW w, NEW t, NEW p \in Portfolios, NEW row \in TradeRow,
           t \in 1 .. MaxTrades, t \notin DOMAIN trades, w.trades = One(t, row),
           row.portfolio = p, row.type \in {"buy", "drp"},
           w.goneTrades = {}, DOMAIN w.actions = {}, w.goneActions = {}
    PROVE  Fits(w)
<1> DEFINE ts == LaterTrades(w)
<1>1. DOMAIN w.trades = {t} /\ w.trades[t] = row
  BY DEF One
<1>2. DOMAIN ts = DOMAIN trades \cup {t} /\ ts[t] = row /\ \A x \in DOMAIN trades : ts[x] = trades[x]
  BY <1>1 DEF LaterTrades, With, Without
<1> HIDE DEF ts
<1>3. TypedTrades(trades) /\ TypedTrades(ts) /\ TypedActions(actions)
  <2>1. TypedTrades(trades)
    BY DEF TypeOK, TypedTrades
  <2>2. TypedTrades(ts)
    BY <1>2, <2>1 DEF TypedTrades
  <2>3. TypedActions(actions)
    BY Bounds DEF TypeOK, TypedActions
  <2> QED  BY <2>1, <2>2, <2>3
<1> DEFINE R == Rows(p, trades, actions) g == TradeRowOf(ts, t)
<1>4. Rows(p, ts, actions) = R \cup {g}
  <2>1. Of(p, ts) = Of(p, trades) \cup {t}
    BY <1>2 DEF Of
  <2>2. \A i \in Of(p, trades) : TradeRowOf(ts, i) = TradeRowOf(trades, i)
    BY <1>2 DEF Of, TradeRowOf
  <2>3. {TradeRowOf(ts, i) : i \in Of(p, ts)} = {TradeRowOf(trades, i) : i \in Of(p, trades)} \cup {g}
    BY <2>1, <2>2
  <2> QED  BY <2>3, RowsAre
<1>5. g.isTrade /\ g.gain /\ g.id = t
  BY <1>2 DEF TradeRowOf
<1>6. g \notin R
  <2>1. \A i \in Of(p, trades) : TradeRowOf(trades, i).id = i
    BY DEF TradeRowOf
  <2>2. \A i \in Of(p, actions) : ActionRowOf(actions, i).isTrade = FALSE
    BY DEF ActionRowOf
  <2>3. \A r \in R : r.isTrade => r.id \in Of(p, trades)
    BY <2>1, <2>2, RowsAre
  <2>4. t \notin Of(p, trades)
    BY DEF Of
  <2> QED  BY <1>5, <2>3, <2>4
<1>7. Line(R \cup {g})
  BY <1>3, <1>4, RowsLine
<1>8. Walks(R)
  BY CoveredIs DEF NeverOversold
<1> HIDE DEF R, g
<1>9. Walks(R \cup {g})
  BY <1>5, <1>6, <1>7, <1>8, GainWalks
<1>10. Covered(p, ts, actions)
  BY <1>4, <1>9, CoveredIs DEF R, g
<1>11. Within(p, trades, w.goneTrades, w.trades)
  BY <1>1 DEF Within
<1>12. Same(p, ts, LaterTrades(w))
  BY DEF Same, ts
<1> QED  BY <1>10, <1>11, <1>12, JudgedTrades

-----------------------------------------------------------------------------
(***************************************************************************)
(* Every handler's write oversells nothing.                                *)
(***************************************************************************)
LEMMA AddTradeFits ==
    ASSUME IInv, NeverOversold, NEW c, NEW p, NEW day, NEW type, NEW quantity,
           AddTrade(c, p, day, type, quantity)
    PROVE  \E w : Answer(c, w) /\ Fits(w)
<1> DEFINE put == One(NewTrade, Trade(p, day, type, quantity))
           w == [Nothing EXCEPT !.trades = put]
<1>1. Answer(c, w) /\ Covered(p, With(trades, put), actions)
  BY DEF AddTrade
<1>2. w.trades = put /\ w.goneTrades = {} /\ DOMAIN w.actions = {} /\ w.goneActions = {}
  BY DEF Nothing, Empty
<1>3. NewTrade \notin DOMAIN trades
  BY NewIds DEF IInv
<1>4. DOMAIN put = {NewTrade} /\ put[NewTrade].portfolio = p
  BY DEF One, Trade
<1> HIDE DEF put, w
<1>5. Within(p, trades, w.goneTrades, w.trades)
  BY <1>2, <1>3, <1>4 DEF Within
<1>6. Same(p, With(trades, put), LaterTrades(w))
  BY <1>2 DEF Same, Of, LaterTrades, With, Without
<1> QED  BY <1>1, <1>2, <1>5, <1>6, JudgedTrades

LEMMA TradeEditFits ==
    ASSUME IInv, NeverOversold, NEW t \in DOMAIN trades, NEW day, NEW type, NEW quantity,
           TradeEdit(t, day, type, quantity)
    PROVE  \E w : Answer(Web, w) /\ Fits(w)
<1> DEFINE p == trades[t].portfolio
           put == One(t, Trade(p, day, type, quantity))
           w == [Nothing EXCEPT !.trades = put]
<1>1. Answer(Web, w) /\ Covered(p, With(trades, put), actions)
  BY DEF TradeEdit
<1>2. w.trades = put /\ w.goneTrades = {} /\ DOMAIN w.actions = {} /\ w.goneActions = {}
  BY DEF Nothing, Empty
<1>3. DOMAIN put = {t} /\ put[t].portfolio = p
  BY DEF One, Trade
<1>4. trades[t].portfolio = p
  OBVIOUS
<1> HIDE DEF put, w, p
<1>5. Within(p, trades, w.goneTrades, w.trades)
  BY <1>2, <1>3, <1>4 DEF Within
<1>6. Same(p, With(trades, put), LaterTrades(w))
  BY <1>2 DEF Same, Of, LaterTrades, With, Without
<1> QED  BY <1>1, <1>2, <1>5, <1>6, JudgedTrades

LEMMA TradeDeleteFits ==
    ASSUME IInv, NeverOversold, NEW t \in DOMAIN trades, TradeDelete(t)
    PROVE  \E w : Answer(Web, w) /\ Fits(w)
<1> DEFINE p == trades[t].portfolio
           w == [Nothing EXCEPT !.goneTrades = {t}, !.steps = Released(p, {t})]
<1>1. Answer(Web, w) /\ Covered(p, Without(trades, {t}), actions)
  BY DEF TradeDelete
<1>2. DOMAIN w.trades = {} /\ w.goneTrades = {t} /\ DOMAIN w.actions = {} /\ w.goneActions = {}
  BY DEF Nothing, Empty
<1>4. trades[t].portfolio = p
  OBVIOUS
<1> HIDE DEF w, p
<1>5. Within(p, trades, w.goneTrades, w.trades)
  BY <1>2, <1>4 DEF Within
<1>6. Same(p, Without(trades, {t}), LaterTrades(w))
  BY <1>2 DEF Same, Of, LaterTrades, With, Without
<1> QED  BY <1>1, <1>2, <1>5, <1>6, JudgedTrades

LEMMA CsvCommitFits ==
    ASSUME IInv, NeverOversold, NEW p, NEW first, NEW second,
           first.portfolio = p, second.portfolio = p, CsvCommit(p, first, second)
    PROVE  \E w : Answer(Web, w) /\ Fits(w)
<1> DEFINE put1 == One(NewTrade, first) put2 == One(NewTrade + 1, second)
           w == [Nothing EXCEPT !.trades = With(put1, put2)]
<1>1. Answer(Web, w) /\ Covered(p, With(With(trades, put1), put2), actions)
  BY DEF CsvCommit
<1>2. w.trades = With(put1, put2) /\ w.goneTrades = {} /\ DOMAIN w.actions = {} /\ w.goneActions = {}
  BY DEF Nothing, Empty
<1>3. NewTrade \notin DOMAIN trades /\ NewTrade + 1 \notin DOMAIN trades /\ NewTrade + 1 # NewTrade
  <2>1. NewTrade \in Nat \ {0} /\ \A t \in DOMAIN trades : t < NewTrade
    BY NewIds DEF IInv
  <2>2. DOMAIN trades \subseteq Nat
    BY Bounds DEF IInv, TypeOK
  <2> QED  BY <2>1, <2>2
<1>4. /\ DOMAIN put1 = {NewTrade} /\ DOMAIN put2 = {NewTrade + 1}
      /\ put1[NewTrade].portfolio = p /\ put2[NewTrade + 1].portfolio = p
  BY DEF One
<1> HIDE DEF put1, put2, w
<1>5. Within(p, trades, w.goneTrades, w.trades)
  BY <1>2, <1>3, <1>4 DEF Within, With
<1>6. Same(p, With(With(trades, put1), put2), LaterTrades(w))
  BY <1>2 DEF Same, Of, LaterTrades, With, Without
<1> QED  BY <1>1, <1>2, <1>5, <1>6, JudgedTrades

LEMMA RecordFits ==
    ASSUME IInv, NeverOversold, NEW p \in Portfolios, NEW day \in Days, NEW quantity \in Quantities,
           Record(p, day, quantity)
    PROVE  \E w : Answer(Web, w) /\ Fits(w)
<1> DEFINE row == Trade(p, day, "drp", quantity)
           v == [Nothing EXCEPT !.trades = One(NewTrade, row),
                                !.dividends = One(NewDividend, Dividend(p, day, NewTrade))]
           w == [Nothing EXCEPT !.dividends = One(NewDividend, Dividend(p, day, None))]
<1>1. CASE NewTrade <= MaxTrades /\ Answer(Web, v)
  <2>1. v.trades = One(NewTrade, row) /\ v.goneTrades = {} /\ DOMAIN v.actions = {} /\ v.goneActions = {}
    BY DEF Nothing, Empty
  <2>2. row \in TradeRow /\ row.portfolio = p /\ row.type \in {"buy", "drp"}
    BY DEF Trade, TradeRow
  <2>3. NewTrade \in 1 .. MaxTrades /\ NewTrade \notin DOMAIN trades
    BY <1>1, NewIds, Bounds DEF IInv
  <2> HIDE DEF v, row
  <2>4. Fits(v)
    BY <2>1, <2>2, <2>3, GainFits DEF IInv
  <2> QED  BY <1>1, <2>4
<1>2. CASE Answer(Web, w)
  <2>1. DOMAIN w.trades = {} /\ w.goneTrades = {} /\ DOMAIN w.actions = {} /\ w.goneActions = {}
    BY DEF Nothing, Empty
  <2> HIDE DEF w
  <2> QED  BY <1>2, <2>1, Untouched
<1> QED  BY <1>1, <1>2 DEF Record

LEMMA ApiDividendFits ==
    ASSUME NeverOversold, NEW c, NEW p, NEW day, ApiDividend(c, p, day)
    PROVE  \E w : Answer(c, w) /\ Fits(w)
<1> DEFINE w == [Nothing EXCEPT !.dividends = One(NewDividend, Dividend(p, day, None))]
<1>1. DOMAIN w.trades = {} /\ w.goneTrades = {} /\ DOMAIN w.actions = {} /\ w.goneActions = {}
  BY DEF Nothing, Empty
<1>2. Answer(c, w)
  BY DEF ApiDividend
<1> HIDE DEF w
<1> QED  BY <1>1, <1>2, Untouched

LEMMA PlanSkipFits ==
    ASSUME NeverOversold, NEW p, PlanSkip(p)
    PROVE  \E w : Answer(Web, w) /\ Fits(w)
<1> DEFINE w == [Nothing EXCEPT !.steps = One(NewStep, Step(p, None, "skipped"))]
<1>1. DOMAIN w.trades = {} /\ w.goneTrades = {} /\ DOMAIN w.actions = {} /\ w.goneActions = {}
  BY DEF Nothing, Empty
<1>2. Answer(Web, w)
  BY DEF PlanSkip
<1> HIDE DEF w
<1> QED  BY <1>1, <1>2, Untouched

LEMMA PlanCompleteFits ==
    ASSUME IInv, NeverOversold, NEW p \in Portfolios, NEW day \in Days, NEW quantity \in Quantities,
           PlanComplete(p, day, quantity)
    PROVE  \E w : Answer(Web, w) /\ Fits(w)
<1> DEFINE row == Trade(p, day, "buy", quantity)
           v == [Nothing EXCEPT !.trades = One(NewTrade, row),
                                !.steps = One(NewStep, Step(p, NewTrade, "done"))]
<1>1. NewTrade <= MaxTrades /\ Answer(Web, v)
  BY DEF PlanComplete
<1>2. v.trades = One(NewTrade, row) /\ v.goneTrades = {} /\ DOMAIN v.actions = {} /\ v.goneActions = {}
  BY DEF Nothing, Empty
<1>3. row \in TradeRow /\ row.portfolio = p /\ row.type \in {"buy", "drp"}
  BY DEF Trade, TradeRow
<1>4. NewTrade \in 1 .. MaxTrades /\ NewTrade \notin DOMAIN trades
  BY <1>1, NewIds, Bounds DEF IInv
<1> HIDE DEF v, row
<1>5. Fits(v)
  BY <1>2, <1>3, <1>4, GainFits DEF IInv
<1> QED  BY <1>1, <1>5

LEMMA DividendEditFits ==
    ASSUME IInv, NeverOversold, NEW d \in DOMAIN dividends, NEW day \in Days,
           NEW quantity \in Quantities, DividendEdit(d, day, quantity)
    PROVE  \E w : Answer(Web, w) /\ Fits(w)
<1> DEFINE t == dividends[d].reinvest
           p == dividends[d].portfolio
           put == IF t = None THEN Empty
                  ELSE One(t, [trades[t] EXCEPT !.day = day, !.quantity = quantity])
           candidate == One(t, Trade(p, day, "drp", quantity))
           w == [Nothing EXCEPT !.trades = put, !.dividends = One(d, [dividends[d] EXCEPT !.day = day])]
<1>1. Answer(Web, w) /\ (t # None => Covered(p, With(trades, candidate), actions))
  BY DEF DividendEdit
<1>2. w.trades = put /\ w.goneTrades = {} /\ DOMAIN w.actions = {} /\ w.goneActions = {}
  BY DEF Nothing, Empty
<1>3. CASE t = None
  <2>1. DOMAIN w.trades = {}
    BY <1>2, <1>3 DEF Empty
  <2> HIDE DEF w, put
  <2> QED  BY <1>1, <1>2, <2>1, Untouched
<1>4. CASE t # None
  <2>1. t \in DOMAIN trades /\ trades[t] \in TradeRow /\ trades[t].portfolio = p /\ trades[t].type = "drp"
    BY <1>4 DEF IInv, TypeOK, PairWhole
  <2>2. ASSUME NEW x \in TradeRow, x.portfolio = p, x.type = "drp"
        PROVE  [x EXCEPT !.day = day, !.quantity = quantity] = Trade(p, day, "drp", quantity)
    <3> DEFINE y == [x EXCEPT !.day = day, !.quantity = quantity]
    <3>1. y \in TradeRow /\ y.portfolio = x.portfolio /\ y.day = day /\ y.type = x.type
          /\ y.quantity = quantity
      BY DEF TradeRow
    <3> HIDE DEF y
    <3>2. y = [portfolio |-> p, day |-> day, type |-> "drp", quantity |-> quantity]
      BY <2>2, <3>1 DEF TradeRow
    <3> QED  BY <3>2 DEF y, Trade
  <2>3. put = candidate
    BY <1>4, <2>1, <2>2
  <2>4. DOMAIN candidate = {t} /\ candidate[t].portfolio = p
    BY DEF One, Trade
  <2> HIDE DEF w, put, candidate, p, t
  <2>5. Within(p, trades, w.goneTrades, w.trades)
    BY <1>2, <2>1, <2>3, <2>4 DEF Within
  <2>6. Same(p, With(trades, candidate), LaterTrades(w))
    BY <1>2, <2>3 DEF Same, Of, LaterTrades, With, Without
  <2> QED  BY <1>1, <1>2, <1>4, <2>5, <2>6, JudgedTrades
<1> QED  BY <1>3, <1>4

LEMMA DividendDeleteFits ==
    ASSUME IInv, NeverOversold, NEW d \in DOMAIN dividends, DividendDelete(d)
    PROVE  \E w : Answer(Web, w) /\ Fits(w)
<1> DEFINE p == dividends[d].portfolio
           gone == {dividends[d].reinvest} \ {None}
           w == [Nothing EXCEPT !.goneDividends = {d}, !.goneTrades = gone, !.steps = Released(p, gone)]
<1>1. Answer(Web, w) /\ (gone # {} => Covered(p, Without(trades, gone), actions))
  BY DEF DividendDelete
<1>2. DOMAIN w.trades = {} /\ w.goneTrades = gone /\ DOMAIN w.actions = {} /\ w.goneActions = {}
  BY DEF Nothing, Empty
<1>3. \A t \in gone : t \in DOMAIN trades /\ trades[t].portfolio = p
  BY DEF IInv, PairWhole
<1> HIDE DEF w, gone, p
<1>4. CASE gone = {}
  BY <1>1, <1>2, <1>4, Untouched
<1>5. CASE gone # {}
  <2>1. Within(p, trades, w.goneTrades, w.trades)
    BY <1>2, <1>3 DEF Within
  <2>2. Same(p, Without(trades, gone), LaterTrades(w))
    BY <1>2 DEF Same, Of, LaterTrades, With, Without
  <2> QED  BY <1>1, <1>2, <1>5, <2>1, <2>2, JudgedTrades
<1> QED  BY <1>4, <1>5

LEMMA DeleteTradesFits ==
    ASSUME NeverOversold, NEW p, DeleteTrades(p)
    PROVE  \E w : Answer(Web, w) /\ Fits(w)
<1> DEFINE w == [Nothing EXCEPT !.goneTrades = Of(p, trades), !.goneDividends = Of(p, dividends),
                                !.goneActions = Of(p, actions), !.steps = Released(p, Of(p, trades))]
<1>1. Answer(Web, w)
  BY DEF DeleteTrades
<1>2. /\ DOMAIN w.trades = {} /\ w.goneTrades = Of(p, trades)
      /\ DOMAIN w.actions = {} /\ w.goneActions = Of(p, actions)
  BY DEF Nothing, Empty
<1> HIDE DEF w
<1>3. Within(p, trades, w.goneTrades, w.trades) /\ Within(p, actions, w.goneActions, w.actions)
  BY <1>2 DEF Within, Of
<1>4. Of(p, LaterTrades(w)) = {} /\ Of(p, LaterActions(w)) = {}
  BY <1>2 DEF Of, LaterTrades, LaterActions, With, Without
<1>5. Rows(p, LaterTrades(w), LaterActions(w)) = {}
  BY <1>4, RowsAre
<1>6. Covered(p, LaterTrades(w), LaterActions(w))
  BY <1>5, CoveredIs DEF Walks
<1> QED  BY <1>1, <1>3, <1>6, Judged

LEMMA ActionDeleteFits ==
    ASSUME NeverOversold, NEW a \in DOMAIN actions, ActionDelete(a)
    PROVE  \E w : Answer(Web, w) /\ Fits(w)
<1> DEFINE p == actions[a].portfolio
           w == [Nothing EXCEPT !.goneActions = {a}]
<1>1. Answer(Web, w) /\ Covered(p, trades, Without(actions, {a}))
  BY DEF ActionDelete
<1>2. DOMAIN w.trades = {} /\ w.goneTrades = {} /\ DOMAIN w.actions = {} /\ w.goneActions = {a}
  BY DEF Nothing, Empty
<1>3. actions[a].portfolio = p
  OBVIOUS
<1> HIDE DEF w, p
<1>4. Within(p, trades, w.goneTrades, w.trades) /\ Within(p, actions, w.goneActions, w.actions)
  BY <1>2, <1>3 DEF Within
<1>5. Same(p, trades, LaterTrades(w)) /\ Same(p, Without(actions, {a}), LaterActions(w))
  BY <1>2 DEF Same, Of, LaterTrades, LaterActions, With, Without
<1>6. Covered(p, LaterTrades(w), LaterActions(w))
  BY <1>1, <1>5, SameRows
<1> QED  BY <1>1, <1>4, <1>6, Judged

LEMMA ActionEditFits ==
    ASSUME NeverOversold, NEW a \in DOMAIN actions, NEW day, NEW ratio, ActionEdit(a, day, ratio)
    PROVE  \E w : Answer(Web, w) /\ Fits(w)
<1> DEFINE p == actions[a].portfolio
           put == One(a, Action(p, day, ratio))
           w == [Nothing EXCEPT !.actions = put]
<1>1. Answer(Web, w) /\ Covered(p, trades, With(Without(actions, {a}), put))
  BY DEF ActionEdit, ActionStands, Action
<1>2. DOMAIN w.trades = {} /\ w.goneTrades = {} /\ w.actions = put /\ w.goneActions = {}
  BY DEF Nothing, Empty
<1>3. DOMAIN put = {a} /\ put[a].portfolio = p /\ actions[a].portfolio = p
  BY DEF One, Action
<1> HIDE DEF w, p, put
<1>4. Within(p, trades, w.goneTrades, w.trades) /\ Within(p, actions, w.goneActions, w.actions)
  BY <1>2, <1>3 DEF Within
<1>5. Same(p, trades, LaterTrades(w))
  BY <1>2 DEF Same, Of, LaterTrades, With, Without
<1>6. Same(p, With(Without(actions, {a}), put), LaterActions(w))
  BY <1>2, <1>3 DEF Same, Of, LaterActions, With, Without
<1>7. Covered(p, LaterTrades(w), LaterActions(w))
  BY <1>1, <1>5, <1>6, SameRows
<1> QED  BY <1>1, <1>4, <1>7, Judged

\* The rows with one more corporate action.
LEMMA ActionAdded ==
    ASSUME NEW p, NEW ts, NEW as, NEW i, i \notin DOMAIN as, NEW action, action.portfolio = p
    PROVE  Rows(p, ts, With(as, One(i, action)))
             = Rows(p, ts, as) \cup {ActionRowOf(One(i, action), i)}
<1> DEFINE more == With(as, One(i, action))
<1>1. /\ DOMAIN more = DOMAIN as \cup {i} /\ more[i] = action
      /\ \A x \in DOMAIN as : more[x] = as[x]
  BY DEF With, One
<1>2. One(i, action)[i] = action
  BY DEF One
<1> HIDE DEF more
<1>3. Of(p, more) = Of(p, as) \cup {i}
  BY <1>1 DEF Of
<1>4. \A x \in Of(p, as) : ActionRowOf(more, x) = ActionRowOf(as, x)
  BY <1>1 DEF Of, ActionRowOf
<1>5. ActionRowOf(more, i) = ActionRowOf(One(i, action), i)
  BY <1>1, <1>2 DEF ActionRowOf
<1>6. {ActionRowOf(more, x) : x \in Of(p, more)}
        = {ActionRowOf(as, x) : x \in Of(p, as)} \cup {ActionRowOf(One(i, action), i)}
  <2> DEFINE old(x) == ActionRowOf(as, x)
             new(x) == ActionRowOf(more, x)
             row == ActionRowOf(One(i, action), i)
             O == Of(p, as)
             N == Of(p, more)
  <2>1. N = O \cup {i} /\ (\A x \in O : new(x) = old(x)) /\ new(i) = row
    BY <1>3, <1>4, <1>5
  <2> HIDE DEF old, new, row, O, N
  <2>2. \A x \in N : new(x) \in {old(y) : y \in O} \cup {row}
    BY <2>1
  <2>3. (\A x \in O : old(x) \in {new(y) : y \in N}) /\ row \in {new(y) : y \in N}
    BY <2>1
  <2>4. {new(x) : x \in N} = {old(x) : x \in O} \cup {row}
    BY <2>2, <2>3
  <2> QED  BY <2>4 DEF old, new, row, O, N
<1>7. Rows(p, ts, more) = Rows(p, ts, as) \cup {ActionRowOf(One(i, action), i)}
  BY <1>6, RowsAre
<1> QED  BY <1>7 DEF more

\* A new action is judged before it has an id, as if first of its day: here it is the
\* only one of its day.
LEMMA ActionNewFits ==
    ASSUME IInv, NeverOversold, NEW p \in Portfolios, NEW day \in Days, NEW ratio \in Ratios,
           ActionNew(p, day, ratio), \A x \in Of(p, actions) : actions[x].day # day
    PROVE  \E w : Answer(Web, w) /\ Fits(w)
<1> DEFINE a == NewAction
           action == Action(p, day, ratio)
           w == [Nothing EXCEPT !.actions = One(a, action)]
<1>1. a <= MaxActions /\ Answer(Web, w) /\ Covered(p, trades, With(actions, One(0, action)))
  BY DEF ActionNew, ActionStands
<1>2. a \in 1 .. MaxActions /\ a \notin DOMAIN actions /\ 0 \notin DOMAIN actions
  <2>1. a \in Nat \ {0} /\ \A x \in DOMAIN actions : x < a
    BY NewIds DEF IInv
  <2>2. DOMAIN actions \subseteq 1 .. MaxActions
    BY DEF IInv, TypeOK
  <2> HIDE DEF a
  <2>3. 0 \notin DOMAIN actions
    BY <2>2, Bounds
  <2>4. a \in 1 .. MaxActions
    BY <1>1, <2>1, Bounds
  <2>5. a \notin DOMAIN actions
    BY <2>1
  <2> QED  BY <2>3, <2>4, <2>5
<1>3. DOMAIN w.trades = {} /\ w.goneTrades = {} /\ w.actions = One(a, action) /\ w.goneActions = {}
  BY DEF Nothing, Empty
<1>4. action \in ActionRow /\ action.portfolio = p /\ action.day = day
  <2>1. ratio[1] \in Nat \ {0} /\ ratio[2] \in Nat \ {0}
    BY LedgerAssumption
  <2> QED  BY <2>1 DEF Action, ActionRow
<1> DEFINE as0 == With(actions, One(0, action)) as1 == With(actions, One(a, action))
<1> HIDE DEF w, a, action
<1>5. Within(p, trades, w.goneTrades, w.trades) /\ Within(p, actions, w.goneActions, w.actions)
  BY <1>2, <1>3, <1>4 DEF Within, One
<1>6. Same(p, trades, LaterTrades(w))
  BY <1>3 DEF Same, Of, LaterTrades, With, Without
<1>7. as1 = LaterActions(w)
  BY <1>3 DEF LaterActions, With, Without
<1>8. TypedTrades(trades) /\ TypedActions(actions) /\ TypedActions(as0) /\ TypedActions(as1)
  <2>1. TypedTrades(trades)
    BY DEF IInv, TypeOK, TypedTrades
  <2>2. TypedActions(actions)
    BY Bounds DEF IInv, TypeOK, TypedActions
  <2>3. 0 \in 0 .. MaxActions /\ a \in 0 .. MaxActions
    BY <1>2, Bounds
  <2>4. \A i \in 0 .. MaxActions : TypedActions(With(actions, One(i, action)))
    BY <1>4, <2>2 DEF TypedActions, With, One
  <2> QED  BY <2>1, <2>2, <2>3, <2>4
<1> SUFFICES Covered(p, trades, as1)
  <2>1. Covered(p, trades, as1) <=> Covered(p, LaterTrades(w), LaterActions(w))
    BY <1>6, <1>7, SameRows DEF Same
  <2> QED  BY <1>1, <1>5, <1>7, <2>1, Judged
<1> DEFINE R == Rows(p, trades, actions)
           g == ActionRowOf(One(0, action), 0)
           h == ActionRowOf(One(a, action), a)
<1>9. Rows(p, trades, as0) = R \cup {g} /\ Rows(p, trades, as1) = R \cup {h}
  BY <1>2, <1>4, ActionAdded
<1>10. Line(R \cup {g}) /\ Line(R \cup {h}) /\ Walks(R \cup {g})
  <2>1. Line(Rows(p, trades, as0)) /\ Line(Rows(p, trades, as1))
    BY <1>8, RowsLine
  <2>2. Walks(Rows(p, trades, as0))
    BY <1>1, CoveredIs
  <2> QED  BY <1>9, <2>1, <2>2
<1>11. /\ g.id = 0 /\ g.isTrade = FALSE /\ g.day = day
       /\ h.id = a /\ h.isTrade = FALSE /\ h.day = day /\ g.ratio = h.ratio
  BY <1>4 DEF ActionRowOf, One
<1>12. \A s \in R : ~s.isTrade => s.id \in Of(p, actions) /\ s.day = actions[s.id].day
  <2>1. \A i \in Of(p, trades) : TradeRowOf(trades, i).isTrade
    BY DEF TradeRowOf
  <2>2. \A i \in Of(p, actions) : ActionRowOf(actions, i).id = i
                                  /\ ActionRowOf(actions, i).day = actions[i].day
    BY DEF ActionRowOf
  <2> QED  BY <2>1, <2>2, RowsAre
<1>13. \A s \in R : ~s.isTrade => s.day # day
  BY <1>12
<1>14. g \notin R /\ h \notin R
  BY <1>11, <1>13
<1>15. R \cup {g, h} \subseteq RowSet
  BY <1>10 DEF Line
<1>16. Alike(g, h, R)
  <2>1. \A u \in Int : After(u, g) = After(u, h)
    BY <1>11 DEF After
  <2>2. ASSUME NEW s \in R
        PROVE  (Earlier(s, g) <=> Earlier(s, h)) /\ (Earlier(g, s) <=> Earlier(h, s))
    <3>1. s \in RowSet /\ g \in RowSet /\ h \in RowSet
      BY <1>15
    <3> HIDE DEF R, g, h
    <3>2. Moment(s) \in Nat /\ Moment(g) \in Nat /\ Moment(h) \in Nat
      BY <3>1, MomentType
    <3>3. s.day \in Nat /\ day \in Nat /\ s.isTrade \in BOOLEAN
      BY <3>1, LedgerAssumption DEF RowSet
    <3>4. CASE s.day < day
      <4>1. Earlier(s, g) /\ Earlier(s, h)
        BY <1>11, <3>1, <3>4, MomentOrder
      <4> QED  BY <3>2, <4>1 DEF Earlier
    <3>5. CASE day < s.day \/ day = s.day
      <4>1. Earlier(g, s) /\ Earlier(h, s)
        BY <1>11, <1>13, <3>1, <3>5, MomentOrder
      <4> QED  BY <3>2, <4>1 DEF Earlier
    <3> QED  BY <3>3, <3>4, <3>5
  <2> QED  BY <2>1, <2>2 DEF Alike
<1> HIDE DEF R, g, h
<1>17. Walks(R \cup {h})
  BY <1>10, <1>14, <1>16, AlikeWalks
<1> QED  BY <1>9, <1>17, CoveredIs

\* A move is judged where it leaves and where it arrives.
LEMMA MoveFits ==
    ASSUME IInv, NeverOversold, NEW p \in Portfolios, NEW target \in Portfolios,
           NEW tickedTrades \in SUBSET Of(p, trades),
           NEW tickedDividends \in SUBSET Of(p, dividends),
           Move(p, target, tickedTrades, tickedDividends)
    PROVE  \E w : Answer(Web, w) /\ Fits(w)
<1> DEFINE ts == CoupledTrades(tickedTrades, tickedDividends)
           ds == CoupledDividends(tickedTrades, tickedDividends)
           moved == perform(trades, ts, target)
           w == [Nothing EXCEPT !.trades = moved, !.dividends = perform(dividends, ds, target),
                                !.steps = ReleasedForMove(p, ts)]
<1>1. /\ Answer(Web, w) /\ target # p
      /\ Covered(p, Without(trades, ts), actions) /\ Covered(target, With(trades, moved), actions)
  BY DEF Move, SourceStands, TargetStands
<1>2. w.trades = moved /\ w.goneTrades = {} /\ DOMAIN w.actions = {} /\ w.goneActions = {}
  BY DEF Nothing, Empty
<1>3. \A t \in ts : t \in DOMAIN trades /\ trades[t].portfolio = p
  BY DEF CoupledTrades, Of, IInv, PairWhole
<1>4. DOMAIN moved = ts /\ \A t \in ts : moved[t].portfolio = target
  <2>1. \A t \in ts : trades[t] \in TradeRow
    BY <1>3 DEF IInv, TypeOK
  <2> HIDE DEF ts
  <2> QED  BY <2>1 DEF perform, TradeRow
<1> HIDE DEF w, ts, ds, moved
<1> DEFINE later == LaterTrades(w)
<1>5. /\ DOMAIN later = DOMAIN trades \cup ts
      /\ \A x \in ts : later[x] = moved[x]
      /\ \A x \in DOMAIN trades \ ts : later[x] = trades[x]
  BY <1>2, <1>4 DEF LaterTrades, With, Without
<1>6. \A q : Same(q, actions, LaterActions(w))
  BY <1>2 DEF LaterActions, Same, Of, With, Without
<1> HIDE DEF later
<1>7. Covered(p, later, LaterActions(w))
  <2>1. DOMAIN Without(trades, ts) = DOMAIN trades \ ts
        /\ \A x \in DOMAIN trades \ ts : Without(trades, ts)[x] = trades[x]
    BY DEF Without
  <2>2. Of(p, Without(trades, ts)) = Of(p, later)
    BY <1>1, <1>4, <1>5, <2>1 DEF Of
  <2>3. \A i \in Of(p, Without(trades, ts)) : Without(trades, ts)[i] = later[i]
    BY <1>5, <2>1 DEF Of
  <2> QED  BY <1>1, <1>6, <2>2, <2>3, SameRows DEF Same
<1>8. Covered(target, later, LaterActions(w))
  <2>1. With(trades, moved) = later
    BY <1>2 DEF later, LaterTrades, With, Without
  <2> QED  BY <1>1, <1>6, <2>1, SameRows DEF Same
<1>9. ASSUME NEW q \in Portfolios, q # p, q # target
      PROVE  Covered(q, later, LaterActions(w))
  <2>1. Of(q, trades) = Of(q, later)
    BY <1>3, <1>4, <1>5, <1>9 DEF Of
  <2>2. \A i \in Of(q, trades) : trades[i] = later[i]
    BY <1>3, <1>5, <1>9 DEF Of
  <2>3. Covered(q, trades, actions)
    BY DEF NeverOversold
  <2> QED  BY <1>6, <2>1, <2>2, <2>3, SameRows DEF Same
<1>10. Fits(w)
  BY <1>7, <1>8, <1>9 DEF Fits, later
<1> QED  BY <1>1, <1>10

-----------------------------------------------------------------------------
(***************************************************************************)
(* On SQLite one request at most is under way, and what it is about to     *)
(* save oversells nothing.                                                 *)
(***************************************************************************)
PendingFits ==
    \A c \in Credentials : pending[c] # None =>
        Fits(pending[c]) /\ \A e \in Credentials \ {c} : pending[e] = None

Fitting == NeverOversold /\ PendingFits

LEMMA FittingAnswer ==
    ASSUME Serialised, TypeOK, Fitting, NEW c \in Credentials, \E w : Answer(c, w) /\ Fits(w)
    PROVE  Fitting'
<1>1. PICK w : Answer(c, w) /\ Fits(w)
  OBVIOUS
<1>2. /\ \A e \in Credentials : pending[e] = None
      /\ pending' = [pending EXCEPT ![c] = w] /\ DOMAIN pending = Credentials
      /\ trades' = trades /\ actions' = actions
  BY <1>1 DEF Answer, TypeOK, tables
<1>3. NeverOversold'
  BY <1>2 DEF Fitting, NeverOversold
<1>4. Fits(w)'
  BY <1>1, <1>2 DEF Fits, LaterTrades, LaterActions
<1>5. pending'[c] = w /\ \A e \in Credentials \ {c} : pending'[e] = None
  BY <1>2
<1>6. PendingFits'
  <2> SUFFICES ASSUME NEW d \in Credentials, pending'[d] # None
               PROVE  Fits(pending[d])' /\ \A e \in Credentials \ {d} : pending'[e] = None
    BY DEF PendingFits
  <2>1. d = c
    BY <1>5
  <2>2. Fits(pending[d])'
    BY <1>4, <1>5, <2>1
  <2> QED  BY <1>5, <2>1, <2>2
<1> QED  BY <1>3, <1>6 DEF Fitting

LEMMA FittingCommit ==
    ASSUME TypeOK, Fitting, NEW c \in Credentials, Commit(c)
    PROVE  Fitting'
<1>1. PICK w : w = pending[c]
  OBVIOUS
<1>2. /\ w # None /\ Fits(w) /\ \A e \in Credentials \ {c} : pending[e] = None
      /\ pending' = [pending EXCEPT ![c] = None] /\ DOMAIN pending = Credentials
      /\ trades' = LaterTrades(w) /\ actions' = LaterActions(w)
  BY <1>1 DEF Commit, Save, Fitting, PendingFits, TypeOK, LaterTrades, LaterActions
<1>4. NeverOversold'
  BY <1>2 DEF NeverOversold, Fits
<1>5. \A e \in Credentials : pending'[e] = None
  BY <1>2
<1>6. PendingFits'
  BY <1>5 DEF PendingFits
<1> QED  BY <1>4, <1>6 DEF Fitting

\* A new corporate action is the only one of its portfolio's day.
NewActionAlone ==
    \A p \in Portfolios, day \in Days, ratio \in Ratios :
        ActionNew(p, day, ratio) => \A a \in Of(p, actions) : actions[a].day # day

LEMMA FittingNext ==
    ASSUME Serialised, IInv, Fitting, [NewActionAlone]_vars, [Next]_vars
    PROVE  Fitting'
<1>0. NeverOversold /\ TypeOK /\ Web \in Credentials
  BY LedgerAssumption DEF Fitting, IInv
<1>8. CASE UNCHANGED vars
  <2>1. trades' = trades /\ actions' = actions /\ pending' = pending
    BY <1>8 DEF vars
  <2>2. NeverOversold' /\ PendingFits'
    BY <2>1 DEF Fitting, NeverOversold, PendingFits, Fits, LaterTrades, LaterActions
  <2> QED  BY <2>2 DEF Fitting
<1>1. CASE NewRow
  <2>1. PICK p \in Portfolios, day \in Days, quantity \in Quantities :
             \/ \E type \in {"buy", "sell"} : TradeCreate(p, day, type, quantity)
             \/ \E c \in Credentials, type \in {"buy", "sell", "drp"} :
                   ApiTrade(c, p, day, type, quantity)
             \/ \E c \in Credentials : ApiDividend(c, p, day)
             \/ Record(p, day, quantity)
             \/ PlanComplete(p, day, quantity)
             \/ \E later \in Days, types \in {"buy", "sell"} \X {"buy", "sell"} :
                   CsvCommit(p, Trade(p, day, types[1], quantity),
                                Trade(p, later, types[2], quantity))
    BY <1>1 DEF NewRow
  <2>2. \A first, second : first.portfolio = p /\ second.portfolio = p /\ CsvCommit(p, first, second)
           => \E w : Answer(Web, w) /\ Fits(w)
    BY <1>0, CsvCommitFits
  <2>3. \A d, type, q : Trade(p, d, type, q).portfolio = p
    BY DEF Trade
  <2>4. \E c \in Credentials : \E w : Answer(c, w) /\ Fits(w)
    BY <1>0, <2>1, <2>2, <2>3, AddTradeFits, ApiDividendFits, RecordFits, PlanCompleteFits
       DEF TradeCreate, ApiTrade
  <2> QED  BY <1>0, <2>4, FittingAnswer
<1>2. CASE Changed
  <2>1. \E w : Answer(Web, w) /\ Fits(w)
    BY <1>0, <1>2, TradeEditFits, DividendEditFits DEF Changed
  <2> QED  BY <1>0, <2>1, FittingAnswer
<1>3. CASE Removed
  <2>1. \E w : Answer(Web, w) /\ Fits(w)
    BY <1>0, <1>3, TradeDeleteFits, DividendDeleteFits, DeleteTradesFits DEF Removed
  <2> QED  BY <1>0, <2>1, FittingAnswer
<1>4. CASE OfActions
  <2>1. CASE NewActionAlone
    <3>1. \E w : Answer(Web, w) /\ Fits(w)
      BY <1>0, <1>4, <2>1, ActionNewFits, ActionEditFits, ActionDeleteFits
         DEF OfActions, NewActionAlone
    <3> QED  BY <1>0, <3>1, FittingAnswer
  <2> QED  BY <1>8, <2>1
<1>5. CASE Moved
  <2>1. PICK p \in Portfolios, target \in Portfolios :
             \E ts \in SUBSET movable_rows(p).trades, ds \in SUBSET movable_rows(p).dividends :
                 Move(p, target, ts, ds)
    BY <1>5 DEF Moved
  <2>2. movable_rows(p).trades = Of(p, trades) /\ movable_rows(p).dividends \subseteq Of(p, dividends)
    BY DEF movable_rows
  <2>3. PICK ts \in SUBSET Of(p, trades), ds \in SUBSET Of(p, dividends) : Move(p, target, ts, ds)
    BY <2>1, <2>2
  <2>4. \E w : Answer(Web, w) /\ Fits(w)
    BY <1>0, <2>3, MoveFits
  <2> QED  BY <1>0, <2>4, FittingAnswer
<1>6. ASSUME NEW p \in Portfolios, PlanSkip(p)
      PROVE  Fitting'
  BY <1>0, <1>6, PlanSkipFits, FittingAnswer
<1>7. ASSUME NEW c \in Credentials, Commit(c)
      PROVE  Fitting'
  BY <1>0, <1>7, FittingCommit
<1> QED  BY <1>1, <1>2, <1>3, <1>4, <1>5, <1>6, <1>7, <1>8 DEF Next

\* On SQLite no timeline ever sells more than it holds, whatever the requests and their
\* order, as long as no new action joins another of its day: each handler's own check
\* (_breach, and moves.py's two), and none at all for a buy of the plan or a statement's
\* reinvested units, is enough.  _action_from's check of an action that joins another is
\* made at another place of the day than the one it is saved in, and is not enough.
THEOREM NothingOversold ==
    ASSUME Serialised
    PROVE  Spec /\ [][NewActionAlone]_vars => []NeverOversold
<1>1. Init => Fitting
  <2> SUFFICES ASSUME Init PROVE Fitting
    OBVIOUS
  <2>1. /\ DOMAIN trades = {} /\ DOMAIN actions = {} /\ \A c \in Credentials : pending[c] = None
    BY DEF Init, Empty
  <2>2. \A p : Of(p, trades) = {} /\ Of(p, actions) = {}
    BY <2>1 DEF Of
  <2>3. \A p : Rows(p, trades, actions) = {}
    BY <2>2, RowsAre
  <2>4. NeverOversold
    BY <2>3, CoveredIs DEF NeverOversold, Walks
  <2> QED  BY <2>1, <2>4 DEF Fitting, PendingFits
<1>2. IInv /\ Fitting /\ [NewActionAlone]_vars /\ [Next]_vars => Fitting'
  BY FittingNext
<1>3. Fitting => NeverOversold
  BY DEF Fitting
<1> QED  BY <1>1, <1>2, <1>3, Invariant, PTL DEF Spec

-----------------------------------------------------------------------------
(***************************************************************************)
(* The move dialog.  The row at which a walk first goes short is a sell,   *)
(* so it is nobody's pair; each round pulls one in, and there are no more  *)
(* rounds to go than rows.                                                 *)
(***************************************************************************)
LEMMA FirstShort ==
    ASSUME NEW R, Line(R), NEW r \in R, UnitsThrough(Through(R, r)) < 0,
           \A s \in R : UnitsThrough(Through(R, s)) < 0 => ~Earlier(s, r)
    PROVE  r.isTrade /\ ~r.gain
<1> DEFINE T == Through(R, r) Q == T \ {r}
<1>1. Line(T) /\ Line(Q) /\ Q \in SUBSET R
  <2>1. T \in SUBSET R /\ Q \in SUBSET R
    BY DEF Through
  <2> QED  BY <2>1, PartIsLine
<1>2. r \in RowSet /\ \A s \in R : Moment(s) \in Nat
  BY MomentType DEF Line
<1>3. IsLast(T, r)
  <2>1. r \in T
    BY <1>2 DEF Through, Earlier
  <2>2. \A s \in T \ {r} : Earlier(s, r)
    BY <1>2 DEF Through, Earlier, Line
  <2> QED  BY <2>1, <2>2 DEF IsLast
<1>4. T # {} /\ Last(T) = r
  BY <1>1, <1>3, OneLast DEF IsLast
<1>5. UnitsThrough(T) = After(UnitsThrough(Q), r)
  BY <1>1, <1>4, Unfold
<1>6. UnitsThrough(Q) \in Int
  BY <1>1, ThroughType
<1>7. UnitsThrough(Q) >= 0
  <2>1. CASE Q = {}
    BY <2>1, NothingHeld
  <2>2. CASE Q # {}
    <3> DEFINE l == Last(Q)
    <3>1. IsLast(Q, l)
      BY <1>1, <2>2, LastIs
    <3> HIDE DEF l
    <3>2. l \in R /\ Earlier(l, r) /\ l # r
      BY <1>1, <1>3, <3>1 DEF IsLast
    <3>3. \A x \in Q : x \in Through(R, l)
      BY <1>1, <1>2, <3>1, <3>2 DEF IsLast, Through, Earlier
    <3>4. \A x \in Through(R, l) : x \in Q
      BY <1>2, <3>2 DEF Through, Earlier
    <3>5. Through(R, l) = Q
      BY <3>3, <3>4, <1>1 DEF Through
    <3> QED  BY <1>6, <3>2, <3>5
  <2> QED  BY <2>1, <2>2
<1> HIDE DEF T, Q
<1>8. ~(After(UnitsThrough(Q), r) >= 0)
  <2>1. After(UnitsThrough(Q), r) \in Int
    BY <1>2, <1>6, AfterIs
  <2>2. After(UnitsThrough(Q), r) < 0
    BY <1>5 DEF T
  <2> QED  BY <2>1, <2>2
<1> QED  BY <1>2, <1>6, <1>7, <1>8, AfterIs

LEMMA NoBreach ==
    ASSUME NEW p, NEW ts, Line(Rows(p, ts, actions)), Breach(p, ts) = {}
    PROVE  Covered(p, ts, actions)
<1> DEFINE R == Rows(p, ts, actions)
           short == {r \in R : UnitsThrough(Through(R, r)) < 0}
<1>1. Breach(p, ts) = {r \in short : \A s \in short : ~Earlier(s, r)}
  BY DEF Breach, Through
<1>2. \A r \in R : Moment(r) \in Nat /\ UnitsThrough(Through(R, r)) \in Int
  BY MomentType, ThroughLine DEF Line
<1>3. short \subseteq R
  OBVIOUS
<1>4. \A r \in R : ~(UnitsThrough(Through(R, r)) >= 0) => r \in short
  BY <1>2
<1> HIDE DEF short, R
<1>5. short = {}
  <2> SUFFICES ASSUME short # {} PROVE FALSE
    OBVIOUS
  <2> DEFINE moments == {Moment(r) : r \in short}
  <2>1. moments \in SUBSET Nat /\ moments # {}
    BY <1>2, <1>3
  <2>2. PICK m \in moments : \A n \in moments : m <= n
    BY <2>1, LeastNat
  <2>3. PICK r \in short : m = Moment(r)
    OBVIOUS
  <2>4. \A s \in short : Moment(r) <= Moment(s)
    BY <2>2, <2>3
  <2>5. \A s \in short : ~Earlier(s, r)
    BY <1>2, <1>3, <2>4 DEF Earlier
  <2> QED  BY <1>1, <2>5
<1>6. Walks(R)
  BY <1>4, <1>5 DEF Walks
<1> QED  BY <1>6, CoveredIs DEF R

\* What stays when M leaves is a timeline.
LEMMA StaysLine ==
    ASSUME TypeOK, NEW p, NEW M
    PROVE  Line(Rows(p, Without(trades, M), actions))
<1>1. TypedTrades(Without(trades, M))
  BY DEF TypeOK, TypedTrades, Without
<1>2. TypedActions(actions)
  BY Bounds DEF TypeOK, TypedActions
<1> QED  BY <1>1, <1>2, RowsLine

LEMMA BreachIs ==
    ASSUME TypeOK, NEW p, NEW M, NEW r \in Breach(p, Without(trades, M))
    PROVE  r.id \in Of(p, trades) \ M /\ trades[r.id].type = "sell"
<1> DEFINE ts == Without(trades, M) R == Rows(p, ts, actions)
<1>0. DOMAIN ts = DOMAIN trades \ M /\ \A x \in DOMAIN ts : ts[x] = trades[x]
  BY DEF Without
<1>1. Line(R)
  BY StaysLine
<1>2. /\ r \in R /\ UnitsThrough(Through(R, r)) < 0
      /\ \A s \in R : UnitsThrough(Through(R, s)) < 0 => ~Earlier(s, r)
  BY DEF Breach, Through
<1> HIDE DEF ts, R
<1>3. r.isTrade /\ ~r.gain
  BY <1>1, <1>2, FirstShort
<1>4. \A i \in Of(p, actions) : ActionRowOf(actions, i).isTrade = FALSE
  BY DEF ActionRowOf
<1>5. PICK i \in Of(p, ts) : r = TradeRowOf(ts, i)
  BY <1>2, <1>3, <1>4, RowsAre DEF R
<1>6. r.id = i /\ r.gain = (ts[i].type \in {"buy", "drp"})
  BY <1>5 DEF TradeRowOf
<1>7. i \in DOMAIN trades \ M /\ trades[i].portfolio = p /\ ts[i] = trades[i]
  BY <1>0 DEF Of
<1>8. trades[i].type \in {"buy", "sell", "drp"}
  BY <1>7 DEF TypeOK, TradeRow
<1> QED  BY <1>3, <1>6, <1>7, <1>8 DEF Of

\* The rows moving, and one round of pulling in.
Pulled(p, M) == M \cup {r.id : r \in Breach(p, Without(trades, M))}

LEMMA PulledIs ==
    ASSUME TypeOK, NEW p, NEW M \in SUBSET Of(p, trades)
    PROVE  /\ Pulled(p, M) \in SUBSET Of(p, trades) /\ M \subseteq Pulled(p, M)
           /\ \A t \in Pulled(p, M) \ M : trades[t].type = "sell"
           /\ Pulled(p, M) = M => SourceStands(p, M)
<1> DEFINE B == Breach(p, Without(trades, M))
<1>1. \A r \in B : r.id \in Of(p, trades) \ M /\ trades[r.id].type = "sell"
  BY BreachIs
<1>2. Pulled(p, M) = M \cup {r.id : r \in B}
  BY DEF Pulled
<1>3. B = {} => SourceStands(p, M)
  BY StaysLine, NoBreach DEF SourceStands
<1> HIDE DEF B
<1> QED  BY <1>1, <1>2, <1>3

\* What `moving` is defined to be, up to n.
Moving(f, p, M, n) ==
    f = [k \in 0 .. n |->
            IF k = 0 THEN M
            ELSE f[k - 1] \cup {r.id : r \in Breach(p, Without(trades, f[k - 1]))}]

LEMMA MovingIs ==
    ASSUME NEW f, NEW p, NEW M, NEW n \in Nat, Moving(f, p, M, n)
    PROVE  f[0] = M /\ \A k \in 1 .. n : f[k] = Pulled(p, f[k - 1])
<1>1. \A k \in 0 .. n : f[k] = IF k = 0 THEN M ELSE Pulled(p, f[k - 1])
  BY DEF Moving, Pulled
<1>2. f[0] = M
  BY <1>1
<1>3. ASSUME NEW k \in 1 .. n
      PROVE  f[k] = Pulled(p, f[k - 1])
  <2>1. k \in 0 .. n /\ k # 0
    OBVIOUS
  <2> QED  BY <1>1, <2>1
<1> QED  BY <1>2, <1>3

LEMMA MovingExists ==
    ASSUME NEW p, NEW M, NEW n \in Nat
    PROVE  \E f : Moving(f, p, M, n)
<1> DEFINE G == {k \in Nat : \E f : Moving(f, p, M, k)}
<1>1. 0 \in G
  <2> DEFINE g == [k \in 0 .. 0 |-> M]
  <2>1. Moving(g, p, M, 0)
    BY DEF Moving
  <2> QED  BY <2>1
<1>2. ASSUME NEW k \in Nat, k \in G
      PROVE  k + 1 \in G
  <2>1. PICK f : Moving(f, p, M, k)
    BY <1>2
  <2> DEFINE g == [i \in 0 .. k + 1 |-> IF i = 0 THEN M ELSE Pulled(p, f[i - 1])]
  <2>2. \A i \in 0 .. k : f[i] = IF i = 0 THEN M ELSE Pulled(p, f[i - 1])
    BY <2>1 DEF Moving, Pulled
  <2>3. \A i \in 0 .. k : g[i] = f[i]
    <3>1. \A i \in 0 .. k : g[i] = IF i = 0 THEN M ELSE Pulled(p, f[i - 1])
      OBVIOUS
    <3> HIDE DEF g
    <3> QED  BY <2>2, <3>1
  <2>4. \A i \in 0 .. k + 1 : i # 0 => g[i - 1] = f[i - 1]
    BY <2>3
  <2>5. g = [i \in 0 .. k + 1 |-> IF i = 0 THEN M ELSE Pulled(p, g[i - 1])]
    <3>1. \A i \in 0 .. k + 1 : (IF i = 0 THEN M ELSE Pulled(p, f[i - 1]))
                                  = (IF i = 0 THEN M ELSE Pulled(p, g[i - 1]))
      BY <2>4
    <3> QED  BY <3>1, Zenon
  <2> HIDE DEF g
  <2>6. Moving(g, p, M, k + 1)
    BY <2>5 DEF Moving, Pulled
  <2>7. k + 1 \in Nat
    OBVIOUS
  <2> QED  BY <2>6, <2>7
<1> HIDE DEF G
<1>3. \A k \in 0 .. n - 1 : k \in G => k + 1 \in G
  BY <1>2
<1>4. n \in G
  BY <1>1, <1>3, UpTo
<1> QED  BY <1>4 DEF G

LEMMA ExpandIs ==
    ASSUME NEW p, NEW ts, NEW ds
    PROVE  \E f : /\ Moving(f, p, CoupledTrades(ts, ds), MaxTrades)
                  /\ expand(p, ts, ds) = f[MaxTrades]
<1> DEFINE M == CoupledTrades(ts, ds)
           f == CHOOSE h : Moving(h, p, M, MaxTrades)
<1>1. Moving(f, p, M, MaxTrades)
  BY Bounds, MovingExists
<1>2. expand(p, ts, ds) = f[MaxTrades]
  BY DEF expand, Moving
<1> QED  BY <1>1, <1>2

\* After as many rounds as there can be trades, what stays is covered.
LEMMA MovingEnds ==
    ASSUME TypeOK, NEW p, NEW M \in SUBSET Of(p, trades), NEW f, Moving(f, p, M, MaxTrades)
    PROVE  /\ f[MaxTrades] \in SUBSET Of(p, trades) /\ M \subseteq f[MaxTrades]
           /\ \A t \in f[MaxTrades] \ M : trades[t].type = "sell"
           /\ SourceStands(p, f[MaxTrades])
<1>0. /\ MaxTrades \in Nat /\ f[0] = M
      /\ \A k \in 0 .. MaxTrades - 1 : f[k + 1] = Pulled(p, f[k])
  BY Bounds, MovingIs
<1>1. /\ IsFiniteSet(1 .. MaxTrades) /\ Cardinality(1 .. MaxTrades) = MaxTrades
      /\ Of(p, trades) \subseteq 1 .. MaxTrades
  <2>1. Of(p, trades) \subseteq 1 .. MaxTrades
    BY DEF Of, TypeOK
  <2>2. /\ IsFiniteSet(1 .. MaxTrades)
        /\ Cardinality(1 .. MaxTrades) = IF 1 > MaxTrades THEN 0 ELSE MaxTrades - 1 + 1
    BY <1>0, FS_Interval
  <2> DEFINE n == Cardinality(1 .. MaxTrades)
  <2>3. n = MaxTrades
    <3>1. n = IF 1 > MaxTrades THEN 0 ELSE MaxTrades - 1 + 1
      BY <2>2
    <3> HIDE DEF n
    <3> QED  BY <1>0, <3>1
  <2> QED  BY <2>1, <2>2, <2>3
<1>2. \A S \in SUBSET Of(p, trades) :
         IsFiniteSet(S) /\ Cardinality(S) \in Nat /\ Cardinality(S) <= MaxTrades
  BY <1>1, FS_Subset, FS_CardinalityType
<1> DEFINE Fine(S) == /\ S \in SUBSET Of(p, trades) /\ M \subseteq S
                      /\ \A t \in S \ M : trades[t].type = "sell"
           G == {k \in Nat : Fine(f[k]) /\ (SourceStands(p, f[k]) \/ Cardinality(f[k]) >= k)}
<1>3. 0 \in G
  BY <1>0, <1>2
<1>4. ASSUME NEW k \in 0 .. MaxTrades - 1, k \in G
      PROVE  k + 1 \in G
  <2> DEFINE S == f[k] Q == f[k + 1]
  <2>1. Fine(S) /\ (SourceStands(p, S) \/ Cardinality(S) >= k) /\ Q = Pulled(p, S)
    BY <1>0, <1>4
  <2>2. /\ Q \in SUBSET Of(p, trades) /\ S \subseteq Q /\ \A t \in Q \ S : trades[t].type = "sell"
        /\ Q = S => SourceStands(p, S)
    BY <2>1, PulledIs
  <2>3. k \in Nat /\ k + 1 \in Nat
    OBVIOUS
  <2>4. Fine(Q)
    BY <2>1, <2>2
  <2>5. CASE Q = S
    BY <2>2, <2>3, <2>4, <2>5
  <2>6. CASE Q # S /\ Cardinality(S) >= k
    <3>1. IsFiniteSet(Q) /\ IsFiniteSet(S) /\ Cardinality(Q) \in Nat /\ Cardinality(S) \in Nat
      BY <1>2, <2>1, <2>2
    <3>2. S \in SUBSET Q
      BY <2>2
    <3> HIDE DEF S, Q
    <3>3. Cardinality(S) <= Cardinality(Q) /\ Cardinality(S) # Cardinality(Q)
      BY <2>6, <3>1, <3>2, FS_Subset
    <3>4. Cardinality(Q) >= k + 1
      BY <2>3, <2>6, <3>1, <3>3
    <3> QED  BY <2>3, <2>4, <3>4 DEF Q
  <2>7. CASE SourceStands(p, S)
    <3>1. Breach(p, Without(trades, S)) = {}
      <4> DEFINE R == Rows(p, Without(trades, S), actions)
      <4>1. Walks(R)
        BY <2>7, CoveredIs DEF SourceStands
      <4>2. \A r \in R : UnitsThrough(Through(R, r)) \in Int
        BY StaysLine, ThroughLine
      <4>3. \A r \in R : ~(UnitsThrough(Through(R, r)) < 0)
        <5> HIDE DEF R
        <5> QED  BY <4>1, <4>2 DEF Walks
      <4> QED  BY <4>3 DEF Breach, Through
    <3>2. Q = S
      BY <2>1, <3>1 DEF Pulled
    <3> QED  BY <2>5, <3>2
  <2> QED  BY <2>1, <2>5, <2>6, <2>7
<1> HIDE DEF G
<1>5. MaxTrades \in G
  BY <1>0, <1>3, <1>4, UpTo
<1> DEFINE S == f[MaxTrades]
<1>6. Fine(S) /\ (SourceStands(p, S) \/ Cardinality(S) >= MaxTrades)
  BY <1>5 DEF G
<1>7. CASE Cardinality(S) >= MaxTrades
  <2>1. S \in SUBSET (1 .. MaxTrades) /\ Cardinality(S) <= MaxTrades /\ Cardinality(S) \in Nat
    BY <1>1, <1>2, <1>6
  <2> HIDE DEF S
  <2>2. Cardinality(S) = Cardinality(1 .. MaxTrades)
    BY <1>0, <1>1, <1>7, <2>1
  <2>3. S = 1 .. MaxTrades
    BY <1>1, <2>1, <2>2, FS_Subset
  <2>4. S \in SUBSET Of(p, trades)
    BY <1>6
  <2>5. Pulled(p, S) \in SUBSET Of(p, trades) /\ S \subseteq Pulled(p, S)
    BY <2>4, PulledIs
  <2>6. Pulled(p, S) = S
    BY <1>1, <2>3, <2>5
  <2>7. SourceStands(p, S)
    BY <2>4, <2>6, PulledIs
  <2> QED  BY <1>6, <2>7 DEF S
<1> QED  BY <1>6, <1>7

LEMMA PairsGiveDialog ==
    ASSUME TypeOK, PairWhole
    PROVE  DialogComplete
<1> SUFFICES ASSUME NEW p \in Portfolios, NEW ts \in SUBSET movable_rows(p).trades,
                    NEW ds \in SUBSET movable_rows(p).dividends
             PROVE  /\ SourceStands(p, expand(p, ts, ds))
                    /\ CoupledTrades(expand(p, ts, ds), CoupledDividends(ts, ds)) = expand(p, ts, ds)
                    /\ CoupledDividends(expand(p, ts, ds), CoupledDividends(ts, ds))
                         = CoupledDividends(ts, ds)
  BY DEF DialogComplete
<1> DEFINE M == CoupledTrades(ts, ds) C == CoupledDividends(ts, ds)
<1>1. /\ ts \subseteq Of(p, trades) /\ ds \subseteq DOMAIN dividends
      /\ \A d \in ds : dividends[d].reinvest # None => dividends[d].reinvest \in Of(p, trades)
  BY DEF movable_rows, Of
<1>2. M \in SUBSET Of(p, trades)
  BY <1>1 DEF CoupledTrades
<1>3. PICK f : Moving(f, p, M, MaxTrades) /\ expand(p, ts, ds) = f[MaxTrades]
  BY ExpandIs
<1> DEFINE S == f[MaxTrades]
<1>4. /\ S \in SUBSET Of(p, trades) /\ M \subseteq S
      /\ \A t \in S \ M : trades[t].type = "sell"
      /\ SourceStands(p, S)
  BY <1>2, <1>3, MovingEnds
<1> HIDE DEF S
<1>5. None \notin S
  <2>1. S \subseteq 1 .. MaxTrades
    BY <1>4 DEF Of, TypeOK
  <2>2. 1 .. MaxTrades \subseteq Nat /\ None \notin Nat
    BY Bounds, LedgerAssumption
  <2> QED  BY <2>1, <2>2
<1>6. \A d \in C : dividends[d].reinvest # None => dividends[d].reinvest \in S
  BY <1>4 DEF CoupledTrades, CoupledDividends
<1>7. CoupledTrades(S, C) = S
  BY <1>6 DEF CoupledTrades
<1>8. ASSUME NEW d \in DOMAIN dividends, dividends[d].reinvest \in S
      PROVE  d \in C
  <2> DEFINE t == dividends[d].reinvest
  <2>1. /\ t # None /\ trades[t].type = "drp"
        /\ \A e \in DOMAIN dividends : dividends[e].reinvest = t => e = d
    BY <1>5, <1>8 DEF PairWhole
  <2>2. t \in M
    BY <1>4, <1>8, <2>1
  <2>3. CASE t \in ts
    BY <2>3 DEF CoupledDividends
  <2>4. CASE t \notin ts
    <3>1. PICK e \in ds : dividends[e].reinvest = t
      BY <2>2, <2>4 DEF CoupledTrades
    <3>2. e = d
      BY <1>1, <2>1, <3>1
    <3> QED  BY <3>2 DEF CoupledDividends
  <2> QED  BY <2>3, <2>4
<1>9. CoupledDividends(S, C) = C
  BY <1>8 DEF CoupledDividends
<1> QED  BY <1>3, <1>4, <1>7, <1>9 DEF S

\* Whatever is ticked, what the move dialog pre-ticks can be moved as it stands, on
\* SQLite and on Postgres: the rows `expand` pulls in leave the source covered, and
\* none of them belongs to a pair, so coupling once, before, is enough.
THEOREM DialogsAreComplete == Spec => []DialogComplete
<1>1. IInv => DialogComplete
  BY PairsGiveDialog DEF IInv
<1> QED  BY <1>1, Invariant, PTL

===============================================================================
