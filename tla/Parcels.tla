------------------------------- MODULE Parcels -------------------------------
(***************************************************************************)
(* The FIFO parcel engine of src/app/fyreport.py (`walk`, `_Parcel`,       *)
(* `_Share`, `_deem`, `_act`), fed one instrument's timeline a row at a    *)
(* time, beside the running balance of src/app/queries.py (`_walk`), which *)
(* is what the write paths check a ledger with.                            *)
(*                                                                         *)
(* Units are whole multiples of queries.UNIT.  Money is in grains, Grain   *)
(* of them to the cent: a parcel's cost is exact and finer than a cent,    *)
(* what is billed from it is whole cents.  A row arrives already converted *)
(* to AUD, or with no exchange rate (`known` FALSE), when the code carries *)
(* None instead of a figure.  Each loop of the code over the parcels is a  *)
(* loop of steps here, one parcel each; nothing else runs between them.    *)
(***************************************************************************)
EXTENDS Units, Sequences, SequencesExt

CONSTANTS
    Quantities,     \* units a buy or a sell may be of
    Costs,          \* AUD outlay of a buy, in grains
    Nets,           \* AUD proceeds of a sell after brokerage, in cents
    Changes,        \* AUD moved by a capital return (< 0) or an AMIT adjustment
    Ratios,         \* <<new, old>> of a split or a consolidation
    Prices,         \* AUD a unit may be worth just before 1 July 2027, in grains
    RateKnown,      \* whether rows carry an exchange rate: a subset of BOOLEAN
    LastDay,        \* bound: days are 1 .. LastDay
    NewRules,       \* the day that stands for 1 July 2027
    MaxRows,        \* bound: rows in the timeline
    Grain           \* grains to the cent

ASSUME ParcelsAssumption ==
    /\ Quantities \subseteq Nat \ {0}
    /\ Costs \subseteq Nat
    /\ Nets \subseteq Int
    /\ Changes \subseteq Int \ {0}
    /\ Ratios \subseteq (Nat \ {0}) \X (Nat \ {0})
    /\ Prices \subseteq Nat
    /\ RateKnown \subseteq BOOLEAN
    /\ LastDay \in Nat /\ NewRules \in Nat /\ MaxRows \in Nat
    /\ Grain \in Nat \ {0}

VARIABLES
    day,        \* the day the walk has reached
    traded,     \* whether a trade of that day has been walked: actions precede trades
    rows,       \* how many rows have been walked; a buy's number is its parcel's id
    row,        \* the row being walked
    balance,    \* queries._walk: the running balance after `row`
    fifo,       \* walk: the parcels holding units, oldest first
    deemed,     \* walk: whether 1 July 2027 has been reached
    job,        \* the loop in progress and its locals
    uses,       \* ParcelUse records `row` has produced: parcels sold from, or gains
    book        \* history: grains that went in and came out, for CostConserved

vars == <<day, traded, rows, row, balance, fifo, deemed, job, uses, book>>

-----------------------------------------------------------------------------
\* n/d grains to the nearest cent, in grains.
Cents(n, d) == Grain * RoundHalfEven(n, d * Grain)

\* A mutant of Lesser: the sale takes what it wants from the head.
WantedOnly(a, b) == b

Lesser(a, b) == IF a <= b THEN a ELSE b

-----------------------------------------------------------------------------
(***************************************************************************)
(* Shares and parcels.  A share is a `_Share`, or the pair of `cost` and   *)
(* `cost_allotted` that a parcel keeps beside them; one with no rate is    *)
(* not known and bills nothing.  A parcel's shares are what was paid       *)
(* ("cost") and the three a parcel held through 30 June 2027 has besides:  *)
(* its value then, its cost base then and its cost base after.             *)
(***************************************************************************)
ShareNames == {"cost", "value", "deferred", "after"}

Share(known, total) == [known |-> known, total |-> IF known THEN total ELSE 0, allotted |-> 0]

Nil == Share(TRUE, 0)

Held(s) == s.total - s.allotted

Owed(s, consumed, quantity) ==
    IF s.known THEN Cents(s.total * consumed, quantity) ELSE 0

\* A mutant of Restart: it forgets what was billed.
RestartFromWhole(s, known, change) ==
    Share(s.known /\ known, IF s.total + change < 0 THEN 0 ELSE s.total + change)

\* _Share.restart and the same lines of _Parcel.restart: begin again from what
\* is held, moved by `change`; below nil is nil, and how far below is Beyond.
Restart(s, known, change) ==
    LET moved == Held(s) + change
    IN  Share(s.known /\ known, IF moved < 0 THEN 0 ELSE moved)

Beyond(s, known, change) ==
    LET moved == Held(s) + change
    IN  IF s.known /\ known /\ moved < 0 THEN -moved ELSE 0

NewParcel(units, known, outlay) ==
    [id |-> rows + 1, acquired |-> day, remaining |-> units, quantity |-> units,
     deemed |-> FALSE,
     share |-> [n \in ShareNames |-> IF n = "cost" THEN Share(known, outlay) ELSE Nil]]

\* The shares a parcel has: `deemed` is None until 1 July 2027 is reached.
SharesOf(p) == IF p.deemed THEN ShareNames ELSE {"cost"}

\* The cost base a sale or a reduction works on: from 1 July 2027 a deemed
\* parcel's is the one from then.
BaseName(p) == IF p.deemed THEN "after" ELSE "cost"

Base(p) == p.share[BaseName(p)]

\* _Parcel.restart: as `units`, with the cost and the cost base after moved by
\* `change`, and the deferred gain's two amounts only begun again.
RestartParcel(p, units, known, change) ==
    [p EXCEPT !.remaining = units, !.quantity = units,
              !.share = [n \in ShareNames |->
                  IF n \notin SharesOf(p) THEN p.share[n]
                  ELSE IF n \in {"cost", "after"} THEN Restart(p.share[n], known, change)
                  ELSE Restart(p.share[n], TRUE, 0)]]

\* A mutant of Take: each use of a parcel rounded on its own.
TakeRoundedAlone(p, units) ==
    [p EXCEPT !.remaining = @ - units,
              !.share = [n \in ShareNames |->
                  IF n \notin SharesOf(p) THEN p.share[n]
                  ELSE [p.share[n] EXCEPT !.allotted = @ + Owed(p.share[n], units, p.quantity)]]]

\* _Parcel.take: `units` consumed, every share billed up to what it then owes.
Take(p, units) ==
    LET left == p.remaining - units
    IN  [p EXCEPT !.remaining = left,
                  !.share = [n \in ShareNames |->
                      IF n \notin SharesOf(p) THEN p.share[n]
                      ELSE [p.share[n] EXCEPT !.allotted =
                               Owed(p.share[n], p.quantity - left, p.quantity)]]]

Billed(p, taken, name) == taken.share[name].allotted - p.share[name].allotted

Joined(mine, theirs, total) ==
    LET known == mine.known /\ theirs.known
    IN  [known |-> known, total |-> IF known THEN mine.total + total ELSE 0,
         allotted |-> IF known THEN mine.allotted ELSE 0]

\* _Parcel.absorb: the cost always, the 2027 amounts when both parcels have them.
Absorbed(p, other) ==
    [p EXCEPT !.share = [n \in ShareNames |->
        IF n = "cost" THEN Joined(p.share[n], other.share[n], other.share[n].total)
        ELSE IF p.deemed /\ other.deemed
             THEN Joined(p.share[n], other.share[n], Held(other.share[n]))
        ELSE p.share[n]]]

\* _deem: taken to be sold for its value just before 1 July 2027 and bought
\* again on it.
Deemed(p, known, price) ==
    LET again == RestartParcel(p, p.remaining, TRUE, 0)
        value == Share(known, p.remaining * price)
    IN  [again EXCEPT !.deemed = TRUE,
                      !.share = [cost |-> again.share["cost"], value |-> value,
                                 deferred |-> again.share["cost"], after |-> value]]

-----------------------------------------------------------------------------
(***************************************************************************)
(* Rows and jobs.                                                          *)
(***************************************************************************)
Row(kind, qty, amount, known, ratio) ==
    [kind |-> kind, qty |-> qty, amount |-> amount, known |-> known,
     new |-> ratio[1], old |-> ratio[2]]

\* A job's locals: the parcel the loop is at, the units it is shared over, the
\* units seen so far, and what they have been given so far.
Job(do, i, held, seen, given) ==
    [do |-> do, i |-> i, held |-> held, seen |-> seen, given |-> given]

Idle == Job("idle", 0, 0, 0, 0)

Init ==
    /\ day = 1 /\ traded = FALSE /\ rows = 0
    /\ row = Row("none", 0, 0, TRUE, <<1, 1>>)
    /\ balance = 0 /\ fifo = <<>> /\ job = Idle /\ uses = <<>>
    /\ deemed = (NewRules <= 1)
    /\ book = [known |-> TRUE, paid |-> 0, billed |-> 0, popped |-> 0]

\* The next row of the timeline: by day, and a day's actions before its trades.
Walk(r, after) ==
    /\ job = Idle /\ rows < MaxRows
    /\ rows' = rows + 1 /\ row' = r /\ balance' = after /\ uses' = <<>>
    /\ UNCHANGED <<day, deemed>>

\* A mutant of Buy: the newest parcel goes first.
BuyFirst(units, outlay, known) ==
    /\ Walk(Row("buy", units, outlay, known, <<1, 1>>), balance + units)
    /\ traded' = TRUE
    /\ fifo' = <<NewParcel(units, known, outlay)>> \o fifo
    /\ book' = [book EXCEPT !.known = @ /\ known, !.paid = @ + outlay]
    /\ UNCHANGED job

Buy(units, outlay, known) ==
    /\ Walk(Row("buy", units, outlay, known, <<1, 1>>), balance + units)
    /\ traded' = TRUE
    /\ fifo' = Append(fifo, NewParcel(units, known, outlay))
    /\ book' = [book EXCEPT !.known = @ /\ known, !.paid = @ + outlay]
    /\ UNCHANGED job

Sell(units, net, known) ==
    /\ Walk(Row("sell", units, net * Grain, known, <<1, 1>>), balance - units)
    /\ traded' = TRUE
    /\ job' = Job("sell", 1, units, 0, 0)
    /\ UNCHANGED <<fifo, book>>

Split(new, old) ==
    /\ new # old /\ ~traded
    /\ Walk(Row("split", 0, 0, TRUE, <<new, old>>), SplitUnits(balance, new, old))
    /\ job' = Job("tally", 1, 0, 0, 0)
    /\ UNCHANGED <<traded, fifo, book>>

Adjust(change, known) ==
    /\ ~traded
    /\ Walk(Row("adjust", 0, change, known, <<1, 1>>), balance)
    /\ job' = Job("tally", 1, 0, 0, 0)
    /\ book' = [book EXCEPT !.known = @ /\ known]
    /\ UNCHANGED <<traded, fifo>>

\* The next day.  Reaching 1 July 2027 deems every parcel held, before any row
\* of that day or a later one; `row` remembers the value a unit then has.
NextDay ==
    /\ job = Idle /\ day < LastDay
    /\ day' = day + 1 /\ traded' = FALSE
    /\ UNCHANGED <<rows, balance, fifo>>
    /\ \/ /\ deemed \/ day + 1 < NewRules
          /\ UNCHANGED <<row, deemed, job, uses, book>>
       \/ /\ ~deemed /\ day + 1 >= NewRules
          /\ deemed' = TRUE /\ uses' = <<>>
          /\ job' = Job("deem", 1, 0, 0, 0)
          /\ \E known \in RateKnown, price \in Prices :
                row' = Row("deem", 0, price, known, <<1, 1>>)
          /\ UNCHANGED book

-----------------------------------------------------------------------------
(***************************************************************************)
(* The loops.                                                              *)
(***************************************************************************)
At == fifo[job.i]

\* Dividing by the quantity of a parcel of no units: decimal.InvalidOperation.
Undefined ==
    /\ job.do \in {"sell", "share", "adjust", "deem"}
    /\ job.i \in 1 .. Len(fifo)
    /\ At.quantity = 0
    /\ job.do = "sell" => \E n \in SharesOf(At) : At.share[n].known

Looping(do) == job.do = do /\ job.i \in 1 .. Len(fifo) /\ ~Undefined

Advance(given, seen) ==
    job' = [job EXCEPT !.i = @ + 1, !.seen = seen, !.given = given]

Fixed == UNCHANGED <<day, traded, rows, row, balance, deemed>>

Use(p, units, known, cost, pknown, proceeds) ==
    [id |-> p.id, units |-> units, known |-> known, cost |-> cost,
     priced |-> pknown, proceeds |-> proceeds]

\* What the sale's parcels have been given once `units` of it are matched.  The
\* mutant rounds a unit's proceeds, and multiplies.
ProceedsByUnit(units) == IF row.known THEN units * Cents(row.amount, job.held) ELSE 0

ProceedsOwed(units) == IF row.known THEN Cents(row.amount * units, job.held) ELSE 0

\* One turn of the sale loop: the head gives what it can and is billed for it,
\* and the use gets the proceeds the running total owes it.
TakeHead ==
    /\ Looping("sell") /\ job.seen < job.held
    /\ LET taking == Lesser(At.remaining, job.held - job.seen)
           taken == Take(At, taking)
           base == BaseName(At)
           owed == ProceedsOwed(job.seen + taking)
       IN  /\ uses' = Append(uses, Use(At, taking, Base(At).known, Billed(At, taken, base),
                                        row.known, owed - job.given))
           /\ job' = [job EXCEPT !.seen = @ + taking, !.given = owed]
           /\ fifo' = IF taken.remaining = 0 THEN Tail(fifo) ELSE [fifo EXCEPT ![1] = taken]
           /\ book' = [book EXCEPT !.billed = @ + Billed(At, taken, "cost"),
                                    !.popped = @ + IF taken.remaining = 0 THEN 1 ELSE 0]
    /\ Fixed

\* Covered: the Disposal is the uses.  Not covered: OversoldError, and no Disposal.
Sold ==
    /\ job.do = "sell" /\ job.seen = job.held
    /\ job' = Idle
    /\ Fixed /\ UNCHANGED <<fifo, uses, book>>

Oversell ==
    /\ job.do = "sell" /\ job.seen < job.held /\ fifo = <<>>
    /\ job' = [job EXCEPT !.do = "oversold"]
    /\ uses' = <<>>
    /\ Fixed /\ UNCHANGED <<fifo, book>>

Tally ==
    /\ job.do = "tally" /\ job.i \in 1 .. Len(fifo)
    /\ job' = [job EXCEPT !.i = @ + 1, !.held = @ + At.remaining]
    /\ Fixed /\ UNCHANGED <<fifo, uses, book>>

\* _act returns at once when nothing is held.
Tallied ==
    /\ job.do = "tally" /\ job.i > Len(fifo)
    /\ job' = IF job.held = 0 THEN Idle
              ELSE Job(IF row.kind = "split" THEN "share" ELSE "adjust", 1, job.held, 0, 0)
    /\ Fixed /\ UNCHANGED <<fifo, uses, book>>

\* The new units of the parcels up to this one.  The mutant rounds each parcel's.
UpToEach(total, seen) == job.given + SplitUnits(At.remaining, row.new, row.old)

UpTo(total, seen) ==
    IF job.i = Len(fifo) THEN total ELSE RoundHalfEven(total * seen, job.held)

\* A split's loop: the new units shared by running total, the last parcel
\* getting what is left.  Its costs begin again as they are.
ShareOut ==
    /\ Looping("share")
    /\ LET total == SplitUnits(job.held, row.new, row.old)
           seen == job.seen + At.remaining
           upTo == UpTo(total, seen)
       IN  /\ fifo' = [fifo EXCEPT ![job.i] = RestartParcel(At, upTo - job.given, TRUE, 0)]
           /\ IF job.i = Len(fifo) THEN job' = Job("absorb", Len(fifo), 0, 0, 0)
                                   ELSE Advance(upTo, seen)
           /\ book' = [book EXCEPT !.paid = @ + Beyond(At.share["cost"], TRUE, 0)]
    /\ Fixed /\ UNCHANGED uses

\* The second loop of a split, from the last parcel back: one left without a
\* unit gives its cost to the next, or to the one before when it is last.
Absorb ==
    /\ job.do = "absorb" /\ job.i \in 1 .. Len(fifo)
    /\ LET into == IF job.i < Len(fifo) THEN job.i + 1 ELSE job.i - 1
       IN  fifo' = IF At.remaining = 0 /\ Len(fifo) > 1
                   THEN RemoveAt([fifo EXCEPT ![into] = Absorbed(@, At)], job.i)
                   ELSE fifo
    /\ job' = IF job.i = 1 THEN Idle ELSE [job EXCEPT !.i = @ - 1]
    /\ Fixed /\ UNCHANGED <<uses, book>>

\* A return of capital or an AMIT adjustment: each parcel's cost moved by its
\* units' part, and what goes below nil a gain.  A reduction with no AUD figure
\* on either side is listed unpriced.
AdjustNext ==
    /\ Looping("adjust")
    /\ LET seen == job.seen + At.remaining
           upTo == (row.amount * seen) \div job.held
           part == upTo - job.given
           unpriced == part < 0 /\ ~(row.known /\ Base(At).known)
           gain == Beyond(Base(At), row.known, part)
           cost == At.share["cost"]
       IN  /\ fifo' = [fifo EXCEPT ![job.i] =
                          RestartParcel(At, At.remaining, row.known, part)]
           /\ uses' = IF gain > 0 \/ unpriced
                      THEN Append(uses, Use(At, At.remaining, ~unpriced, 0,
                                            gain > 0, Cents(gain, 1)))
                      ELSE uses
           /\ book' = [book EXCEPT !.paid = @ + part + Beyond(cost, row.known, part)]
           /\ IF job.i = Len(fifo) THEN job' = Idle ELSE Advance(upTo, seen)
    /\ Fixed

DeemNext ==
    /\ Looping("deem")
    /\ fifo' = [fifo EXCEPT ![job.i] = Deemed(At, row.known, row.amount)]
    /\ book' = [book EXCEPT !.paid = @ + Beyond(At.share["cost"], TRUE, 0)]
    /\ Advance(0, 0)
    /\ Fixed /\ UNCHANGED uses

AllDeemed ==
    /\ job.do = "deem" /\ job.i > Len(fifo)
    /\ job' = Idle
    /\ Fixed /\ UNCHANGED <<fifo, uses, book>>

Crash ==
    /\ Undefined
    /\ job' = [job EXCEPT !.do = "crashed"]
    /\ Fixed /\ UNCHANGED <<fifo, uses, book>>

Loop ==
    \/ TakeHead \/ Sold \/ Oversell \/ Tally \/ Tallied \/ ShareOut \/ Absorb
    \/ AdjustNext \/ DeemNext \/ AllDeemed \/ Crash

Next ==
    \/ \E units \in Quantities, known \in RateKnown :
          \/ \E outlay \in Costs : Buy(units, outlay, known)
          \/ \E net \in Nets : Sell(units, net, known)
    \/ \E ratio \in Ratios : Split(ratio[1], ratio[2])
    \/ \E change \in Changes, known \in RateKnown : Adjust(change, known)
    \/ NextDay
    \/ Loop

Spec == Init /\ [][Next]_vars

-----------------------------------------------------------------------------
(***************************************************************************)
(* Properties.                                                             *)
(***************************************************************************)
ShareType == [known : BOOLEAN, total : Nat, allotted : Nat]

ParcelType ==
    [id : Nat, acquired : Nat, remaining : Nat, quantity : Nat, deemed : BOOLEAN,
     share : [ShareNames -> ShareType]]

RowType ==
    [kind : {"none", "buy", "sell", "split", "adjust", "deem"}, qty : Nat, amount : Int,
     known : BOOLEAN, new : Nat \ {0}, old : Nat \ {0}]

UseType ==
    [id : Nat, units : Nat, known : BOOLEAN, cost : Int, priced : BOOLEAN, proceeds : Int]

JobType ==
    [do : {"idle", "sell", "tally", "share", "absorb", "adjust", "deem", "oversold",
           "crashed"},
     i : Nat, held : Nat, seen : Nat, given : Int]

BookType == [known : BOOLEAN, paid : Int, billed : Int, popped : Nat]

\* The shape of every variable.
TypeOK ==
    /\ day \in Nat /\ traded \in BOOLEAN /\ rows \in Nat /\ row \in RowType
    /\ balance \in Int /\ fifo \in Seq(ParcelType) /\ deemed \in BOOLEAN
    /\ job \in JobType /\ uses \in Seq(UseType)
    /\ book \in BookType

\* The sums of a sequence's first k numbers, and of all of them.
Running(q) ==
    LET sum[k \in 0 .. Len(q)] == IF k = 0 THEN 0 ELSE sum[k - 1] + q[k]
    IN  sum

Total(q) == Running(q)[Len(q)]

UnitsOf(s) == [k \in 1 .. Len(s) |-> s[k].remaining]
CostsOf(s) == [k \in 1 .. Len(s) |-> Held(s[k].share["cost"])]
ProceedsOf(s) == [k \in 1 .. Len(s) |-> s[k].proceeds]

\* What a parcel has billed is what the units gone from it owe, rounded once:
\* so the bills of a parcel add up to its rounded cost however it is sold off,
\* and none loses a cent to its own rounding (`_Parcel`, "so the pieces always
\* sum to the whole").
BilledToDate ==
    \A k \in 1 .. Len(fifo) : \A n \in ShareNames :
        LET p == fifo[k]
            s == p.share[n]
        IN  p.quantity # 0 => s.allotted = Owed(s, p.quantity - p.remaining, p.quantity)

\* Over the whole walk, the money paid in less what was billed out is the cost
\* still held, to half a cent for each parcel used up: no split, deeming,
\* reduction or consolidation loses or doubles any.
CostConserved ==
    book.known =>
        LET lost == book.paid - book.billed - Total(CostsOf(fifo))
        IN  2 * lost \in -(Grain * book.popped) .. Grain * book.popped

\* The proceeds of a finished sale add up over its parcels to the money
\* received (decisions.md #93: "the parts sum to the whole by construction").
ProceedsWhole ==
    (job.do = "idle" /\ row.kind = "sell" /\ uses # <<>> /\ row.known) =>
        Total(ProceedsOf(uses)) = row.amount

\* The two walks of a timeline agree: between rows the parcels hold exactly the
\* units the balance guard counts, splits rounded the same way in both, and a sale
\* the engine cannot cover is one the guard counts below nothing.
UnitsAgree ==
    /\ job.do = "idle" => Total(UnitsOf(fifo)) = balance
    /\ job.do = "oversold" => balance < 0

\* First in, first out: the parcels are in the order they were acquired, and
\* none still held is older than one a sale has used.
OldestFirst ==
    /\ \A k \in 1 .. Len(fifo) - 1 :
          /\ fifo[k].id < fifo[k + 1].id
          /\ fifo[k].acquired <= fifo[k + 1].acquired
    /\ row.kind = "sell" =>
          \A k \in 1 .. Len(uses) : \A m \in 1 .. Len(fifo) : uses[k].id <= fifo[m].id

\* No use of a parcel is billed less than nothing, and no parcel bills more than
\* its cost rounded to the cent.
BillsInRange ==
    /\ \A k \in 1 .. Len(uses) : uses[k].cost >= 0 /\ uses[k].units >= 0
    /\ \A k \in 1 .. Len(fifo) : \A n \in ShareNames :
          fifo[k].share[n].allotted \in 0 .. Cents(fifo[k].share[n].total, 1)

\* A consolidation's second loop moves cost between parcels and loses none of
\* it ("so none of the cost is lost", `_act`): the cost bases sales would work
\* on add up to the same before and after each turn.
AbsorbLosesNothing ==
    [][(job.do = "absorb" /\ \A k \in 1 .. Len(fifo) : Base(fifo[k]).known) =>
         Total([k \in 1 .. Len(fifo') |-> Held(Base(fifo'[k]))])
            = Total([k \in 1 .. Len(fifo) |-> Held(Base(fifo[k]))])]_vars

\* `_Parcel`: "An acquisition still holding units."
EveryParcelHolds ==
    job.do = "idle" => \A k \in 1 .. Len(fifo) : fifo[k].remaining > 0

=============================================================================
