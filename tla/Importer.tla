------------------------------- MODULE Importer -------------------------------
(***************************************************************************)
(* Importing a broker's file into one portfolio (src/app/brokercsv.py,     *)
(* ofx.py, imports_web.py) and saving a combined distribution advice       *)
(* (statements.py, imports_web.py).                                        *)
(*                                                                         *)
(* A file is previewed, its rows staged on disk under a fresh name,        *)
(* perhaps corrected, and committed.  Corrections and commits read the     *)
(* staged file first and the tables later, after the form has arrived, so  *)
(* requests of two sign-ins overlap; the process may stop between any two  *)
(* steps, and the daily sweep takes staged files away.  A handler's work   *)
(* between two awaits is one step of the event loop.                       *)
(*                                                                         *)
(* Prices and brokerage, which only identify a trade, are part of its      *)
(* quantity here.  A split makes the importer walk a holding row by row,   *)
(* which is the reference the single pass is compared with, so holdings    *)
(* with one are left out.                                                  *)
(*                                                                         *)
(* The specification is named for the module, which DatabaseProofs extends *)
(* together with WriteLock and Setup.                                      *)
(***************************************************************************)
EXTENDS Integers, Sequences, FiniteSets, SequencesExt

CONSTANTS
    Listings,       \* an instrument: a ticker on an exchange
    Namesakes,      \* the listings that share their ticker with another
    AlwaysOpen,     \* listings whose market never closes
    Malformed,      \* listings whose ticker or exchange no row may be made for
    AllowNew,       \* imports.allow_new_instruments
    SignIns,
    UserOf,         \* the user of each sign-in
    Books,          \* the trades a portfolio may hold to begin with
    Uploads,        \* staging names, each used once
    Files,          \* what may be uploaded: format and lines
    Advices,        \* rows of a combined advice, as their form posts them
    MaxTrades,      \* bound: the largest trade id
    NULL            \* Python's None

\* Times of day: midnight stands for a date with no time.
Midnight == 0
MarketOpen == 2
MarketClose == 4

\* The rows of the trade table, the lines a file may have, and the rows of an advice.
Types == {"buy", "sell", "drp"}

TradeRows == [id : 1 .. MaxTrades, listing : Listings, day : Int, time : Nat,
              type : Types, quantity : Nat]

Lines == [type : Types \cup {NULL}, listing : Listings, day : Int, clock : Nat, quantity : Nat,
          priced : BOOLEAN, dated : BOOLEAN, sound : BOOLEAN]

AdviceRows == [listing : Listings, exact : BOOLEAN, day : Int, amount : Int, units : Int]

\* A row of a file as it is staged, and a distribution as it is saved.
CandidateRows == [listing : Listings, day : Int, time : Nat \cup {NULL}, type : Types,
                  quantity : Nat]

DistributionRows == [listing : Listings, day : Int, amount : Int]

\* A trade, or a row of a file, on a timeline, and what queries.balance_breach returns.
EntryRows == [at : Int \X Int \X Int \X Int, change : Int, row : Nat]

Breaches == [trade : EntryRows, balance : Int, before : Int]

ASSUME ImporterAssumption ==
    /\ AlwaysOpen \subseteq Listings /\ Malformed \subseteq Listings
    /\ Namesakes \subseteq Listings /\ AllowNew \in BOOLEAN
    /\ DOMAIN UserOf = SignIns
    /\ \A book \in Books : /\ book \subseteq TradeRows
                           /\ \A t, u \in book : t.id = u.id => t = u
    /\ Files \subseteq [format : {"csv", "ofx"}, lines : Seq(Lines)]
    /\ Advices \subseteq Seq(AdviceRows) \ {<<>>}
    /\ MaxTrades \in Nat /\ NULL \notin Nat \cup Types \cup Breaches

VARIABLES
    trades,         \* Trade rows, as records with their id
    dividends,      \* Dividend rows, in the order they were saved
    staged,         \* upload -> the staged file, or NULL
    request         \* sign-in -> its request under way, or NULL

ImportVars == <<trades, dividends, staged, request>>

-----------------------------------------------------------------------------
(***************************************************************************)
(* Reading a file.  A line says which trade it names, if any, and whether  *)
(* its price, its date and its figures can be read.                        *)
(***************************************************************************)
\* trade_type and the rest of _parse_csv's loop: a candidate, a line skipped, or an error.
CsvOutcome(line) ==
    CASE line.type = NULL -> "skipped"
      [] line.type = "drp" /\ ~line.priced -> "skipped"
      [] ~line.dated \/ ~line.sound \/ ~line.priced -> "error"
      [] OTHER -> "candidate"

\* _transaction: a figure is read before anything is missed.
OfxOutcome(line) ==
    CASE ~line.sound -> "error"
      [] line.type = NULL \/ ~line.dated \/ ~line.priced -> "skipped"
      [] OTHER -> "candidate"

Outcome(file, line) == IF file.format = "ofx" THEN OfxOutcome(line) ELSE CsvOutcome(line)

\* in_trading_hours, with parse_when's midnight: the time kept, NULL for the open.
TradingTime(clock, listing) ==
    IF clock = Midnight THEN NULL
    ELSE IF listing \in AlwaysOpen THEN clock
    ELSE IF clock <= MarketOpen THEN NULL
    ELSE IF clock > MarketClose THEN MarketClose ELSE clock

Candidate(line) ==
    [listing |-> line.listing, day |-> line.day, time |-> TradingTime(line.clock, line.listing),
     type |-> line.type, quantity |-> line.quantity]

\* The first difference decides.
Less(a, b) ==
    \E i \in DOMAIN a : a[i] < b[i] /\ \A j \in 1 .. i - 1 : a[j] = b[j]

InOrder(S, Before(_, _)) ==
    [n \in 1 .. Cardinality(S) |->
        CHOOSE x \in S : Cardinality({y \in S : Before(y, x)}) = n - 1]

\* parse_csv: candidates in the file's order.
CsvCandidates(lines) ==
    LET read == {i \in DOMAIN lines : CsvOutcome(lines[i]) = "candidate"}
        order == InOrder(read, LAMBDA i, j : i < j)
    IN  [n \in DOMAIN order |-> Candidate(lines[order[n]])]

\* parse_ofx: buys, sells and reinvestments, each in the file's order, and then
\* by day; a date alone is kept of the time.
OfxCandidates(lines) ==
    LET turn == [buy |-> 1, sell |-> 2, drp |-> 3]
        read == {i \in DOMAIN lines : OfxOutcome(lines[i]) = "candidate"}
        key(i) == <<lines[i].day, turn[lines[i].type], i>>
        order == InOrder(read, LAMBDA i, j : Less(key(i), key(j)))
    IN  [n \in DOMAIN order |-> [Candidate(lines[order[n]]) EXCEPT !.time = NULL]]

\* ParseResult: the candidates of a file, none where the file has an error.
Parsed(file) ==
    IF \E i \in DOMAIN file.lines : Outcome(file, file.lines[i]) = "error" THEN <<>>
    ELSE IF file.format = "ofx" THEN OfxCandidates(file.lines) ELSE CsvCandidates(file.lines)

-----------------------------------------------------------------------------
(***************************************************************************)
(* The timeline of one listing (models.trade_order, queries._walk).        *)
(***************************************************************************)
Change(t) == IF t.type \in {"buy", "drp"} THEN t.quantity ELSE -t.quantity

\* A recorded trade, and row r of the file, on a timeline: an unsaved trade
\* comes after the saved ones of its moment, and in the file's order.
OfTrade(t) == [at |-> <<t.day, t.time, 0, t.id>>, change |-> Change(t), row |-> 0]

OfRow(rows, r) ==
    LET c == rows[r]
    IN  [at |-> <<c.day, IF c.time = NULL THEN MarketOpen ELSE c.time, 1, r>>,
         change |-> Change(c), row |-> r]

Timeline(entries) == InOrder(entries, LAMBDA a, b : Less(a.at, b.at))

Totals(line) ==
    LET total[i \in 0 .. Len(line)] == IF i = 0 THEN 0 ELSE total[i - 1] + line[i].change
    IN  total

\* queries.balance_breach: where the walk first goes below nothing, or NULL.
Breach(entries) ==
    LET line == Timeline(entries)
        total == Totals(line)
        short == {i \in DOMAIN line : total[i] < 0}
        i == CHOOSE i \in short : \A j \in short : i <= j
    IN  IF short = {} THEN NULL
        ELSE [trade |-> line[i], balance |-> total[i], before |-> total[i - 1]]

Entries(ts, listing) == {OfTrade(t) : t \in {t \in ts : t.listing = listing}}

Covered(ts, listing) == Breach(Entries(ts, listing)) = NULL

-----------------------------------------------------------------------------
(***************************************************************************)
(* Which rows of a file would sell more than is held: _shortfalls_walked,  *)
(* one walk a row as the trade form walks one, and _shortfalls, a single   *)
(* walk.  Both are sets of the rows refused, each with the breach named.   *)
(***************************************************************************)
ShortfallsWalked(held, wanted) ==
    LET line == Timeline(wanted)
        walk[i \in 0 .. Len(line)] ==
            IF i = 0 THEN [accepted |-> {}, refused |-> {}]
            ELSE LET breach == Breach(held \cup walk[i - 1].accepted \cup {line[i]})
                 IN  IF breach = NULL
                     THEN [walk[i - 1] EXCEPT !.accepted = @ \cup {line[i]}]
                     ELSE [walk[i - 1] EXCEPT !.refused = @ \cup {<<line[i].row, breach>>}]
    IN  walk[Len(line)].refused

\* _first_below: the first place from `start` on where `values` is below
\* `limit`, stepping over runs of 2^k values that are not, longest first.
FirstBelow(values, start, limit) ==
    LET n == Len(values)
        span[k \in 0 .. n + 1] == IF k = 0 THEN 1 ELSE 2 * span[k - 1]
        least[k \in 0 .. n] ==
            IF k = 0 THEN values
            ELSE [i \in 1 .. n - span[k] + 1 |->
                     LET run == least[k - 1]
                     IN  IF run[i] <= run[i + span[k - 1]] THEN run[i] ELSE run[i + span[k - 1]]]
        find[k \in 0 .. n + 1] ==
            IF k = n + 1 THEN start
            ELSE LET i == find[k + 1]
                 IN  IF i + span[k] <= n + 1 /\ least[k][i] >= limit THEN i + span[k] ELSE i
    IN  find[0]

\* A mutant of Shortfalls: a row is checked where it stands, and not against what
\* the recorded trades after it need.
ShortfallsHere(held, wanted) ==
    LET line == Timeline(held \cup wanted)
        walk[i \in 0 .. Len(line)] ==
            IF i = 0 THEN [units |-> 0, refused |-> {}]
            ELSE LET w == walk[i - 1]
                     after == w.units + line[i].change
                     here == [trade |-> line[i], balance |-> after, before |-> w.units]
                 IN  IF line[i].row = 0 \/ after >= 0 THEN [w EXCEPT !.units = after]
                     ELSE [w EXCEPT !.refused = @ \cup {<<line[i].row, here>>}]
    IN  walk[Len(line)].refused

\* _shortfalls
Shortfalls(held, wanted) ==
    LET line == Timeline(held \cup wanted)
        n == Len(line)
        recorded == LET total == Totals([i \in 1 .. n |->
                            IF line[i].row = 0 THEN line[i] ELSE [line[i] EXCEPT !.change = 0]])
                    IN  [i \in 1 .. n |-> total[i]]
        need[i \in 1 .. n + 1] ==
            IF i = n + 1 THEN 0
            ELSE IF line[i].row # 0 THEN need[i + 1]
            ELSE Max({0, need[i + 1] - line[i].change})
        later(i, after) ==
            LET k == FirstBelow(recorded, i + 1, recorded[i] - after)
                left == after + recorded[k] - recorded[i]
            IN  [trade |-> line[k], balance |-> left, before |-> left - line[k].change]
        walk[i \in 0 .. n] ==
            IF i = 0 THEN [units |-> 0, broken |-> NULL, refused |-> {}]
            ELSE LET w == walk[i - 1]
                     after == w.units + line[i].change
                     here == [trade |-> line[i], balance |-> after, before |-> w.units]
                     refuse(breach) == [w EXCEPT !.refused = @ \cup {<<line[i].row, breach>>}]
                 IN  CASE line[i].row = 0 ->
                            [w EXCEPT !.units = after,
                                      !.broken = IF after < 0 /\ @ = NULL THEN here ELSE @]
                       [] line[i].row # 0 /\ w.broken # NULL -> refuse(w.broken)
                       [] line[i].row # 0 /\ w.broken = NULL /\ after < 0 -> refuse(here)
                       [] line[i].row # 0 /\ w.broken = NULL /\ after \in 0 .. need[i + 1] - 1 ->
                            refuse(later(i, after))
                       [] OTHER -> [w EXCEPT !.units = after]
    IN  walk[n].refused

-----------------------------------------------------------------------------
(***************************************************************************)
(* Annotating a file's rows against the tables.                            *)
(***************************************************************************)
\* queries.portfolio_instrument_ids, without holding settings and the plan.
Own == {t.listing : t \in trades} \cup {d.listing : d \in Range(dividends)}

SameTrade(t, c) ==
    /\ t.listing = c.listing /\ t.day = c.day
    /\ t.type = c.type /\ t.quantity = c.quantity

\* A mutant of Claims: a recorded trade answers for every row like it.
ClaimsShared(rows) == {r \in DOMAIN rows : \E t \in trades : SameTrade(t, rows[r])}

\* annotate: the rows already recorded.  A trade answers for one row, first for
\* one at its time of day and then for any.
Claims(rows) ==
    LET n == Len(rows)
        claim[k \in 0 .. 2 * n] ==
            IF k = 0 THEN [rows |-> {}, trades |-> {}]
            ELSE LET c == claim[k - 1]
                     r == IF k <= n THEN k ELSE k - n
                     free == {t.id : t \in {t \in trades : /\ SameTrade(t, rows[r])
                                                           /\ k <= n => t.time = rows[r].time}}
                             \ c.trades
                 IN  IF r \in c.rows \/ free = {} THEN c
                     ELSE [rows |-> c.rows \cup {r}, trades |-> c.trades \cup {Min(free)}]
    IN  claim[2 * n].rows

Fresh(rows) == DOMAIN rows \ Claims(rows)

Wanted(rows, listing) == {OfRow(rows, r) : r \in {r \in Fresh(rows) : rows[r].listing = listing}}

\* _refuse_shortfalls: each holding's rows that are not recorded already.
Refused(rows) == UNION {Shortfalls(Entries(trades, l), Wanted(rows, l)) : l \in Listings}

Unknown(rows) == {r \in DOMAIN rows : rows[r].listing \notin Own}

-----------------------------------------------------------------------------
(***************************************************************************)
(* The staged file's handlers.                                             *)
(***************************************************************************)
AtRest(s) == request[s] = NULL

\* csv_preview: staged when there are rows and every line could be read.
CsvPreview(s, u, file) ==
    /\ AtRest(s)
    /\ Parsed(file) # <<>>
    /\ staged[u] = NULL /\ \A x \in SignIns : ~AtRest(x) => request[x].upload # u
    /\ staged' = [staged EXCEPT ![u] = [user |-> UserOf[s], rows |-> Parsed(file)]]
    /\ UNCHANGED <<trades, dividends, request>>

\* A correction or a commit reads the staged file, and waits for its form.
ReadStaged(s, u, op) ==
    /\ AtRest(s)
    /\ staged[u] # NULL
    /\ staged[u].user = UserOf[s]
    /\ request' = [request EXCEPT ![s] = [op |-> op, upload |-> u, rows |-> staged[u].rows]]
    /\ UNCHANGED <<trades, dividends, staged>>

\* relabel: a correction is for every row of its listing.
Relabel(rows, from, to) ==
    [r \in DOMAIN rows |-> IF rows[r].listing = from THEN [rows[r] EXCEPT !.listing = to]
                           ELSE rows[r]]

\* csv_resolve: the corrected rows are written, whether or not the file is there.
CsvResolve(s, from, to) ==
    /\ ~AtRest(s) /\ request[s].op = "resolve"
    /\ staged' = [staged EXCEPT ![request[s].upload] =
                     [user |-> UserOf[s], rows |-> Relabel(request[s].rows, from, to)]]
    /\ request' = [request EXCEPT ![s] = NULL]
    /\ UNCHANGED <<trades, dividends>>

Largest == Max({0} \cup {t.id : t \in trades})

Recorded(c, id) ==
    [id |-> id, listing |-> c.listing, day |-> c.day,
     time |-> IF c.time = NULL THEN MarketOpen ELSE c.time,
     type |-> c.type, quantity |-> c.quantity]

\* brokercsv.commit: the rows not recorded already, in the file's order.
Inserted(rows) ==
    {Recorded(rows[r], Largest + Cardinality({x \in Fresh(rows) : x <= r})) : r \in Fresh(rows)}

\* A mutant of Committable: the rows are taken as they were at the preview, with
\* the shortfalls found then.
CommittableStale(rows) ==
    /\ AllowNew \/ Unknown(rows) = {}
    /\ \A r \in Unknown(rows) : rows[r].listing \notin Malformed

Committable(rows) ==
    /\ AllowNew \/ Unknown(rows) = {}
    /\ Refused(rows) = {}
    /\ \A r \in Unknown(rows) : rows[r].listing \notin Malformed

\* csv_commit's session: annotated again, and all of the file or none of it.
CsvCommit(s) ==
    LET rows == request[s].rows
    IN  /\ ~AtRest(s) /\ request[s].op = "commit"
        /\ \/ /\ Committable(rows)
              /\ Largest + Cardinality(Fresh(rows)) <= MaxTrades
              /\ trades' = trades \cup Inserted(rows)
              /\ request' = [request EXCEPT ![s].op = "unlink"]
           \/ /\ ~Committable(rows)
              /\ request' = [request EXCEPT ![s] = NULL]
              /\ UNCHANGED trades
        /\ UNCHANGED <<dividends, staged>>

\* The session has committed; the file goes.
Unlink(s) ==
    /\ ~AtRest(s) /\ request[s].op = "unlink"
    /\ staged' = [staged EXCEPT ![request[s].upload] = NULL]
    /\ request' = [request EXCEPT ![s] = NULL]
    /\ UNCHANGED <<trades, dividends>>

\* maintenance.sweep_staged_uploads, in its thread: a file of some age goes.
Sweep(u) ==
    /\ staged[u] # NULL
    /\ staged' = [staged EXCEPT ![u] = NULL]
    /\ UNCHANGED <<trades, dividends, request>>

\* The process stops and starts: the requests under way are gone.
Restart ==
    /\ \E s \in SignIns : ~AtRest(s)
    /\ request' = [s \in SignIns |-> NULL]
    /\ UNCHANGED <<trades, dividends, staged>>

-----------------------------------------------------------------------------
(***************************************************************************)
(* A combined advice, and the other writers of the ledger.                 *)
(***************************************************************************)
\* queries.held_as: a row names a listing, or only its ticker.
HeldAs(row) ==
    {l \in Own : \/ l = row.listing
                 \/ ~row.exact /\ {l, row.listing} \subseteq Namesakes}

Key(d) == <<d.listing, d.day, d.amount>>

\* _distribution: of one holding, and not recorded already (duplicate_of).
Distribution(row) ==
    [listing |-> CHOOSE l \in HeldAs(row) : TRUE, day |-> row.day, amount |-> row.amount]

Savable(row) ==
    /\ Cardinality(HeldAs(row)) = 1
    /\ row.amount > 0
    /\ \A d \in Range(dividends) : Key(d) # Key(Distribution(row))

\* _record: the distributions, and the units each bought when it was reinvested.
Record(rows) ==
    LET bought == {i \in DOMAIN rows : rows[i].units > 0}
        reinvested(i) ==
            [id |-> Largest + Cardinality({j \in bought : j <= i}),
             listing |-> Distribution(rows[i]).listing, day |-> rows[i].day,
             time |-> MarketOpen, type |-> "drp", quantity |-> rows[i].units]
    IN  /\ Largest + Cardinality(bought) <= MaxTrades
        /\ dividends' = dividends \o [i \in DOMAIN rows |-> Distribution(rows[i])]
        /\ trades' = trades \cup {reinvested(i) : i \in bought}
        /\ UNCHANGED <<staged, request>>

\* A mutant of SaveAdvice: the rows are compared with the tables alone.
SaveAdviceUnseen(s, rows) ==
    /\ AtRest(s)
    /\ \A i \in DOMAIN rows : Savable(rows[i])
    /\ Record(rows)

\* statement_rows_commit: every row ticked, or none.
SaveAdvice(s, rows) ==
    /\ AtRest(s)
    /\ \A i \in DOMAIN rows : Savable(rows[i])
    /\ \A i, j \in DOMAIN rows :
          i # j => Key(Distribution(rows[i])) # Key(Distribution(rows[j]))
    /\ Record(rows)

\* statement_commit: a statement's one distribution.
SaveStatement(s, row) ==
    /\ AtRest(s)
    /\ Savable(row)
    /\ Record(<<row>>)

\* The ledger page's own deletion, which has to leave every later sell covered.
TradeDelete(s, t) ==
    /\ AtRest(s)
    /\ Covered(trades \ {t}, t.listing)
    /\ trades' = trades \ {t}
    /\ UNCHANGED <<dividends, staged, request>>

-----------------------------------------------------------------------------
ImportInit ==
    /\ trades \in Books /\ dividends = <<>>
    /\ staged = [u \in Uploads |-> NULL]
    /\ request = [s \in SignIns |-> NULL]

ImportNext ==
    \/ \E s \in SignIns :
        \/ \E u \in Uploads : \/ \E file \in Files : CsvPreview(s, u, file)
                              \/ \E op \in {"resolve", "commit"} : ReadStaged(s, u, op)
        \/ \E from, to \in Listings : CsvResolve(s, from, to)
        \/ CsvCommit(s) \/ Unlink(s)
        \/ \E rows \in Advices : SaveAdvice(s, rows) \/ SaveStatement(s, rows[1])
        \/ \E t \in trades : TradeDelete(s, t)
    \/ \E u \in Uploads : Sweep(u)
    \/ Restart

ImportSpec == ImportInit /\ [][ImportNext]_ImportVars

-----------------------------------------------------------------------------
(***************************************************************************)
(* What importing promises.                                                *)
(***************************************************************************)
\* The state is well formed: trades have their own ids, and what is staged is a user's.
ImportTypeOK ==
    /\ trades \subseteq TradeRows
    /\ \A t, u \in trades : t.id = u.id => t = u
    /\ dividends \in Seq(DistributionRows)
    /\ staged \in [Uploads -> {NULL} \cup [user : Range(UserOf), rows : Seq(CandidateRows)]]
    /\ request \in [SignIns -> {NULL} \cup [op : {"resolve", "commit", "unlink"},
                                            upload : Uploads, rows : Seq(CandidateRows)]]

\* Whatever was recorded, deleted, corrected or swept between a file's preview
\* and its commit, no import leaves a holding short that was not short before it.
\* (csv_commit annotates again, brokercsv._refuse_shortfalls.)
NeverShort == [][\A l \in Listings : Covered(trades, l) => Covered(trades', l)]_ImportVars

\* The single pass refuses the very rows, and names for each the very breach,
\* that walking the timeline once for every row would, for each listing of each
\* staged file, over ledgers that are short already as well as ones that are not.
RefusalsAgree ==
    \A u \in Uploads : staged[u] # NULL => \A l \in Listings :
        LET held == Entries(trades, l)
            wanted == Wanted(staged[u].rows, l)
        IN  Shortfalls(held, wanted) = ShortfallsWalked(held, wanted)

FillsOf(ts, c) == Cardinality({t \in ts : SameTrade(t, c)})

\* A commit leaves each trade recorded as often as the file has it or as the
\* ledger had it, whichever is more: a file committed again, or from two
\* previews, or after a stop between the commit and the unlink, adds nothing,
\* and a second identical fill of the day is not lost.
ImportMerges ==
    [][\A s \in SignIns : request[s] # NULL /\ request'[s] # NULL
            /\ request[s].op = "commit" /\ request'[s].op = "unlink" =>
          LET rows == request[s].rows
          IN  \A r \in DOMAIN rows :
                 FillsOf(trades', rows[r]) =
                    Max({FillsOf(trades, rows[r]),
                         Cardinality({x \in DOMAIN rows : SameTrade(rows[x], rows[r])})})]_ImportVars

\* No distribution is recorded twice, by one advice or by several, whether its
\* rows name the listing or only the ticker.
AdvicesOnce ==
    \A i, j \in DOMAIN dividends : i # j => Key(dividends[i]) # Key(dividends[j])
=============================================================================
