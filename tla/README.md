# Stocktake, verified

TLA+ models of Stocktake (`src/app`), checked with TLC, and theorems about them
checked with TLAPS. Stocktake is a self-hosted portfolio tracker for Australian
investors: one Python process (FastAPI, an event loop and its threads) over SQLite
or Postgres. Its one idea (docs/contributing/architecture.md) is that everything is
computed from trades, so what has to be right is that the stored trades can never
contradict each other, and that the arithmetic over them loses nothing.

Paths below are relative to `src/`.

## Inventory

| Part | State | Operations | What makes it correct | Module |
| --- | --- | --- | --- | --- |
| FIFO engine (`app/fyreport.py`: `walk`, `_Parcel`, `_Share`, `_deem`, `_act`) | the parcels still holding units, what each was billed | buy, sell, split, return of capital, AMIT adjustment, 1 July 2027 | no cent is lost to rounding; oldest first; agrees with the guard | `Parcels` |
| Capital gains years (`fyreport.fy_cgt`, `cpi.py`, `simulate.py`) | none but the rows: every year is worked out again | gains, losses carried, discount, deferred gains, indexation, a simulated sale | a loss is used once; what is left out is named | `TaxYears` |
| Timeline and guard (`app/queries.py`, `app/models.py`) | none: a walk over rows | `timeline`, `moment`, `units_through`, `balance_breach` | the walk that was checked is the walk that is stored | `Units`, `Parcels`, `Ledger` |
| Ledger (`app/main.py`, `app/api.py`, `app/imports_web.py`, `app/moves.py`) | trades, distributions, corporate actions, plan steps | create, edit, delete, import, move, complete, skip | never oversold; a reinvestment's two halves go together; a step names a trade that is there | `Ledger` |
| Read model (`app/queries.py`: `build_holding`, `ledger`, `portfolio_series`, `grouped_series`, `instrument_series`) | none: loops over the same rows and the stored closes and rates | the holdings page, a holding's page, the charts' daily lines | every loop tells the same story | `Holdings` |
| Importers (`app/brokercsv.py`, `ofx.py`, `statements.py`, `imports_web.py`) | staged uploads on disk | preview, resolve, commit, sweep | a file is committed once, and refused exactly when the guard would | `Importer` |
| Submissions (`app/submissions.py`) | the claims of form tokens, the events of those waiting | claim, finish, release, prune | one record a form; no press left waiting | `Submissions` |
| Requests and the write lock (`app/auth.py`, `require_login`, `app/pricefeed.py`) | the event loop, the threads, SQLite's one writer | load_auth, commit, the feed's commits, work in a thread | nobody waits out `busy_timeout`; every request is answered | `WriteLock` |
| Price feed (`app/pricefeed.py`, `app/providers.py`, its loops in `app/main.py`) | stored closes, settled or provisional; rates; an in-flight flag | run_feed, the repair of rates, refresh_quotes | every day gets its close, every trade its rate | `Feed` |
| Plan (`app/plans.py`) | the rotation's entries and steps | preview, save, complete, skip, remove, move | editing does not shift the sequence | `Plans` |
| Sessions and second factor (`app/auth.py`, `twofactor.py`, `recover.py`) | sessions, failures, secrets, code lists | sign in and out, codes, recovery, revocation, passwords | codes are used once; limits hold; a changed password ends what it should | `Sessions` |
| Passkeys and providers (`passkeys.py`, `federation.py`) | attempts, challenges, identities | callback, link, unlink, provision, register | every account keeps a way in | `SignIn` |
| Tenancy (`tenancy.py`, `invites.py`, keys in `auth.py`) | memberships, invitations, keys | invite, accept, promote, remove, suspend | an owner stays; only writers write | `Members` |
| Setup and configuration (`setupwizard.py`, `configfile.py`, `db.py`, `lifecycle.py`) | the wizard's draft, config.yaml, the session factory | steps, save, connect, restart | no second setup, no lost setting | `Setup` |
| Housekeeping (`maintenance.py`) | rows' and files' ages | sweeps | nothing in use is removed | in `Sessions`, `SignIn`, `Importer` |
| The series' cache, log ring, metrics, exports, charts, templates | | | | not modelled |

How they meet. The web's async handlers run on one event loop and never overlap
each other between reading the tables and committing, unless they await a thread;
plain handlers (the pages, `/api/v1`) run in threads. Every handler opens a
`scoped_session`, whose `load_auth` writes the session's row: on SQLite the request
then holds the write lock until it commits, on Postgres only that row's lock. The
feed writes from a thread of its own. The guard and the FIFO engine never call each
other: they walk the same timeline separately and have to agree. An invitation is
spent through `Sessions`' sign-up, `SignIn`'s callback or `Members`' accept; each module
models its own path and leaves the row's other fates to a step of the environment.

What is hard here: rounding that has to add up; a rule that changes on 1 July 2027
in the middle of a timeline; a write to one row that strands another years later; two
requests between check and commit; an await between reading an account and acting on
it; a press that repeats another still at work; one write lock shared with an event loop
that must never block for long; a provider that answers short; a process that stops
anywhere. `PROJECT.json` lists the hazards at their lines, with the properties that
watch each.

## Modules

**`Units`**: `queries.split_units` and Decimal's half-even rounding, over whole
multiples of `queries.UNIT`. Shared by the engine, the guard and the years.

**`Parcels`**: the engine fed one instrument's timeline. A row is an action (`Buy`,
`Sell`, `Split`, `Adjust`), and so is the end of a day (`NextDay`), which is where 1 July
2027 is reached; each loop of the code over the parcels is a loop of steps, one parcel
each (`TakeHead`, `Tally`, `ShareOut`, `Absorb`, `AdjustNext`, `DeemNext`). Each row's
`Walk` also updates `balance`, the running balance `queries._walk` would have, so that
the two walks can be compared. Money is in grains, `Grain` to the cent: a cost is exact and
a bill is whole cents, as in the code. `known` is the code's `None` for a figure with no
exchange rate. A parcel's `share` holds the amounts billed by running total: `cost`, and
once deemed `value`, `deferred` and `after`. `Crash` is Decimal's refusal to divide by a
parcel's quantity of zero. `book` is history, for `CostConserved`. An adjustment's part of
each parcel is rounded down to a grain, where the code keeps Decimal's 28 digits.

**`TaxYears`**: what the report makes of the engine's disposals. A reader passes `facts`,
what is recorded by then, and `FyCgt` works every year out from the first sale, as `fy_cgt`
does, by a fold over years. A day is a financial year with one CPI quarter; money is in
half-cents, so that the discount halves exactly. A disposal comes with its uses, which
are `Parcels`' business. A sale is recorded at the figures it has now: which rate and which
close they were worked at is data, and a nearer rate or a later close of the week, stored after
the first, is a step that gives a recorded sale other figures (`NearerArrives`). `Simulated` is
the difference of two such reports.

**`Ledger`**: one instrument in each portfolio, its four tables as functions from
ids to rows, and one action per handler. `Answer` is `scoped_session`: behind SQLite's
write lock (`Serialised`) a handler decides and commits in one step; on Postgres it
decides, and commits in a later step, and one credential has one request under way.
A handler's guard is the code's checks in the code's order of reading (`Covered` is
`balance_breach`), and its write is everything it saves, the releases of plan steps
included. `expand` is what the move dialog ticks, `Breach` the row it pulls in next.

**`Holdings`**: the read model over `Ledger`'s tables, as operators and no actions of its
own. Each of the code's loops over a portfolio's rows has its definition: running totals by
holding up to a day (`BookBy`), the total of a day less what has no close (`TotalOn`, from the
aggregates) and a group's (`GroupOn`, from what each holding brought), a holding's own line,
the holdings page. `Ledger`'s portfolios stand for one portfolio's instruments, since every
handler works on one instrument's rows or carries them to another. Nothing a row or a close
amounts to is zero, and few of the sums coincide.

**`Importer`**: one portfolio's ledger, files as sequences of lines, staged uploads, and
the requests of two sign-ins under way. Reading the staged file, reading the tables and
unlinking are steps of their own, so everything may come between them, a restart too.
`Shortfalls` is the one-pass refusal, `ShortfallsWalked` the guard it stands for.

**`Submissions`**: the two dictionaries, and each press of a Save as a coroutine whose
steps run from one await to the next. An event is named by the press that made it.
`OncePerForm` is what the module promises, and `Once` the refinement mapping: a form is
being saved by the press at work on it, and its record is as old as the last one made.

**`WriteLock`**: requests and the feed as actors with a phase each, the loop and the
lock as who holds them, and time in ticks with `busy_timeout` as `Busy` of them. A slow
request is one that awaits `asyncio.to_thread` inside its session (`statement_preview`,
and the same pattern at app/main.py:2603-2657, 2873, 4150 and app/imports_web.py:826).

**`Sessions`**: accounts, their secrets and code lists, sessions with their three clocks,
the browsers' cookies and the requests that await argon2. Each such handler is two steps,
before and after the thread; whoever would delete a session's row that one of them holds
waits, as the row lock makes it. `proofs`, `asked`, `opened` and `epoch` are history: what a
session was opened on, and what the account asked for then. Housekeeping's two sweeps are
steps.

**`SignIn`**: attempts, cookies, callbacks waiting for the provider, identities, passkeys and
challenges. A callback is two steps and two of them may carry one attempt. `Provisioning` is
the setting that says who may be given an account.

**`Members`**: portfolios with ids that are used again (SQLite's), roles, the portfolio a
session acts in, invitations and keys. Signing up, adding an account and a callback are two
steps. `last` and `joins` are history; `last` decides nothing and is left out of the `VIEW`.

**`Feed`**: a run as the sequence of its requests and commits (`Ask`, `Fetch`, `FxAsk`,
`FxFetch`, `Repair`, `_backfill_rates`), which may fail, answer short or die; the daily loop
with its boot, its evening and its retry; live quotes as two steps; markets that open, ring
and settle; a person who adds, refreshes and types a rate. Only which days are stored, as
what, is kept.

**`Setup`**: the draft, the connection, the running settings (memory), config.yaml, the
databases (what survives), and the gate of every page, `Answer`, as the redirect it gives.
A form whose work comes after an await is two steps. The page with the database form is
drawn only where nothing names a database, but what such a form sends asks for the step alone
(`setup_database_save`), so `Press` does too. Stopping keeps the file and the databases.

**`Plans`**: the plan, its entries in order, the steps recorded. Ids are names reused when
no row bears them. `drawn` is history: the preview of the draft just saved.

**`ParcelsProofs`**, **`LedgerProofs`**, **`TaxYearsProofs`**, **`MembersProofs`**,
**`SignInProofs`**, **`SessionsProofs`**: the theorems, each about the module it is named for.
**`FormsProofs`** is about `Submissions` and `Plans`, **`DatabaseProofs`** about `WriteLock`,
`Setup` and `Importer`; so that one module can extend them, `Plans`, `Setup` and `Importer` give
their specifications names of their own (`PlanSpec`, `SetupSpec`, `ImportSpec`). The `MC` modules
hold the values a cfg cannot write.

A definition whose comment begins "A mutant of", or "A bug the runs plant", is a bug the code
could have had, used to see that a property would notice it; no specification uses it.

## Runs

| Run | Bounds | What it asks | States |
| --- | --- | --- | --- |
| `parcels` | 4 rows, 3 days, 1 July 2027 on the second; buys and sells of 1 or 3 units; outlays of 10 or 25 half-cents; ratios 3:2 and 1:3; a reduction of 12 and an increase of 5 | bills add up, nothing is lost, proceeds are whole, the two walks agree, FIFO | 927,000 |
| `ledger` | SQLite, 2 portfolios, 2 credentials, 2 days, 2 trades, 1 distribution, 1 consolidation 1:2, 1 plan step | never oversold; pairs whole; steps honest and keeping their history; the move dialog complete; in each state, the charts, their split and the pages agree under 48 markets: any closes of two holdings in AUD charted together and apart, and one of them in a currency with a rate on the second day or none | 117,000 |
| `importer` | 2 sign-ins of one user, 3 files, 1 upload name, 2 advices, 4 trades, 2 ledgers to begin with | refusals agree, nothing stranded, nothing twice | 52,000 |
| `submissions` | 4 presses of 2 forms, 2 ticks, answers kept for 1 | one record, every press answered, implements `OncePerForm` | 127,000 |
| `write_lock` | a page, a form, a statement, the feed over 2 instruments; busy 5, the thread 7 ticks | only a statement being read locks anyone out; everyone is answered | 20,000 |
| `sessions` | 1 account in 4 conditions, 2 browsers, 3 tokens, 2 secrets, 2 lists, 4 requests, 3 ticks; 2 attempts in a window of 2 | codes once, factors whole, signed out everywhere, guesses bounded | 786,000 |
| `members` | 3 accounts, 2 portfolios, 1 invitation, 1 key, owner or viewer, 3 changes, 1 request under way | an owner stays, an invitation once, only writers write | 430,000 |
| `signin` | 2 accounts, 2 subjects, 1 browser, 2 attempts, 1 invitation, 1 passkey, 1 challenge | a way in, once each | 499,000 |
| `feed` | 1 instrument, a weekday before the backfill and three after, 1 trade, 1 fault | every day closes, every rate arrives | 237,000 |
| `setup` | 1 tab, 2 databases, 2 timezones, a feature; any environment and file to begin with | one setup, and a restart that finds it, or the database the environment names | 253,000 |
| `plans` | 3 instruments of one ticker, 3 slots, 2 steps, 2 due dates | an honest preview, a sequence not shifted | 35,000 |
| `taxyears` | 7 disposals, one of them at a nearer rate and at a later close too, 2 sales, 4 years, the rules changing in the third, 2 index numbers, 2 reference periods | losses once and in the best order, nothing missing that is not named, a simulated sale that adds up | 47,000 |

Why the bounds are enough. *Parcels*: half-cents (`Grain` 2) make ties, and outlays that
3 units do not divide make every rounding go both ways; four rows are a partial sale, a
ratio and a sale after it, on both sides of 2027, or three parcels and a sale over all of
them. *Ledger*: two trades and a distribution are a buy, its reinvestment and a sale to
strand by a date, a quantity, a deletion, a consolidation or a move; larger instances were
run once, without a violation (quantities 1 and 2, 527,000 states; two distributions,
823,000; three trades, 373,000; three trades and a dialog ticked in every way, 44,000).
For *Holdings* there are a holding sold, or priced late, beside one that is not, a day with a
close of one alone, and a group that earned cash and holds nothing.
*Importer*: a file twice, two identical fills, a sell before its buy, a holding short
already, a corrected listing, an advice naming a fund twice. *Sessions*: two browsers are
a guesser and an owner, or two tabs; three ticks pass each clock. *Members*: one more
owner than is needed, and a portfolio id that comes back. *SignIn*: two callbacks of one
attempt, and an attempt by another subject of the same email. *Feed*: a hole in the
middle, at the end, and one too short to tell from a holiday; a trade before the series.
*Plans*: an instrument twice, moved, removed and added back. *TaxYears*: a loss and a gain
in either order, in the same or different years, on either side of the change, with a
third number still to come, and a loss that a nearer rate makes smaller after it was carried. *Submissions*: two forms and four presses are a first, a press
that waits, one that claims after a refusal, and one of another form. *WriteLock*: five
ticks of `Busy` outlast everyone else's turns put together, and seven of a statement's
outlast `Busy`. `CHECK_DEADLOCK` is off where a model stops at its bounds (no row, id,
press, request or day is left); it is on for `members`, `setup` and `taxyears`.

Each module's `TypeOK` was checked with the same cfg. No run keeps it: of `Parcels`, where it
says that a bill cannot go below nil, `Ledger`, `WriteLock`, `Members`, `SignIn` and `Sessions`
it is proved. The conjuncts of each inductive invariant below were checked by TLC, too, before
they were proved.

### Fairness

- `Submissions.FairSpec`: a handler ends, by finishing or refusing (`release` is in a
  `finally`), and asyncio runs a coroutine whose event was set. The 30-second timer is not
  assumed to fire, so `EveryPressAnswered` does not lean on it.
- `WriteLock.FairSpec`: time passes, a step of a request or of the feed that stays possible
  is taken, and a coroutine ready to go on (`Dispatch`, `Resume`) gets the loop when it
  keeps becoming free, since asyncio's queue is first in first out (strong fairness). Which
  waiter gets a freed lock is left open: SQLite's waiters poll.
- `Feed.Spec`: time passes, the loop's task wakes, a run and a refresh go on to their end
  (plain Python in a thread). `NewDay` is strongly fair: polls are minutes apart and over in
  seconds, so no row of them puts the next day off. Faults are `MaxFaults` at most, as a
  provider that never answers again brings nothing. Nobody is bound to refresh, trade or
  type.

## Findings

Met while modelling. Each names a definition of the module, a property that says what the
code's own words say; checked by hand with the module's cfg (or the change noted), TLC
violates it. No run checks them.

1. **A consolidation after 1 July 2027 can lose a cost base** (`Parcels`,
   `AbsorbLosesNothing`, ratio 1:2). `_Parcel.absorb` adds the 2027 amounts only when both
   parcels have them.
2. **A parcel of no units stays** (`Parcels`, `EveryParcelHolds`, ratio 1:2) when a
   consolidation rounds the whole holding to nothing, and the next sale or action divides
   by its quantity (`Crash`).
3. **Two requests on Postgres can oversell a holding** (`Ledger`, `NeverOversold`,
   `Serialised = FALSE`, two API keys): nothing is held between `_breach` and the commit.
4. **A new action is checked first in its day and saved last in it** (`Ledger`,
   `NeverOversold`, two actions of ratios 2:1 and 1:3): `queries.moment` gives it
   `row.id or 0`, where `trade_order` sorts a new trade last for this very reason.
5. **A statement read in a thread holds SQLite's write lock** (`WriteLock`,
   `NobodyLockedOut`): the loop is free, as the comment there says, but the next request
   takes it and waits for the lock on it.
6. **A signed-in account in no portfolio cannot take an invitation** (`Members`,
   `InviteeJoins`): `scoped_session` turns it away before the invitation is looked up.
7. **Linking a provider signs in** (`SignIn`, `LinkOnlyAttaches`), where the comment says
   "attach, do not sign in".
8. **A typed rate can be overwritten** (`Feed`, `TypedStands`): the repair updates by id
   alone.
9. **A live quote can replace a close until the next run** (`Feed`, `ClosesStand`): the check
   comes before the wait for the lock.
10. **Redirects of the wizard can loop** (`Setup`, `NoWizardPathLoops`): a bookmark of a later
    step with the welcome step not done, or a restart before the finish. Also, two tabs that
    create the first account at once both succeed (app/main.py:1294), which is why the run has
    one tab: two violate `SetupOnce`.
11. **A feature switched off in the wizard may not take effect** (`Setup`,
    `FinishTakesEffect`): `needs_restart` does not name it.
12. **A moved trade's slot is not offered again** (`Plans`, `MovedOfferedAgain`), where
    `_release_for_move` says it should be. Also, an instrument listed twice and reduced to
    once keeps its first row, so that the second's history no longer says where the rotation
    stands, and `_verify_next` compares a ticker, which two exchanges may share.
13. **A code can turn a factor off twice on Postgres** (`Sessions`, `CodesProveOnce`, with six
    requests): `profile_2fa_disable` reads the secret, waits for its thread (app/main.py:2605)
    and takes the code against what it read, so that of two such requests with one code both
    succeed, and the second may turn off a factor enrolled after the first.

14. **A database form is taken where the environment names a database** (`Setup`,
    `EnvironmentStands`): the page is drawn only where nothing does (app/main.py:1163), as
    docs/reference/configuration.md:22-26 says, but `setup_database_test` and
    `setup_database_save` (app/main.py:1213, 1236) ask only for the step, so a form drawn
    earlier connects another database while there is no account. The account and config.yaml go
    with it, and a restart comes back to the environment's.

`RestartFindsTheSame` says what holds beside 14: where the environment names a database, the
one served is that or the one config.yaml names, and everywhere else a restart finds it.
`NeverOversold` is checked, and proved, to hold where 3 and 4 cannot happen: on SQLite, when
no new action joins another of its day. `OneUseEach` is what holds where 13 does not reach: a
step of the factor an account still has proves one thing once.

## Proofs

Each proof is for every value of the constants its module's assumption allows, and each
invariant is proved the same way: an inductive invariant `IInv`, one lemma an action, joined
in the lemma of `Next`. What is said below is what `IInv` has to add, and why.

### Parcels

`ParcelsProofs`, from `ParcelsAssumption` (quantities and ratios above zero, outlays and
prices not below it), for every timeline:

- `TypeCorrect`, `BillsAddUp` (`BilledToDate`, the running-total argument of `_Parcel`'s
  docstring), `BillsBounded` (`BillsInRange`), `FirstInFirstOut` (`OldestFirst`);
- `WalksAgree` (`UnitsAgree`), `ProceedsAddUp` (`ProceedsWhole`), `CostIsConserved`
  (`CostConserved`), over parcels and uses of any number.

`IInv` joins:

- `TypeOK`, where a share's total and what was billed from it are in Nat, so a bill
  cannot go below nil;
- `Queue`: every parcel is sound (its bills are what its consumed units owe, and no more
  units are left than it had), and the parcels are in order by id and by day, with every
  id below the next row's;
- `UsesOK`: what a sale has used is billed no less than nothing and is no younger than
  what is left;
- one conjunct for each loop (`SellOK`, `TallyOK`, `ShareOK`, `AbsorbOK`, `AdjustOK`,
  `DeemOK`): what its locals mean while it runs. A split gives its last parcel the new
  total less what the others had, so the units seen must not pass the units tallied; the
  running totals of the tally, a function from parcels to units, are kept as an
  existential witness of that from the first loop to the second.

What carries it is arithmetic: half-even rounding is monotone, keeps whole numbers and depends
on the quotient alone (`RoundMonotone`, `RoundExact`, `RoundCancel`), so a running total's
differences are never negative (`OwedRange`, `TakeSound`), and a parcel that begins again owes
nothing for the units not yet sold (`RestartParcelSound`). The order rests on lemmas about
queues (`QueueTail`, `QueueRemove`, `QueueAppend`).

The three sums say something only between rows, so each is joined by what it means within a
loop. `UnitsCount`: a sale under way has still to take what the parcels hold above the balance;
a split's first loop has tallied the parcels behind it; its second has given them what its
running total says, and the rest hold what they did. `ProceedsCount`: the uses so far have
what the running total owes the units so far, which at the end is all of the net proceeds,
those being whole cents. `CostCount`: paid in less billed out is what the parcels hold, to half
a cent for each parcel used up, at every step and not only between rows; while every figure is
known every parcel's cost is. They rest on `SumPut` and `SumRemove`: what putting or
removing one entry does to the sum of a sequence of any length.

### Ledger

`LedgerProofs`, for any number of rows, portfolios and API keys. On SQLite and on Postgres,
from `LedgerAssumption` alone:

- `TypeCorrect`, `PairsStayWhole` (`PairWhole`), `StepsStayHonest` (`StepHonest`),
  `StepsKeepHistory`;
- `DialogsAreComplete` (`DialogComplete`).

And on SQLite (`ASSUME Serialised`), under `[][NewActionAlone]_vars`:

- `NothingOversold` (`NeverOversold`). The two hypotheses are findings 3 and 4 turned around,
  and nothing more: requests do not overlap, and no new action joins another of its day.

On Postgres what a request saves was decided on tables that may have changed since, so
the invariant has to say what is under way, too. `Sound(w)` says that saving `w` now keeps
the tables right: a distribution it puts comes with its units, one it leaves has its
units left alone, and the same of steps and their trades. `PendingOK` says that the web's
request under way is `Sound`, and that each API key's puts new rows of its own (`ApiWrite`,
`New`, `Apart`). Every handler's write is sound when it is decided (one lemma a handler:
`TradeEditKeeps` ... `MoveKeeps`), stays so while API requests commit (`StillSound`:
they never touch a row that is there), and keeps the tables right when saved
(`SaveSound`). That new ids are above every id in use or under way is `NewIds`. The
argument shows what it rests on: the web's handlers never overlap each other, and the API
only adds rows. These are the Postgres half of the `ledger` run, which is SQLite's.

`NothingOversold` goes by `Fitting`: nothing is oversold, and what the one request under way
would save (`Fits`) oversells nothing either. It needs lemmas about the walk of a timeline: two
timelines whose rows are alike, but for their ids, walk alike (`AlikeWalks`); and one with a buy
more holds no less at every later row, since `SplitUnits` is monotone (`GainWalks`), which is
why a buy saved without a check needs none. A new action is judged as if first of its day and
saved last in it, which is the same place when it is alone (`ActionAdded`).

`DialogsAreComplete` is about the loop of `expand`, unrolled round by round: the row at which a
walk first goes short is a sell (`FirstShort`), and a pair's half is not, so no pair is
pulled in; each round pulls in a trade or has found nothing short, and there are no more
rounds than trades (`MovingEnds`).

### Submissions

`FormsProofs`, for any presses and forms: `SavedOnce` (`OneRecord`) and `Implements`, that
the two dictionaries and the coroutines implement `OncePerForm` step by step. Both are under
`[]Room`: fewer than LIMIT (10,000) claims are live. Beyond it `_prune` drops the oldest claim
there is, which is the hazard at app/submissions.py:46 that no property covers. `IInv` says that
claims, events and presses at work are the same forms' (`ClaimsOK`); that a press waits for
the event its form has, or its event is set and the answer is still remembered (`WaitersOK`);
and that an answer is remembered for TTL after its record and no longer (`AnswersOK`). Without
the second a press woken late could claim its form again and make its record twice.

### WriteLock

`DatabaseProofs`, for any requests: `TypeCorrect`, and `OrdinaryWorkLocksNobodyOut`
(`OnlySlowWorkLocksOut`) `ASSUME Patient`: finitely many requests, and `Busy` no less than
their number and the feed's instruments together. The code's `busy_timeout` is seconds and a
turn milliseconds, so this is its margin for as many requests as come at once. No fairness of
the lock is needed, for `Orderly` counts: while no slow request is away with the lock, it
passes to another at every tick, so the ticks that passed are at most those who are over, and
nobody has waited longer.

### Plans

`FormsProofs`, for any instruments, intervals, dates and drafts: `PlanTypeCorrect`,
`PreviewIsHonest` (`PreviewHonest`) and `PlanKeepsItsPlace` (`KeepsItsPlace`), from
`PlansAssumption`. `PlanInv` says that no two slots are one
row, and that a step which names a slot names one of its own instrument's: a slot changes its
place and never its instrument. The rest is what the operators compute:

- `_reusable` gives a row to one place at most (`RowsDiffer`), and a place without one an id
  that is free and no other place's (`NewIdIs`, from `FreeIs`: among as many numbers as are
  taken, and n more, n are free), so that what is saved is again distinct rows (`SavedSlots`);
- what a draft keeps has in the draft the place it has once saved (`PlacesStay`), and the last
  of the steps is one step, whatever else changes (`LastIs`, `LastSame`); so the rotation
  stands, saved, where the preview had it (`NextStays`);
- with no instrument twice, a row is kept exactly when its instrument is, so the steps that
  still name a row are those whose instrument is still there (`SaveCarriesOn`,
  `RemoveCarriesOn`). With one twice this is false: see finding 12.

### Setup

`DatabaseProofs`, for any databases and timezones: `SetupInvariant`, `SetupTypeCorrect`,
`RestartIsHarmless` (`RestartFindsTheSame`) and `SetUpOnce` (`SetupOnce`), from
`SetupAssumption` and `ASSUME OnePage`: the wizard is open in one page, for two violate
`SetupOnce` (finding 10). `SetupInv` relates what no single form looks at:

- where neither the file nor the environment names the database being served, the draft
  chose it, or a page is between connecting and filling the draft in (`Served`, `DraftOK`);
  so a finish writes what is served;
- the timezone in use is the draft's, or else the file's (`ZoneOK`);
- a form under way was let through by the gate and is so still: it is the database it
  connected to that is served, and nobody has an account there (`FormOK`). This is what the await in the middle of a form could have made stale.

Nothing in it asks what the environment names: a form may connect another database all the
same (finding 14), and then the restart finds the environment's. `Served` and `ZoneOK` are for a
file that can be written; where it cannot, the finish is
refused, and a restart may well find something else.

### Importer

`DatabaseProofs`, for any files, advices, ledgers and sign-ins: `ImportTypeCorrect`,
`AdvicesRecordedOnce` (`AdvicesOnce`), `ImportsMerge` (`ImportMerges`), `ImportsNeverShort`
(`NeverShort`) and `RefusalsAlwaysAgree` (`RefusalsAgree`), from `ImporterAssumption`: a ledger is rows of the table, each with its own id,
to begin with, and a file is lines. `ImportInv`, the types and `AdvicesOnce`, is inductive: a
request keeps the rows it read when its form arrives later, so their types are in it too. Nothing
else is assumed of them, and the two step properties hold however stale they are. What the
operators compute is most of the proof:

- a finite set in an order is listed in it, once each (`Ranked`), so a timeline is all of its
  entries (`TimelineIs`), and there is one such list (`OneList`);
- a trade answers for one row: at each step of the two passes, the rows of a kind that are
  claimed are as many as the trades of that kind (`Balanced`); after the second, all of one or
  all of the other are (`ClaimsAre`). What is inserted is the rest, and so the greater of the two
  is recorded (`CommitMerges`);
- the totals of some entries on a longer timeline are the totals of their own (`SumsAre`). So
  what the recorded trades after a place need is at most what they leave there (`PassAfloat`,
  backwards from the end), and with nothing refused the units of the pass never go below it
  (forwards from the start);
- a row is walked as unsaved, after the saved trades of its moment, and recorded with a larger id
  than theirs: the two timelines are one, place for place (`CommitAfloat`, by `MatchAfloat`). So
  what was refused or let through before the insert is right after it;
- the single pass and the walk row by row refuse the same, for the same breaches (`PassAgrees`).
  The walk is laid beside the pass on the timeline of everything, and `Together` holds at each
  place of it: what each has refused is the same, the pass has as many units as the recorded
  trades and the rows accepted so far come to, and its breach is the first of those. A row's own
  walk is then the pass's sum with that row in it: there is as much as `need` says just when that
  sum stays at nothing or more from there on (`NeedTells`), and where it does not,
  `_first_below`, whose runs double, ends at the first place it fails (`FirstBelowIs`, `LaterIs`).
  A ledger may be short already, which is why `Together` says what the breach is.

### Members, SignIn, Sessions

`MembersProofs`, for any accounts, portfolios, invitations and keys: `TypeCorrect`,
`OwnersKept` (`OwnerKept`), `InvitedOnce` (`InviteOnce`), `OnlyWritersWrite`
(`WritesAllowed`). `TypeOK` carries more than types here: that no row of any table names a
portfolio that is gone, which is what keeps an id used again from being written by the old
one's members. `HeldOK` is about the requests that await a thread with an invitation in hand,
and `InvitesOK` that an invitation still usable has made nobody.

`SignInProofs`, for any accounts, subjects and browsers: `TypeCorrect`, `AWayInIsKept`
(`WayIn`), `GoodOnce` (`OnceEach`). A callback comes back from the provider to tables that have
changed, so `MadeOK` says that the account it links to still exists, and `ChallengesOK` that a
challenge still stored was not accepted.

`SessionsProofs`, for any people, browsers, clocks and settings: `TypeCorrect`,
`EachUsedOnce` (`OneUseEach`), `BothFactors` (`TwoFactors`), `NoneLeft`
(`SignedOutEverywhere`), `GuessesAreBounded` (`GuessesBounded`). What they need of the
requests in a thread: one that holds its session's row still has that session (`HoldersOK`); a
secret on its way to a profile page is nobody's yet (`SecretsOK`); a code once accepted is over
(`AcceptedOK`: gone from its list, or no later than the stored step, or its secret gone for
good); and the guesses under way are counted with those made (`GuessesOK`), which is why the
bound has the browsers in it.

### TaxYears

`TaxYearsProofs`, from `YearsAssumption` (years in order, disposals of their type, index
numbers above zero), for any sales, rates, closes and index numbers:

- `TypeCorrect`;
- `NoLossTwice` (`LossesOnce`), `OrderIsBest` (`LeastGain`), `WhatIsMissingIsNamed`
  (`MissingIsNamed`) and `SimulationAddsUp` (`SaleAddsUp`).

No figure is stored, so the invariant is small: `TypeOK`, and that a recorded sale is numbered
from one, so that a simulated one is never among them. The work is in what a view computes,
in four layers:

- the netting of one year, for every amount: `NettedBalances` (gains less losses are what is
  taxed and discounted, less what is added to the losses carried on), `NeverBoth` (a year with a
  net capital loss has no net capital gain and uses nothing carried in), `OrderIsLeast` (with no
  gain from 1 July 2027, no other order of the losses leaves less to tax), `CarriedOutIs`, and
  `IndexingMakesNoLoss`. They rest on two lemmas about `Applied`, the code's loop over the three
  kinds of gain: what it uses is the lesser of the losses and the gains, and no kind's share
  passes the kind;
- the sums that bring the sales into it: `SumFunction` takes the parts of a set in an order of
  its own, so its recursive function is shown to exist (`SumsExist`), and any element to be as
  good as the last (`SumRemove`). A use's parts, and so a sale's amounts of the four kinds, are
  all of what it gains (`UseAddsUp`, `SaleSplits`), so a sale more adds to its year exactly its
  gain (`GainsWith`);
- the years in turn: `upTo` of `FyCgt` exists, and a year is the first or is worked out of the
  one before it (`FyIs`, `FyFollows`); the years add up because each does (`RunAdds`);
- what is known stays so: facts that only add to others give every sale whose figures were
  known the same figures (`FactorStays`, `UseStays`, `YearStays`), and name nothing where the
  others did (`NamesStay`). A first rate, a first close or an index number not stored yet only
  adds (`ArrivalAdds`), so a year that names nothing rests on nothing missing. It is not final: a
  nearer rate or close and a new reference period replace what it was worked from, and an
  estimated index number is replaced by the published one, so that the theorem is about the
  report, whose estimate is off.

### Induction, and what stays with TLC

The library's induction theorems take an operator, which none of the provers can instantiate.
Where a proof is by induction (a sum, a walk, the rounds of `expand`) it goes by a least
counterexample instead: a set of numbers that is not empty has a least member (`LeastNat`, from
`WFMin`), so a set of indices closed under successor is all of them (`Climb`, `UpTo`).

Only model-checked: `ReadersAgree`, whose walks are folds of the community modules; everything
of `Feed`; and what is temporal beyond invariance
(`EveryPressAnswered`, `EveryRequestEnds`, `EveryDayCloses`, `RateArrives`), since the prover
has no liveness under fairness.

## What is left out

- *Parcels*: the native-currency cost, which follows the same formulas; brokerage and price,
  which reach the walk as one figure; franking; the report's layout.
- *TaxYears*: rates and closes themselves, of which only their effect is kept (a sale's figures
  become others when a nearer rate or a later close is stored); quarters within a year; the
  wording of what was left out; the top-up of the tax rate; the order in which a simulated
  sale fills. The simulator estimates the latest CPI for recorded sales too, as here.
- *Ledger*: returns of capital and adjustments, which move no units; money and notes; times of
  day, whose effect, a trade placed among the day's others, a larger id gives.
- *Holdings*: returns of capital; percentages, and the years and periods worked out from a line;
  its flow net of sales; an instrument a portfolio has a setting or a plan for and nothing else;
  a rate typed into a row (it is taken to be the stored one); the average price and what the
  units held cost, which is `Parcels`' walk.
- *Importer*: holdings with a split, for which the code itself walks row by row; text.
- *Sessions*, *SignIn*, *Members*: hashing, signatures, tokens and CSRF tokens; two half-open
  profile pages showing two secrets; a rehash that writes a hash back (app/main.py:1738).
- *Feed*: names, sectors, announced distributions, several markets.
- *Setup*: rows of an older schema claimed by the first account, form parsing, the progress
  rail, settings the environment overrides other than the database, and the three other
  reasons for a restart.
- *Plans*: the parking of positions while a rotation is renumbered (one statement each, in one
  transaction), amounts, the form's prefill, the suggested rotation, the calendar.

## Not modelled

Listed with reasons in `PROJECT.json` under "components". In short: rendering (exports,
charts, templates, static), text processing (statement and CSV parsing, OCR, format
designers), migrations and deployment have no state a model checker would help with; the
log's ring rests on one lock. The series cache is keyed by counts, largest ids and the latest
update times, which are Python's, taken when a row is flushed (`models._utcnow`): on SQLite the
write lock puts stamps and commits in one order; on Postgres an edit flushed before an API
key's later row and committed after it, with a read between, leaves the key as it was. That
needs two sessions, a stamp each and a reader in an order a model would only repeat.

## Next

`ReadersAgree`, by what a fold over a timeline keeps; then `Feed`, whose invariants are only
model-checked.
