--------------------------------- MODULE Plans ---------------------------------
(***************************************************************************)
(* One portfolio's investment plan (src/app/plans.py): the rotation it     *)
(* buys, the steps recorded against its slots, and every handler of        *)
(* src/app/main.py that changes either.                                    *)
(*                                                                         *)
(* What is next is computed from the slot the last recorded step names, so *)
(* a slot keeps its row while its instrument stays in the rotation.  Every *)
(* writer is one handler on the event loop with nothing awaited once it    *)
(* has read the plan, so each is one step.  A form is posted with the      *)
(* ticker and the due date it showed, whenever that was.                   *)
(*                                                                         *)
(* Amounts, names and notes are left out, and so are trades the plan did   *)
(* not record.  Slots are kept in order of position, which the code keeps  *)
(* at 0 .. n - 1.  Dates are numbers.                                      *)
(*                                                                         *)
(* The specification is named for the module, which FormsProofs extends    *)
(* together with Submissions.                                              *)
(***************************************************************************)
EXTENDS Integers, FiniteSets, Sequences

CONSTANTS
    Instruments,
    Ticker,         \* instrument -> its ticker: two exchanges may list one
    Intervals,      \* days between buys
    Starts,         \* start dates a form may give, and NULL
    Today,          \* it dates the first buy of a plan without a start
    Dues,           \* due dates a form may show
    MaxSlots,       \* bounds: the longest rotation
    MaxSteps,       \* the most steps recorded
    NULL            \* SQL NULL, and no row

ASSUME PlansAssumption ==
    /\ DOMAIN Ticker = Instruments
    /\ Intervals \subseteq Nat \ {0} /\ Starts \subseteq Int \cup {NULL}
    /\ Today \in Int /\ MaxSlots \in Nat /\ MaxSteps \in Nat
    /\ NULL \notin Int \cup [interval : Intervals, start : Starts]

VARIABLES
    plan,           \* the InvestmentPlan row, or NULL
    entries,        \* its InvestmentPlanEntry rows, in order
    steps,          \* id -> PlannedPurchase row
    drawn           \* history: what the preview drew of the draft just saved

PlanVars == <<plan, entries, steps, drawn>>

\* _rotation: what a form's tickers come to when each names one holding; a ticker
\* held on two exchanges names its listing.
Drafts == UNION {[1 .. n -> Instruments] : n \in 0 .. MaxSlots}

\* The rows.  `trade` is whether the step still names one.
InvestmentPlan == [interval : Intervals, start : Starts]
InvestmentPlanEntry == [id : Nat, instrument : Instruments]
PlannedPurchase == [status : {"planned", "done", "skipped"}, trade : BOOLEAN, due : Int,
                    instrument : Instruments, entry : Nat \cup {NULL}]

Ids(slots) == {slots[k].id : k \in DOMAIN slots}

\* The n-th number that `used` leaves free.  An id is a name, and stands for the n-th
\* new row's: no step names a row that is gone, so its id may be used again.
Free(used, n) ==
    CHOOSE id \in 1 .. Cardinality(used) + n :
        id \notin used /\ Cardinality({j \in 1 .. id : j \notin used}) = n

-----------------------------------------------------------------------------
(***************************************************************************)
(* Where the rotation stands.                                              *)
(***************************************************************************)
rotation == [k \in DOMAIN entries |-> entries[k].instrument]

\* Which of its instrument's places a place is.
Nth(draft, k) == Cardinality({j \in 1 .. k : draft[j] = draft[k]})

\* A mutant of Row: a row is kept only where its instrument stands already.
RowInPlace(draft, k) ==
    {j \in DOMAIN entries : entries[j].instrument = draft[k] /\ j = k}

\* The row a place of the draft is given, if there is one: an instrument's rows
\* go to its places in order, wherever it moves to.
Row(draft, k) ==
    {j \in DOMAIN entries :
        /\ entries[j].instrument = draft[k]
        /\ Nth(rotation, j) = Nth(draft, k)}

\* positions, of _next_position: where in the draft each kept row goes.
positions(draft) ==
    LET kept == {k \in DOMAIN draft : Row(draft, k) # {}}
        at == [k \in kept |-> entries[CHOOSE j \in Row(draft, k) : TRUE].id]
    IN  [id \in {at[k] : k \in kept} |-> CHOOSE k \in kept : at[k] = id]

\* history: by due date, and the last of `ids` in it.
LastOf(ids) ==
    CHOOSE s \in ids : \A r \in ids \ {s} :
        \/ steps[s].due > steps[r].due
        \/ steps[s].due = steps[r].due /\ s > r

\* _next_position: the place after the last recorded one that the draft keeps,
\* and otherwise a count of what was recorded.
_next_position(draft) ==
    LET at == positions(draft)
        past == {s \in DOMAIN steps : steps[s].entry \in DOMAIN at}
    IN  IF draft = <<>> THEN 0
        ELSE IF past = {} THEN Cardinality(DOMAIN steps) % Len(draft)
        ELSE at[steps[LastOf(past)].entry] % Len(draft)

\* anchor: the date the next buy follows.
last_due(interval, start) ==
    IF DOMAIN steps # {} THEN steps[LastOf(DOMAIN steps)].due
    ELSE (IF start # NULL THEN start ELSE Today) - interval

\* project: the first `upcoming` buys a rotation produces.
project(draft, interval, position, last, upcoming) ==
    [i \in 1 .. (IF draft = <<>> THEN 0 ELSE upcoming) |->
        [due |-> last + interval * i,
         instrument |-> draft[((position + i - 1) % Len(draft)) + 1]]]

\* A mutant of preview: the draft is drawn from the slot number the saved
\* rotation stands at.
PreviewBySlot(draft, interval, start, upcoming) ==
    project(draft, interval, _next_position(rotation), last_due(interval, start), upcoming)

preview(draft, interval, start, upcoming) ==
    project(draft, interval, _next_position(draft), last_due(interval, start), upcoming)

schedule(upcoming) ==
    IF plan = NULL THEN <<>>
    ELSE project(rotation, plan.interval, _next_position(rotation),
                 last_due(plan.interval, plan.start), upcoming)

\* The slot next_buy names.
NextSlot == entries[_next_position(rotation) + 1]

-----------------------------------------------------------------------------
(***************************************************************************)
(* The handlers.                                                           *)
(***************************************************************************)
PlanInit == plan = NULL /\ entries = <<>> /\ steps = [s \in {} |-> NULL] /\ drawn = <<>>

\* planned_purchase.plan_entry_id is ON DELETE SET NULL: only the rows in `stay`
\* are named.
Unslotted(stay) ==
    [s \in DOMAIN steps |->
        IF steps[s].entry \in stay THEN steps[s] ELSE [steps[s] EXCEPT !.entry = NULL]]

\* set_entries: a place without a row is given a new one, and the rows without a
\* place are deleted.
set_entries(draft) ==
    LET kept == DOMAIN positions(draft)
        new == {k \in DOMAIN draft : Row(draft, k) = {}}
    IN  /\ entries' = [k \in DOMAIN draft |->
                          [id |-> IF k \in new THEN Free(kept, Cardinality(new \cap 1 .. k))
                                  ELSE entries[CHOOSE j \in Row(draft, k) : TRUE].id,
                           instrument |-> draft[k]]]
        /\ steps' = Unslotted(kept)

\* POST /schedule/preview, of the form about to be saved; it refuses what saving would.
plan_preview(draft, interval, start) == preview(draft, interval, start, MaxSlots + 1)

\* POST /schedule/save: the first save makes the plan.  The draft names the
\* portfolio's holdings; one that was removed is added back first, which changes
\* nothing here.
plan_save(draft, interval, start) ==
    /\ plan' = [interval |-> interval, start |-> start]
    /\ set_entries(draft)
    /\ drawn' = plan_preview(draft, interval, start)

\* _verify_next: the form's ticker and date are still the next buy's.  That buy is
\* recorded, for a trade or not.
Record(ticker, due, status, traded) ==
    /\ plan # NULL /\ entries # <<>>
    /\ LET nxt == schedule(1)[1]
           step == [due |-> nxt.due, instrument |-> nxt.instrument,
                    entry |-> NextSlot.id, status |-> status, trade |-> traded]
           new == Free(DOMAIN steps, 1)
       IN  /\ Ticker[nxt.instrument] = ticker /\ nxt.due = due
           /\ steps' = [s \in DOMAIN steps \cup {new} |-> IF s = new THEN step ELSE steps[s]]
    /\ UNCHANGED <<plan, entries>>

\* POST /schedule/complete and POST /schedule/skip, of a form that showed
\* `ticker` on `due`.
plan_complete(ticker, due) == Record(ticker, due, "done", TRUE)

plan_skip(ticker, due) == Record(ticker, due, "skipped", FALSE)

\* POST /schedule/delete: the rotation goes with the plan.
plan_delete ==
    /\ plan # NULL
    /\ plan' = NULL /\ entries' = <<>>
    /\ steps' = Unslotted({})

\* The slots left keep their rows, closed up: the n-th is the n-th that is not gone.
remove_instrument(i) ==
    LET gone == {k \in DOMAIN entries : entries[k].instrument = i}
        left == [n \in 1 .. Len(entries) - Cardinality(gone) |-> entries[Free(gone, n)]]
    IN  /\ entries' = left
        /\ steps' = Unslotted(Ids(left))

\* POST /holdings/{id}/remove, refused while a trade is recorded.
instrument_remove(i) ==
    /\ \A s \in DOMAIN steps : steps[s].instrument = i => ~steps[s].trade
    /\ remove_instrument(i)
    /\ UNCHANGED plan

\* _release_planned_purchases: the trade a step recorded is deleted.
trade_delete(s) ==
    /\ steps[s].trade
    /\ steps' = [steps EXCEPT ![s].trade = FALSE]
    /\ UNCHANGED <<plan, entries>>

\* _release_for_move: it is moved to another portfolio.
trade_move(s) ==
    /\ steps[s].trade
    /\ steps' = [steps EXCEPT ![s].trade = FALSE, ![s].status = "planned"]
    /\ UNCHANGED <<plan, entries>>

Other ==
    \/ /\ Cardinality(DOMAIN steps) < MaxSteps
       /\ \E ticker \in {Ticker[i] : i \in Instruments}, due \in Dues :
             plan_complete(ticker, due) \/ plan_skip(ticker, due)
    \/ plan_delete
    \/ \E i \in Instruments : instrument_remove(i)
    \/ \E s \in DOMAIN steps : trade_delete(s) \/ trade_move(s)

PlanNext ==
    \/ \E draft \in Drafts, interval \in Intervals, start \in Starts :
          plan_save(draft, interval, start)
    \/ Other /\ drawn' = <<>>

PlanSpec == PlanInit /\ [][PlanNext]_PlanVars

-----------------------------------------------------------------------------
(***************************************************************************)
(* Properties.                                                             *)
(***************************************************************************)
\* Slots are distinct rows, and a step that names one names one of its own
\* instrument's.
PlanTypeOK ==
    /\ plan \in InvestmentPlan \cup {NULL}
    /\ plan = NULL => entries = <<>>
    /\ \A k \in DOMAIN entries : entries[k] \in InvestmentPlanEntry
    /\ \A j, k \in DOMAIN entries : entries[j].id = entries[k].id => j = k
    /\ \A s \in DOMAIN steps :
          /\ steps[s] \in PlannedPurchase
          /\ steps[s].trade => steps[s].status = "done"
          /\ steps[s].entry # NULL =>
                \E k \in DOMAIN entries :
                    entries[k] = [id |-> steps[s].entry, instrument |-> steps[s].instrument]

\* Saving a draft produces the buys its preview drew (plan_preview: "the preview
\* cannot drift from it").
PreviewHonest == drawn # <<>> => schedule(MaxSlots + 1) = drawn

Unrepeated(draft) == \A j, k \in DOMAIN draft : draft[j] = draft[k] => j = k

\* However a rotation is edited, the next buy is the slot after the last one
\* recorded that is still in it ("inserting or reordering instruments later
\* does not shift the sequence").
KeepsItsPlace ==
    [][LET kept == {s \in DOMAIN steps : /\ steps[s].entry # NULL
                                         /\ \E k \in DOMAIN entries' :
                                               entries'[k].instrument = steps[s].instrument}
       IN  /\ entries' # entries /\ kept # {}
           /\ Unrepeated(rotation) /\ Unrepeated(rotation')
           => \E k \in DOMAIN entries' :
                 /\ entries'[k].instrument = steps[LastOf(kept)].instrument
                 /\ NextSlot' = entries'[(k % Len(entries')) + 1]]_PlanVars

\* A step whose trade has moved away is the next buy again if it was the last
\* (_release_for_move: "the slot is genuinely unfilled and the schedule should
\* offer it again").
MovedOfferedAgain ==
    DOMAIN steps # {} =>
        LET last == steps[LastOf(DOMAIN steps)]
        IN  last.status = "planned" /\ last.entry # NULL => NextSlot.id = last.entry

=============================================================================
