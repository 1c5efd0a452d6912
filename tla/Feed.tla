-------------------------------- MODULE Feed --------------------------------
(***************************************************************************)
(* The price feed of src/app/pricefeed.py and the tasks of                  *)
(* src/app/main.py that drive it: the daily loop with its retry, a manual   *)
(* refresh, the run itself (closes per instrument, rates of one currency,   *)
(* the repair of missing rates), the live quotes that write the unfinished  *)
(* day, and a person who adds instruments and trades meanwhile.             *)
(*                                                                          *)
(* A day of the model is a weekday.  A price is "close" when the feed       *)
(* stored what the market finished at, "live" when a quote wrote it         *)
(* (provisional), and "early" if the feed ever stored a day as settled      *)
(* before it was.  Amounts are left out: what matters is which days are     *)
(* stored, as what, and which day's rate a trade was given.                 *)
(***************************************************************************)
EXTENDS Integers, Sequences, FiniteSets, FiniteSetsExt

CONSTANTS Insts,          \* the instruments that may be in the catalogue
          MaxDay,         \* bound: the days of the model
          BackfillStart,  \* price_feed.backfill_start
          Sparse,         \* rows below which a series is not one (30)
          GapDays,        \* GAP_WEEKDAYS
          Reach,          \* FX_REACH_DAYS
          FeedPhase,      \* where in the market's day the feed's hh:mm falls
          TradeDays,      \* bound: the days the trade may be dated
          MaxFaults       \* bound: answers that fail or fall short, runs that die

ASSUME FeedAssumption == /\ MaxDay \in Nat /\ BackfillStart \in 1..MaxDay
                         /\ FeedPhase \in {"open", "bell", "settled"}
                         /\ TradeDays \subseteq 1..MaxDay
                         /\ {Sparse, GapDays, Reach, MaxFaults} \subseteq Nat

VARIABLES day, phase,     \* the clock, and where the market's day is
          eve,            \* today's hh:mm of the feed: ahead, due or passed
          catalogue,      \* the instruments with a yahoo_symbol
          price,          \* instrument -> day -> how its row is stored
          rates,          \* the days the pair has a rate stored for
          trade,          \* one foreign trade: its day and the day of its rate
          feed,           \* the run in flight, behind _feed_lock
          loop,           \* what _feed_loop sleeps until
          quote,          \* the quote refresh in flight, behind _quote_lock
          faults          \* how many of MaxFaults are used

vars == <<day, phase, eve, catalogue, price, rates, trade, feed, loop, quote, faults>>

Days == 1..MaxDay
NoRate == 0
Typed == -1               \* a rate the person typed
Idle == [pc |-> "idle", by |-> "none", todo |-> {}, spans |-> <<>>]
NoQuote == [pc |-> "idle", day |-> 0]

Init == /\ day = BackfillStart /\ phase = "open" /\ eve = "ahead"
        /\ catalogue = {} /\ price = [i \in Insts |-> [d \in Days |-> "none"]]
        /\ rates = {} /\ trade = [day |-> 0, rate |-> NoRate]
        /\ feed = Idle /\ loop = "boot" /\ quote = NoQuote /\ faults = 0

-----------------------------------------------------------------------------
(* What the series says about where to ask next.                            *)

Closes(i) == {d \in Days : price[i][d] = "close"}

\* The last day whose price is final: a bell is not a settled close.
settled_through == IF phase = "settled" THEN day ELSE day - 1

\* A rate has no exchange: yesterday's is the last that is final.
fx_settled_through == day - 1

\* From the last stored day, unless the series is a handful or too sparse.
_fetch_start(S) ==
    IF Cardinality(S) < Sparse \/ S = {} THEN BackfillStart
    ELSE LET span == Max({1, Max(S) - Min(S)})
         IN IF 10 * Cardinality(S) < 6 * span THEN BackfillStart ELSE Max(S) + 1

\* The first days of holes in the middle; a short one is taken for a holiday.
Gaps(S) == {d \in Days \ S :
              /\ d - 1 \in S
              /\ \E e \in S : e - d >= GapDays /\ S \cap (d..e) = {e}}

\* A bug the runs plant: only the end of the series is looked at.
ResumeAtEnd(S) == _fetch_start(S)

ResumeAt(S) == Min({_fetch_start(S)} \cup Gaps(S))

PriceSpans(i) == <<<<ResumeAt(Closes(i)), settled_through>>>>

\* A bug the runs plant: rates from backfill_start, whatever was traded before.
FxSpansFromStart == <<<<_fetch_start(rates), fx_settled_through>>>>

\* The rates start a week before the first trade: a span of its own before a
\* series that begins later.
FxSpans ==
    LET start == _fetch_start(rates)
        head == trade.day - Reach
    IN IF trade.day = 0 \/ (rates # {} /\ Min(rates) <= trade.day)
       THEN <<<<start, fx_settled_through>>>>
       ELSE IF rates = {} \/ head >= start
            THEN <<<<Min({start, head}), fx_settled_through>>>>
            ELSE <<<<head, Min(rates) - 1>>, <<start, fx_settled_through>>>>

Asked(spans) == SelectSeq(spans, LAMBDA s : s[1] <= s[2])

-----------------------------------------------------------------------------
(* The run.                                                                 *)

StartRun(by, todo) ==
    feed' = [pc |-> IF todo = {} THEN "repair" ELSE "ask", by |-> by,
             todo |-> todo, spans |-> <<>>]

\* What comes after an instrument is done with: the next, or the rates.
NextUp(todo) == [feed EXCEPT !.pc = IF todo = {} THEN "fxask" ELSE "ask",
                             !.todo = todo, !.spans = <<>>]

\* run_feed, per instrument: read what is settled, decide the span.
Ask == /\ feed.pc = "ask"
       /\ \E i \in feed.todo :
            LET spans == Asked(PriceSpans(i))
            IN feed' = IF spans = <<>> THEN NextUp(feed.todo \ {i})
                       ELSE [feed EXCEPT !.pc = "fetch", !.spans = <<<<i>>>> \o spans]
       /\ UNCHANGED <<day, phase, eve, catalogue, price, rates, trade, loop, quote, faults>>

\* providers.fetch: the first provider with rows answers for the whole span;
\* a fault is a short answer, or ({}) nobody answering.
Answer(span, rows) ==
    LET there == Days \cap (span[1]..span[2])
    IN \/ rows = there /\ UNCHANGED faults
       \/ /\ faults < MaxFaults /\ rows \in SUBSET there /\ rows # there
          /\ faults' = faults + 1

\* What the market's number for day d is, asked for now.
Answered(d) == IF d < day \/ phase = "settled" THEN "close" ELSE "early"

\* One instrument's rows are upserted and committed, over live ones too.
Fetch == /\ feed.pc = "fetch"
         /\ LET i == feed.spans[1][1] IN
            \E rows \in SUBSET Days :
              /\ Answer(feed.spans[2], rows)
              /\ price' = [price EXCEPT ![i] =
                             [d \in Days |-> IF d \in rows THEN Answered(d) ELSE @[d]]]
              /\ feed' = NextUp(feed.todo \ {i})
         /\ UNCHANGED <<day, phase, eve, catalogue, rates, trade, loop, quote>>

FxAsk == /\ feed.pc = "fxask"
         /\ LET spans == Asked(FxSpans)
            IN feed' = [feed EXCEPT !.pc = IF spans = <<>> THEN "repair" ELSE "fxfetch",
                                    !.spans = spans]
         /\ UNCHANGED <<day, phase, eve, catalogue, price, rates, trade, loop, quote, faults>>

FxFetch == /\ feed.pc = "fxfetch"
           /\ \E rows \in SUBSET Days :
                /\ Answer(Head(feed.spans), rows)
                /\ rates' = rates \cup rows
           /\ feed' = [feed EXCEPT !.spans = Tail(@),
                                   !.pc = IF Len(feed.spans) = 1 THEN "repair" ELSE @]
           /\ UNCHANGED <<day, phase, eve, catalogue, price, trade, loop, quote>>

\* The loop hears how its own run went, and looks for the next hh:mm; a run
\* made by hand tells it nothing.
Ends(ok) == /\ feed' = Idle
            /\ IF feed.by = "loop"
               THEN /\ loop' = IF ok THEN "daily" ELSE "retry"
                    /\ eve' = IF eve = "due" THEN "passed" ELSE eve
               ELSE UNCHANGED <<loop, eve>>

\* The repair reads the rows with no rate ...
Repair == /\ feed.pc = "repair"
          /\ IF trade.day # 0 /\ trade.rate = NoRate
             THEN feed' = [feed EXCEPT !.pc = "update"] /\ UNCHANGED <<loop, eve>>
             ELSE Ends(TRUE)
          /\ UNCHANGED <<day, phase, catalogue, price, rates, trade, quote, faults>>

InReach(d) == {r \in rates : d - Reach <= r /\ r <= d}

\* ... and then writes each the nearest rate on or before its day, if any,
\* naming the row by its id alone.
_backfill_rates == /\ feed.pc = "update"
                   /\ trade' = [trade EXCEPT !.rate =
                                  IF InReach(trade.day) = {} THEN @
                                  ELSE Max(InReach(trade.day))]
                   /\ Ends(TRUE)
                   /\ UNCHANGED <<day, phase, catalogue, price, rates, quote, faults>>

\* An exception ends the run; what it committed stays.
RunDies == /\ feed.pc # "idle" /\ faults < MaxFaults
           /\ faults' = faults + 1
           /\ Ends(FALSE)
           /\ UNCHANGED <<day, phase, catalogue, price, rates, trade, quote>>

-----------------------------------------------------------------------------
(* Who starts a run.                                                        *)

\* _feed_loop wakes: at boot, at hh:mm, or half an hour after a failure.  A
\* run in flight counts as its own having gone well.
LoopFires ==
    /\ loop = "boot" \/ loop = "retry" \/ (loop = "daily" /\ eve = "due")
    /\ eve' = IF eve = "due" THEN "passed" ELSE eve
    /\ IF feed.pc = "idle" THEN StartRun("loop", catalogue) /\ loop' = "running"
       ELSE loop' = "daily" /\ UNCHANGED feed
    /\ UNCHANGED <<day, phase, catalogue, price, rates, trade, quote, faults>>

\* POST /refresh; nothing happens while a run is in flight.
refresh == /\ feed.pc = "idle" /\ StartRun("hand", catalogue)
           /\ UNCHANGED <<day, phase, eve, catalogue, price, rates, trade, loop, quote, faults>>

\* POST /holdings/add: the row, then _kick_feed, which a run in flight drops.
instruments_add(i) ==
    /\ i \notin catalogue
    /\ catalogue' = catalogue \cup {i}
    /\ IF feed.pc = "idle" THEN StartRun("hand", catalogue') ELSE UNCHANGED feed
    /\ UNCHANGED <<day, phase, eve, price, rates, trade, loop, quote, faults>>

\* A trade recorded with no rate, which an import or the form allows.
AddTrade(d) == /\ catalogue # {} /\ trade.day = 0 /\ d <= day
               /\ trade' = [day |-> d, rate |-> NoRate]
               /\ UNCHANGED <<day, phase, eve, catalogue, price, rates, feed, loop, quote, faults>>

\* The person edits it and types the rate the broker gave.
TypeRate == /\ trade.day # 0 /\ trade.rate # Typed
            /\ trade' = [trade EXCEPT !.rate = Typed]
            /\ UNCHANGED <<day, phase, eve, catalogue, price, rates, feed, loop, quote, faults>>

-----------------------------------------------------------------------------
(* Live quotes.                                                             *)

\* The poll asks while any market trades, and then for every instrument,
\* whether or not its own does.  The answer carries the day it is of: before
\* today's first trade that is the last one.
QuoteAsk == /\ quote.pc = "idle" /\ catalogue # {}
            /\ \E d \in ({day} \cup IF phase = "open" THEN {day - 1} ELSE {}) \cap Days :
                 quote' = [pc |-> "answered", day |-> d]
            /\ UNCHANGED <<day, phase, eve, catalogue, price, rates, trade, feed, loop, faults>>

\* "a settled day belongs to the feed" is asked when the answer is in hand ...
QuoteCheck == /\ quote.pc = "answered"
              /\ quote' = IF quote.day <= settled_through THEN NoQuote
                          ELSE [quote EXCEPT !.pc = "writing"]
              /\ UNCHANGED <<day, phase, eve, catalogue, price, rates, trade, feed, loop, faults>>

\* ... and the upsert waits for the write lock.
QuoteWrite == /\ quote.pc = "writing"
              /\ \E i \in catalogue :
                   price' = [price EXCEPT ![i][quote.day] = "live"]
              /\ quote' = NoQuote
              /\ UNCHANGED <<day, phase, eve, catalogue, rates, trade, feed, loop, faults>>

-----------------------------------------------------------------------------
(* The clock.                                                               *)

Bell == /\ phase = "open" /\ phase' = "bell"
        /\ UNCHANGED <<day, eve, catalogue, price, rates, trade, feed, loop, quote, faults>>

\* Half an hour after it.
Settles == /\ phase = "bell" /\ phase' = "settled"
           /\ UNCHANGED <<day, eve, catalogue, price, rates, trade, feed, loop, quote, faults>>

\* hh:mm; a loop in the middle of its run sleeps through it.
Evening == /\ eve = "ahead" /\ phase = FeedPhase
           /\ eve' = IF loop = "running" THEN "passed" ELSE "due"
           /\ UNCHANGED <<day, phase, catalogue, price, rates, trade, feed, loop, quote, faults>>

\* A refresh of quotes is over within its timeouts, long before the next day.
\* After MaxDay the days are holidays: the loop runs and no market does.
NewDay == /\ phase = "settled" /\ eve = "passed" /\ quote = NoQuote
          /\ eve' = "ahead"
          /\ IF day < MaxDay THEN day' = day + 1 /\ phase' = "open"
             ELSE UNCHANGED <<day, phase>>
          /\ UNCHANGED <<catalogue, price, rates, trade, feed, loop, quote, faults>>

-----------------------------------------------------------------------------

RunStep == \/ Ask \/ Fetch \/ FxAsk \/ FxFetch \/ Repair \/ _backfill_rates
QuoteStep == QuoteCheck \/ QuoteWrite
Clock == Bell \/ Settles \/ Evening \/ NewDay
Person == \/ refresh \/ TypeRate
          \/ \E i \in Insts : instruments_add(i)
          \/ \E d \in TradeDays : AddTrade(d)

Next == RunStep \/ RunDies \/ LoopFires \/ Person \/ QuoteAsk \/ QuoteStep \/ Clock

\* Time passes, the loop's task wakes, a run and a refresh go on to their end.
\* Polls are minutes apart and each is over in seconds, so no run of them puts
\* the next day off.  Nobody is bound to refresh, trade or sign in.
Fairness == /\ WF_vars(RunStep) /\ WF_vars(LoopFires) /\ WF_vars(QuoteStep)
            /\ WF_vars(Bell) /\ WF_vars(Settles) /\ WF_vars(Evening) /\ SF_vars(NewDay)

Spec == Init /\ [][Next]_vars /\ Fairness

-----------------------------------------------------------------------------
(* Properties.                                                              *)

\* The variables have their types; among the ways a price is stored "early"
\* is missing: whenever a run asks and however long an answer takes, no day
\* is stored as settled before its market settled it.
TypeOK == /\ day \in Days /\ phase \in {"open", "bell", "settled"}
          /\ eve \in {"ahead", "due", "passed"}
          /\ catalogue \subseteq Insts
          /\ price \in [Insts -> [Days -> {"none", "live", "close"}]]
          /\ rates \subseteq 1..fx_settled_through
          /\ trade.day \in {0} \cup Days /\ trade.rate \in {NoRate, Typed} \cup rates
          /\ loop \in {"boot", "running", "daily", "retry"}
          /\ (loop = "running") = (feed.by = "loop")
          /\ faults \in 0..MaxFaults

\* Day d lies before the series' first close, or in a hole too short to be
\* told from a holiday: the two the code steps over knowingly.
SteppedOver(i, d) ==
    LET S == Closes(i) IN
    \/ S # {} /\ d < Min(S)
    \/ \E a, b \in S : a < d /\ d < b /\ b - a - 1 < GapDays

\* Whatever fails, falls short or dies on the way, and whatever a quote writes
\* meanwhile, in the end every day from backfill_start on has its close for
\* good, except where the code chose to step over it.
EveryDayCloses ==
    \A i \in Insts, d \in BackfillStart..MaxDay :
        <>[](i \in catalogue => price[i][d] = "close" \/ SteppedOver(i, d))

\* A trade recorded without a rate gets one, even from before the series began
\* and even if the rates were down when it was recorded; only one that falls in
\* a hole of the stored rates may stay without.
RateArrives ==
    <>[](trade.day # 0 /\ trade.rate = NoRate
           => /\ \E r \in rates : r < trade.day - Reach
              /\ InReach(trade.day) = {})

\* Claimed by refresh_quotes: a live price never replaces a close.
ClosesStand == [][\A i \in Insts : Closes(i) \subseteq Closes(i)']_vars

\* Claimed by _backfill_rates: a stored rate is never re-derived.  Nor, then,
\* is one a person typed.
TypedStands == [][trade.rate = Typed => trade'.rate = Typed]_vars
=============================================================================
