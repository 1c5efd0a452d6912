------------------------------ MODULE WriteLock ------------------------------
(***************************************************************************)
(* Who waits for whom on SQLite: the event loop, the threads and the       *)
(* database's one write lock.                                              *)
(*                                                                         *)
(* Every request passes require_login (main.py), on the loop, and its      *)
(* handler's scoped_session (auth.py).  Each calls load_auth, whose        *)
(* session row is written by the next query, so each takes the write lock  *)
(* and keeps it to its commit.  A plain handler runs in a thread; an async *)
(* one runs on the loop, and a few of those await asyncio.to_thread inside *)
(* the session.  The price feed writes from a thread of its own and        *)
(* commits after each instrument (pricefeed.run_feed).                     *)
(*                                                                         *)
(* A waiter gives up after sqlite's busy_timeout ("database is locked").   *)
(* Time is in ticks: a Tick passes only when nothing is due, and ordinary  *)
(* work under the lock takes at most one.                                  *)
(***************************************************************************)
EXTENDS Integers

CONSTANTS
    Pages,          \* requests whose handler is a plain def: the GETs, /api/v1
    Posts,          \* requests whose handler is async def and awaits nothing real
    Slow,           \* requests whose async handler awaits a thread in its session
    Instruments,    \* how many instruments the feed writes
    Busy,           \* busy_timeout, in ticks
    SlowTicks,      \* how long the awaited thread works
    None

Requests == Pages \cup Posts \cup Slow

Feed == "feed"

Actors == Requests \cup {Feed}

ASSUME WriteLockAssumption ==
    /\ Busy \in Nat \ {0} /\ SlowTicks \in Nat /\ Instruments \in Nat \ {0}
    /\ Feed \notin Requests /\ None \notin Actors

VARIABLES
    at,         \* where each actor is
    loop,       \* the request running on the event loop, or None
    lock,       \* who holds the write lock, or None
    waited,     \* ticks each actor has waited for the lock
    held,       \* ticks the holder has had it, or its thread has worked
    left        \* instruments the feed has still to write

vars == <<at, loop, lock, waited, held, left>>

Init ==
    /\ at = [a \in Actors |-> IF a = Feed THEN "fetching" ELSE "new"]
    /\ loop = None /\ lock = None
    /\ waited = [a \in Actors |-> 0] /\ held = 0
    /\ left = Instruments

Waiting(a) == at[a] \in {"gate", "handler", "writing"}

Goes(a, phase) == at' = [at EXCEPT ![a] = phase] /\ waited' = [waited EXCEPT ![a] = 0]

-----------------------------------------------------------------------------
(* A request. *)

Arrive(r) ==
    /\ at[r] = "new" /\ loop = None
    /\ Goes(r, "gate") /\ loop' = r
    /\ UNCHANGED <<lock, held, left>>

\* require_login's own session: written and committed in one go.
PassGate(r) ==
    /\ at[r] = "gate" /\ lock = None
    /\ Goes(r, "gated") /\ loop' = None
    /\ UNCHANGED <<lock, held, left>>

\* call_next: to a thread, or back on the loop when it is free.
Dispatch(r) ==
    /\ at[r] = "gated"
    /\ IF r \in Pages THEN UNCHANGED loop ELSE loop = None /\ loop' = r
    /\ Goes(r, "handler")
    /\ UNCHANGED <<lock, held, left>>

\* The handler's load_auth.  A slow one then awaits its thread, off the loop and
\* with the lock.
Begin(r) ==
    /\ at[r] = "handler" /\ lock = None
    /\ lock' = r /\ held' = 0
    /\ Goes(r, IF r \in Slow THEN "parked" ELSE "working")
    /\ loop' = IF r \in Slow THEN None ELSE loop
    /\ UNCHANGED left

\* Its thread has finished, and it comes back when the loop is free.
Resume(r) ==
    /\ at[r] = "parked" /\ held >= SlowTicks /\ loop = None
    /\ Goes(r, "working") /\ loop' = r /\ held' = 0
    /\ UNCHANGED <<lock, left>>

\* A mutant of End: the session is never closed.
EndUnclosed(r) ==
    /\ at[r] = "working"
    /\ Goes(r, "done")
    /\ loop' = IF loop = r THEN None ELSE loop
    /\ UNCHANGED <<lock, held, left>>

End(r) ==
    /\ at[r] = "working"
    /\ Goes(r, "done") /\ lock' = None
    /\ loop' = IF loop = r THEN None ELSE loop
    /\ UNCHANGED <<held, left>>

\* A mutant of GiveUp: the refused request keeps the loop.
GiveUpOnLoop(r) ==
    /\ at[r] \in {"gate", "handler"} /\ waited[r] >= Busy /\ lock # None
    /\ Goes(r, "failed")
    /\ UNCHANGED <<loop, lock, held, left>>

\* "database is locked": a 500, and the loop is free again.
GiveUp(r) ==
    /\ at[r] \in {"gate", "handler"} /\ waited[r] >= Busy /\ lock # None
    /\ Goes(r, "failed")
    /\ loop' = IF loop = r THEN None ELSE loop
    /\ UNCHANGED <<lock, held, left>>

-----------------------------------------------------------------------------
(* The feed: a network call, then one instrument's rows, then a commit. *)

Fetched ==
    /\ at[Feed] = "fetched"
    /\ Goes(Feed, "writing")
    /\ UNCHANGED <<loop, lock, held, left>>

FeedWrite ==
    /\ at[Feed] = "writing" /\ lock = None
    /\ lock' = Feed /\ held' = 0
    /\ Goes(Feed, "working")
    /\ UNCHANGED <<loop, left>>

FeedCommit ==
    /\ at[Feed] = "working"
    /\ lock' = None /\ left' = left - 1
    /\ Goes(Feed, IF left = 1 THEN "done" ELSE "fetching")
    /\ UNCHANGED <<loop, held>>

FeedGivesUp ==
    /\ at[Feed] = "writing" /\ waited[Feed] >= Busy /\ lock # None
    /\ Goes(Feed, "failed")
    /\ UNCHANGED <<loop, lock, held, left>>

-----------------------------------------------------------------------------
\* A waiter could have the lock, or has waited out its time.
Due(a) == Waiting(a) /\ (lock = None \/ waited[a] >= Busy)

\* A tick passes when something takes time, and nothing is due before it: a
\* waiter could have the lock or has waited out its time, or ordinary work has
\* had its tick.  The feed's network call takes at least one.
Tick ==
    /\ \A a \in Actors : ~Due(a)
    /\ lock # None => at[lock] # "working" \/ held < 1
    /\ \/ \E a \in Actors : Waiting(a)
       \/ at[Feed] = "fetching"
       \/ lock # None /\ held < SlowTicks
    /\ held' = IF held < SlowTicks \/ held < 1 THEN held + 1 ELSE held
    /\ waited' = [a \in Actors |-> IF Waiting(a) THEN waited[a] + 1 ELSE waited[a]]
    /\ at' = [at EXCEPT ![Feed] = IF @ = "fetching" THEN "fetched" ELSE @]
    /\ UNCHANGED <<loop, lock, left>>

RequestStep(r) ==
    Arrive(r) \/ PassGate(r) \/ Dispatch(r) \/ Begin(r) \/ Resume(r) \/ End(r) \/ GiveUp(r)

FeedStep == Fetched \/ FeedWrite \/ FeedCommit \/ FeedGivesUp

Next == (\E r \in Requests : RequestStep(r)) \/ FeedStep \/ Tick

Spec == Init /\ [][Next]_vars

\* The loop, the threads and the clock all run on; who gets a free lock first is
\* left open.
FairSpec ==
    /\ Spec /\ WF_vars(Tick) /\ WF_vars(FeedStep)
    /\ \A r \in Requests :
          /\ WF_vars(PassGate(r) \/ Begin(r) \/ End(r) \/ GiveUp(r))
          /\ SF_vars(Dispatch(r)) /\ SF_vars(Resume(r))

-----------------------------------------------------------------------------
\* The shape of every variable.
TypeOK ==
    /\ at \in [Actors -> {"new", "gate", "gated", "handler", "working", "parked", "done",
                          "failed", "fetching", "fetched", "writing"}]
    /\ loop \in Requests \cup {None} /\ lock \in Actors \cup {None}
    /\ waited \in [Actors -> 0 .. Busy]
    /\ held \in Nat /\ left \in 0 .. Instruments

\* No request, and no run of the feed, ends in "database is locked" (decisions.md
\* #83; imports_web.py: "In a thread: OCR is up to a minute a page, and on the
\* event loop every other request waited for it").
NobodyLockedOut == \A a \in Actors : at[a] # "failed"

\* The same while nothing is awaited in a thread inside a session: the feed's
\* commits and ordinary handlers alone lock nobody out.
OnlySlowWorkLocksOut ==
    (\A r \in Slow : at[r] \in {"new", "gate", "gated", "handler"}) => NobodyLockedOut

\* Every request that arrives is answered, one way or the other; and work done in a
\* thread is never lost: its request comes back to the loop and commits, whoever blocks
\* the loop meanwhile.
EveryRequestEnds ==
    /\ \A r \in Requests : at[r] = "gate" ~> at[r] \in {"done", "failed"}
    /\ \A r \in Slow : at[r] = "parked" ~> at[r] = "done"

=============================================================================
