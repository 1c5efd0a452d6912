----------------------------- MODULE Submissions -----------------------------
(***************************************************************************)
(* src/app/submissions.py: the claims that make a form save once, and the  *)
(* handler around them (main.trade_create).  Everything runs on one event  *)
(* loop, so a step runs from one await to the next: claim's wait for an    *)
(* event, and whatever the handler may wait for between claiming a form    *)
(* and answering it (the module's docstring: "the first may be waiting on  *)
(* the price provider"; trade_create itself now waits for nothing there).  *)
(*                                                                         *)
(* An event is named by the press whose claim made it.                     *)
(***************************************************************************)
EXTENDS Integers, Sequences, SequencesExt

CONSTANTS
    Forms,      \* submission tokens
    Presses,    \* POSTs of a form
    TTL,        \* submissions.TTL_SECONDS, in ticks
    LIMIT,      \* submissions.LIMIT
    LastTick,   \* bound on the clock
    None

ASSUME SubmissionsAssumption ==
    /\ TTL \in Nat /\ LIMIT \in Nat \ {0} /\ LastTick \in Nat
    /\ None \notin Nat \cup Presses \cup {"record", "refusal", "home"}

VARIABLES
    now,        \* time.monotonic()
    claims,     \* _claims: token -> [expires, answer, place], place the dict's order
    finished,   \* _finished: token -> event, a partial function
    set,        \* the events that have been set
    press,      \* each press: [at, form, event, sent]
    saved       \* history: each form's records, as the times they were made

vars == <<now, claims, finished, set, press, saved>>

-----------------------------------------------------------------------------
Answered == "record"            \* the URL the first attempt was sent to

Fresh == [at |-> "unpressed", form |-> None, event |-> None, sent |-> None]

\* d.pop(token, None) for some tokens, on either dict, and d[token] = v.
Without(d, gone) == [t \in DOMAIN d \ gone |-> d[t]]
With(d, token, v) == [t \in DOMAIN d \cup {token} |-> IF t = token THEN v ELSE d[t]]

\* A mutant of Holds: a form still being saved is not held.
HoldsAnswer(cs, f) == f \in DOMAIN cs /\ cs[f].answer # None

Holds(cs, f) == f \in DOMAIN cs

\* A mutant of Pruned: what expires now has expired.
PrunedEarly(cs) == Without(cs, {f \in DOMAIN cs : cs[f].expires <= now})

\* _prune: the expired go, then the oldest until there is room for one.
Pruned(cs) ==
    LET live == {f \in DOMAIN cs : cs[f].expires >= now}
        Later(f) == {g \in live : cs[g].place > cs[f].place}
        kept == IF Cardinality(live) < LIMIT THEN live
                ELSE {f \in live : Cardinality(Later(f)) < LIMIT - 1}
    IN  Without(cs, DOMAIN cs \ kept)

\* Claims as a dict: a token already there keeps its place.
Stored(cs, f, answer) ==
    With(cs, f, [expires |-> now + TTL, answer |-> answer,
                 place |-> IF Holds(cs, f) THEN cs[f].place
                           ELSE 1 + Max({0} \cup {cs[g].place : g \in DOMAIN cs})])

Init ==
    /\ now = 0 /\ claims = [f \in {} |-> None]
    /\ finished = [f \in {} |-> None] /\ set = {}
    /\ press = [p \in Presses |-> Fresh]
    /\ saved = [f \in Forms |-> <<>>]

-----------------------------------------------------------------------------
Sent(p, where) == press' = [press EXCEPT ![p].at = "sent", ![p].sent = where, ![p].event = None]

\* claim, from its start to its first await or its return.
Claim(p, f) ==
    LET left == Pruned(claims)
        events == Without(finished, DOMAIN claims \ DOMAIN left)
    IN  /\ \/ /\ ~Holds(left, f)
              /\ claims' = Stored(left, f, None)
              /\ finished' = With(events, f, p)
              /\ press' = [press EXCEPT ![p] = [@ EXCEPT !.at = "working", !.form = f,
                                                         !.event = None]]
           \/ /\ Holds(left, f)
              /\ claims' = left /\ finished' = events
              /\ press' = [press EXCEPT ![p] =
                     IF left[f].answer # None
                     THEN [@ EXCEPT !.at = "sent", !.form = f, !.sent = left[f].answer]
                     ELSE IF f \in DOMAIN events
                     THEN [@ EXCEPT !.at = "waiting", !.form = f, !.event = events[f]]
                     ELSE [@ EXCEPT !.at = "sent", !.form = f, !.sent = "home"]]
        /\ UNCHANGED <<now, saved>>

Press(p, f) ==
    /\ press[p].at = "unpressed"
    /\ Claim(p, f)
    /\ UNCHANGED set

\* The event a press waits for was set: it looks again, and claims the form
\* itself if the first gave it back.
Wake(p) ==
    /\ press[p].at = "waiting" /\ press[p].event \in set
    /\ LET f == press[p].form
       IN  IF Holds(claims, f)
           THEN /\ Sent(p, IF claims[f].answer = None THEN "home" ELSE claims[f].answer)
                /\ UNCHANGED <<now, claims, finished, saved>>
           ELSE Claim(p, f)
    /\ UNCHANGED set

\* asyncio.wait_for's `wait` seconds are up.
TimeOut(p) ==
    /\ press[p].at = "waiting" /\ press[p].event \notin set
    /\ Sent(p, "home")
    /\ UNCHANGED <<now, claims, finished, set, saved>>

\* The last lines of finish and of release: the event goes from the table and is
\* set.  The mutant forgets to set it.
SettledQuietly(f) == finished' = Without(finished, {f}) /\ UNCHANGED set

Settled(f) ==
    /\ set' = set \cup {finished[t] : t \in {f} \cap DOMAIN finished}
    /\ finished' = Without(finished, {f})

\* The handler commits its record and, with no await between, finishes.
Finish(p) ==
    /\ press[p].at = "working"
    /\ LET f == press[p].form
       IN  /\ saved' = [saved EXCEPT ![f] = Append(@, now)]
           /\ claims' = Stored(claims, f, Answered)
           /\ Settled(f)
    /\ Sent(p, Answered)
    /\ UNCHANGED now

\* The handler refuses or fails, and releases in its `finally`.
Refuse(p) ==
    /\ press[p].at = "working"
    /\ LET f == press[p].form
           open == Holds(claims, f) /\ claims[f].answer = None
       IN  IF open
           THEN /\ claims' = Without(claims, {f})
                /\ Settled(f)
           ELSE UNCHANGED <<claims, set, finished>>
    /\ Sent(p, "refusal")
    /\ UNCHANGED <<now, saved>>

\* Time passes, but no handler is at work, and no press whose event was set waits
\* for the loop, for as long as TTL, an hour.
Tick ==
    /\ now < LastTick
    /\ \A p \in Presses : press[p].at = "waiting" => press[p].event \notin set
    /\ \A f \in DOMAIN claims : claims[f].answer = None => now < claims[f].expires
    /\ now' = now + 1
    /\ UNCHANGED <<claims, finished, set, press, saved>>

Next ==
    \/ \E p \in Presses :
          \/ \E f \in Forms : Press(p, f)
          \/ Wake(p) \/ TimeOut(p) \/ Finish(p) \/ Refuse(p)
    \/ Tick

Spec == Init /\ [][Next]_vars

\* A handler ends, and the loop runs a coroutine whose event was set.  Nothing
\* is asked of the timer.
FairSpec ==
    Spec /\ \A p \in Presses : WF_vars(Finish(p) \/ Refuse(p)) /\ WF_vars(Wake(p))

-----------------------------------------------------------------------------
(***************************************************************************)
(* Properties.                                                             *)
(***************************************************************************)
\* The shape of every variable.
TypeOK ==
    /\ now \in 0 .. LastTick
    /\ DOMAIN claims \subseteq Forms
    /\ \A f \in DOMAIN claims : claims[f] \in [expires : Nat, answer : {None, Answered}, place : Nat]
    /\ DOMAIN finished \subseteq Forms /\ \A t \in DOMAIN finished : finished[t] \in Presses
    /\ set \subseteq Presses
    /\ press \in [Presses -> [at : {"unpressed", "working", "waiting", "sent"},
                              form : Forms \cup {None}, event : Presses \cup {None},
                              sent : {None, Answered, "refusal", "home"}]]
    /\ saved \in [Forms -> Seq(Nat)]

Working(f) == {p \in Presses : press[p].at = "working" /\ press[p].form = f}

\* "One record per form, however many times its Save is pressed": a form
\* records again only once its first answer has been forgotten (TTL).
OneRecord ==
    \A f \in Forms : \A k \in 1 .. Len(saved[f]) - 1 : saved[f][k] + TTL < saved[f][k + 1]

\* Every press is answered, though the timer never fires.
EveryPressAnswered ==
    \A p \in Presses : press[p].at # "unpressed" ~> press[p].at = "sent"

-----------------------------------------------------------------------------
\* The claims implement OncePerForm: one record a form and each repeat sent to it,
\* until the answer is forgotten TTL after it was made.
Once ==
    INSTANCE OncePerForm WITH
        saving <- [f \in Forms |->
                      IF Working(f) = {} THEN None ELSE CHOOSE p \in Working(f) : TRUE],
        saved <- [f \in Forms |-> IF saved[f] = <<>> THEN None ELSE Last(saved[f])],
        sent <- [p \in Presses |-> press[p].sent]

ImplementsOncePerForm == Once!Spec

=============================================================================
