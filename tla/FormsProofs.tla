---------------------------- MODULE FormsProofs -----------------------------
(***************************************************************************)
(* Proofs about two forms: of Submissions, the trade form, and of Plans,   *)
(* the investment plan's.                                                  *)
(*                                                                         *)
(* For any number of forms and presses, in every run where the table keeps *)
(* room for one more claim (Room): a form records again only after its     *)
(* answer is forgotten, and the claims implement OncePerForm. For any      *)
(* instruments, dates and intervals: the slots of a plan are distinct      *)
(* rows, a preview shows what will be saved, and a plan saved again keeps  *)
(* its place.                                                              *)
(***************************************************************************)
EXTENDS Submissions, Plans, FiniteSetTheorems, WellFoundedInduction, TLAPS

\* The claims that are not over are fewer than LIMIT, so that _prune drops none of them.
Room == Cardinality({f \in DOMAIN claims : claims[f].expires >= now}) < LIMIT

-----------------------------------------------------------------------------
(***************************************************************************)
(* The inductive invariant.                                                *)
(***************************************************************************)
PressType == [at : {"unpressed", "working", "waiting", "sent"},
              form : Forms \cup {None}, event : Presses \cup {None},
              sent : {None, Answered, "refusal", "home"}]

Shape ==
    /\ now \in Nat
    /\ DOMAIN claims \subseteq Forms
    /\ \A f \in DOMAIN claims : claims[f].expires \in Int /\ claims[f].answer \in {None, Answered}
    /\ DOMAIN finished \subseteq Forms
    /\ \A f \in DOMAIN finished : finished[f] \in Presses
    /\ press \in [Presses -> PressType]
    /\ saved \in [Forms -> Seq(Nat)]

\* A form with an event is being saved by the press that made it, and the claim that
\* press holds is not over.
BeingSaved(f) ==
    /\ f \in DOMAIN claims /\ claims[f].answer = None /\ claims[f].expires >= now
    /\ press[finished[f]].at = "working" /\ press[finished[f]].form = f

\* Claims, events and presses at work are the same forms'.
ClaimsOK ==
    /\ \A f \in DOMAIN finished : BeingSaved(f)
    /\ \A f \in DOMAIN claims : claims[f].answer = None => f \in DOMAIN finished
    /\ \A p \in Presses : press[p].at = "working" =>
          press[p].form \in DOMAIN finished /\ finished[press[p].form] = p

\* A press waits for the form's event, or, once it is set, for the loop; meanwhile
\* nothing of the form goes out of date.
WaitersOK ==
    /\ \A p \in Presses : press[p].at = "waiting" =>
          /\ press[p].form \in Forms
          /\ press[p].event \notin set =>
                press[p].form \in DOMAIN finished /\ finished[press[p].form] = press[p].event
          /\ press[p].event \in set /\ press[p].form \in DOMAIN claims =>
                claims[press[p].form].expires >= now
    /\ \A p \in Presses : press[p].at # "sent" => p \notin set /\ press[p].sent = None

\* A form's answer is remembered for TTL after its record, and no longer.
AnswerOK(f) ==
    IF f \in DOMAIN claims /\ claims[f].answer = Answered
    THEN saved[f] # <<>> /\ claims[f].expires = Last(saved[f]) + TTL
    ELSE saved[f] # <<>> => Last(saved[f]) + TTL < now

AnswersOK == \A f \in Forms : AnswerOK(f)

IInv == Shape /\ ClaimsOK /\ WaitersOK /\ AnswersOK /\ OneRecord

-----------------------------------------------------------------------------
(***************************************************************************)
(* The dictionaries.                                                       *)
(***************************************************************************)
\* Where a claim goes in the dictionary's order is of no account here.
LEMMA StoredIs ==
    ASSUME NEW cs, NEW f, NEW answer
    PROVE  \E place : Stored(cs, f, answer) =
                         With(cs, f, [expires |-> now + TTL, answer |-> answer, place |-> place])
BY Zenon DEF Stored

\* While there is room, pruning leaves exactly the claims that are not over.
LEMMA PrunedIs ==
    ASSUME Room
    PROVE  /\ DOMAIN Pruned(claims) = {f \in DOMAIN claims : claims[f].expires >= now}
           /\ \A f \in DOMAIN Pruned(claims) : Pruned(claims)[f] = claims[f]
<1> DEFINE live == {f \in DOMAIN claims : claims[f].expires >= now}
<1>1. Pruned(claims) = Without(claims, DOMAIN claims \ live)
  BY DEF Pruned, Room
<1> QED
  BY <1>1 DEF Without

LEMMA LastAppend ==
    ASSUME NEW s \in Seq(Nat), NEW n \in Nat
    PROVE  /\ Append(s, n) \in Seq(Nat) /\ Append(s, n) # <<>>
           /\ Last(Append(s, n)) = n
           /\ s # <<>> => Last(s) \in Nat /\ Last(s) = s[Len(s)]
BY DEF Last

-----------------------------------------------------------------------------
(***************************************************************************)
(* What claim does: the form is the press's to save, or another's.         *)
(***************************************************************************)
Alive(f) == f \in DOMAIN claims /\ claims[f].expires >= now

\* Pruning took the claims that are over and no event.
PrunedOnly(f) ==
    /\ DOMAIN claims' \ {f} = {g \in DOMAIN claims : claims[g].expires >= now} \ {f}
    /\ \A g \in DOMAIN claims' \ {f} : claims'[g] = claims[g]
    /\ DOMAIN finished' \ {f} = DOMAIN finished \ {f}
    /\ \A g \in DOMAIN finished \ {f} : finished'[g] = finished[g]
    /\ UNCHANGED <<now, saved>>

Begun(p, f) ==
    /\ ~Alive(f) /\ f \notin DOMAIN finished
    /\ PrunedOnly(f)
    /\ f \in DOMAIN claims' /\ claims'[f].answer = None /\ claims'[f].expires = now + TTL
    /\ f \in DOMAIN finished' /\ finished'[f] = p
    /\ press' = [press EXCEPT ![p] = [@ EXCEPT !.at = "working", !.form = f, !.event = None]]

Met(p, f) ==
    /\ Alive(f) /\ PrunedOnly(f)
    /\ f \in DOMAIN claims' /\ claims'[f] = claims[f]
    /\ f \in DOMAIN finished' <=> f \in DOMAIN finished
    /\ f \in DOMAIN finished => finished'[f] = finished[f]
    /\ \/ /\ claims[f].answer = Answered
          /\ press' = [press EXCEPT ![p] = [@ EXCEPT !.at = "sent", !.form = f, !.sent = Answered]]
       \/ /\ f \in DOMAIN finished
          /\ press' = [press EXCEPT ![p] =
                          [@ EXCEPT !.at = "waiting", !.form = f, !.event = finished[f]]]

LEMMA ClaimIs ==
    ASSUME Room, IInv, NEW p \in Presses, NEW f \in Forms, Claim(p, f)
    PROVE  Begun(p, f) \/ Met(p, f)
<1> DEFINE left == Pruned(claims)
           events == Without(finished, DOMAIN claims \ DOMAIN left)
<1>1. /\ DOMAIN left = {g \in DOMAIN claims : claims[g].expires >= now}
      /\ \A g \in DOMAIN left : left[g] = claims[g]
  BY PrunedIs
<1>2. DOMAIN events = DOMAIN finished /\ \A g \in DOMAIN finished : events[g] = finished[g]
  <2>1. \A g \in DOMAIN finished : g \in DOMAIN left
    BY <1>1 DEF IInv, ClaimsOK, BeingSaved
  <2> QED
    BY <2>1 DEF Without
<1> HIDE DEF left, events
<1>3. CASE ~Holds(left, f)
  <2>1. /\ claims' = Stored(left, f, None)
        /\ finished' = With(events, f, p)
        /\ press' = [press EXCEPT ![p] = [@ EXCEPT !.at = "working", !.form = f, !.event = None]]
        /\ UNCHANGED <<now, saved>>
    BY <1>3 DEF Claim, left, events
  <2>2. ~Alive(f) /\ f \notin DOMAIN finished
    BY <1>1, <1>3 DEF Holds, Alive, IInv, ClaimsOK, BeingSaved
  <2>3. /\ DOMAIN claims' = DOMAIN left \cup {f}
        /\ claims'[f].expires = now + TTL /\ claims'[f].answer = None
        /\ \A g \in DOMAIN left \ {f} : claims'[g] = left[g]
    <3>1. PICK place : claims' = With(left, f, [expires |-> now + TTL, answer |-> None,
                                                place |-> place])
      BY <2>1, StoredIs
    <3> QED
      BY <3>1 DEF With
  <2>4. /\ DOMAIN finished' = DOMAIN events \cup {f} /\ finished'[f] = p
        /\ \A g \in DOMAIN events \ {f} : finished'[g] = events[g]
    BY <2>1 DEF With
  <2>5. PrunedOnly(f)
    BY <1>1, <1>2, <2>1, <2>3, <2>4 DEF PrunedOnly
  <2> QED
    BY <2>1, <2>2, <2>3, <2>4, <2>5 DEF Begun
<1>4. CASE Holds(left, f)
  <2>1. /\ claims' = left /\ finished' = events
        /\ press' = [press EXCEPT ![p] =
                     IF left[f].answer # None
                     THEN [@ EXCEPT !.at = "sent", !.form = f, !.sent = left[f].answer]
                     ELSE IF f \in DOMAIN events
                     THEN [@ EXCEPT !.at = "waiting", !.form = f, !.event = events[f]]
                     ELSE [@ EXCEPT !.at = "sent", !.form = f, !.sent = "home"]]
        /\ UNCHANGED <<now, saved>>
    BY <1>4 DEF Claim, left, events
  <2>2. Alive(f) /\ f \in DOMAIN left /\ left[f] = claims[f]
    BY <1>1, <1>4 DEF Holds, Alive
  <2>3. PrunedOnly(f)
    BY <1>1, <1>2, <2>1 DEF PrunedOnly
  <2>4. CASE left[f].answer # None
    <3>1. left[f].answer = Answered
      BY <2>2, <2>4 DEF IInv, Shape, Alive
    <3> QED
      BY <1>2, <2>1, <2>2, <2>3, <2>4, <3>1 DEF Met
  <2>5. CASE left[f].answer = None
    <3>1. f \in DOMAIN finished /\ events[f] = finished[f] /\ f \in DOMAIN events
      BY <1>2, <2>2, <2>5 DEF IInv, ClaimsOK, Alive
    <3> QED
      BY <1>2, <2>1, <2>2, <2>3, <2>5, <3>1 DEF Met
  <2> QED
    BY <2>4, <2>5
<1> QED
  BY <1>3, <1>4
-----------------------------------------------------------------------------
(***************************************************************************)
(* Every step keeps IInv.                                                  *)
(***************************************************************************)
LEMMA InitIInv == Init => IInv
<1> SUFFICES ASSUME Init PROVE IInv
  OBVIOUS
<1>1. Shape
  <2>1. Fresh \in PressType
    BY DEF Fresh, PressType
  <2> QED
    BY <2>1 DEF Init, Shape
<1>2. ClaimsOK /\ WaitersOK /\ AnswersOK
  BY DEF Init, ClaimsOK, WaitersOK, AnswersOK, AnswerOK, Fresh
<1>3. OneRecord
  BY DEF Init, OneRecord
<1> QED
  BY <1>1, <1>2, <1>3 DEF IInv

\* An answer goes from the table only when its time is over.
LEMMA PrunedAnswers ==
    ASSUME IInv, NEW f, PrunedOnly(f), NEW g \in Forms, g # f
    PROVE  AnswerOK(g)'
<1>1. AnswerOK(g) /\ saved' = saved /\ now' = now
  BY DEF PrunedOnly, IInv, AnswersOK
<1>2. CASE g \in DOMAIN claims'
  <2>1. g \in DOMAIN claims /\ claims'[g] = claims[g]
    BY <1>2 DEF PrunedOnly
  <2> QED
    BY <1>1, <1>2, <2>1 DEF AnswerOK
<1>3. CASE g \notin DOMAIN claims'
  <2>1. ~Alive(g)
    BY <1>3 DEF PrunedOnly, Alive
  <2>2. saved[g] # <<>> => Last(saved[g]) + TTL < now
    BY <1>1, <2>1 DEF AnswerOK, Alive, IInv, Shape
  <2> QED
    BY <1>1, <1>3, <2>2 DEF AnswerOK
<1> QED
  BY <1>2, <1>3

LEMMA BegunKeepsIInv ==
    ASSUME IInv, NEW p \in Presses, NEW f \in Forms, press[p].at \in {"unpressed", "waiting"},
           Begun(p, f), UNCHANGED set
    PROVE  IInv'
<1> USE SubmissionsAssumption
<1>1. /\ press'[p].at = "working" /\ press'[p].form = f /\ press'[p].sent = press[p].sent
      /\ \A q \in Presses \ {p} : press'[q] = press[q]
  BY DEF Begun, IInv, Shape
<1>2. Shape'
  <2>1. press' \in [Presses -> PressType]
    <3>1. [press[p] EXCEPT !.at = "working", !.form = f, !.event = None] \in PressType
      BY DEF IInv, Shape, PressType
    <3> QED
      BY <3>1 DEF Begun, IInv, Shape
  <2>2. now' \in Nat /\ saved' \in [Forms -> Seq(Nat)]
    BY DEF Begun, PrunedOnly, IInv, Shape
  <2>3. DOMAIN claims' \subseteq Forms /\ DOMAIN finished' \subseteq Forms
    BY DEF Begun, PrunedOnly, IInv, Shape
  <2>4. \A g \in DOMAIN claims' : claims'[g].expires \in Int /\ claims'[g].answer \in {None, Answered}
    BY DEF Begun, PrunedOnly, IInv, Shape
  <2>5. \A g \in DOMAIN finished' : finished'[g] \in Presses
    BY DEF Begun, PrunedOnly, IInv, Shape
  <2> QED
    BY <2>1, <2>2, <2>3, <2>4, <2>5 DEF Shape
<1>3. ClaimsOK'
  <2>1. ASSUME NEW g \in DOMAIN finished' PROVE BeingSaved(g)'
    <3>1. CASE g = f
      BY <3>1, <1>1 DEF BeingSaved, Begun, PrunedOnly, IInv, Shape
    <3>2. CASE g # f
      <4>1. g \in DOMAIN finished /\ finished'[g] = finished[g] /\ now' = now
        BY <3>2 DEF Begun, PrunedOnly
      <4>2. BeingSaved(g) /\ finished[g] \in Presses
        BY <4>1 DEF IInv, Shape, ClaimsOK
      <4>3. g \in DOMAIN claims' /\ claims'[g] = claims[g]
        BY <3>2, <4>2 DEF BeingSaved, Begun, PrunedOnly
      <4>4. finished[g] # p
        BY <4>2 DEF BeingSaved
      <4>5. press'[finished[g]] = press[finished[g]]
        BY <1>1, <4>2, <4>4
      <4> QED
        BY <4>1, <4>2, <4>3, <4>5 DEF BeingSaved
    <3> QED
      BY <3>1, <3>2
  <2>2. \A g \in DOMAIN claims' : claims'[g].answer = None => g \in DOMAIN finished'
    BY DEF Begun, PrunedOnly, IInv, ClaimsOK
  <2>3. ASSUME NEW q \in Presses, press'[q].at = "working"
        PROVE  press'[q].form \in DOMAIN finished' /\ finished'[press'[q].form] = q
    BY <2>3, <1>1 DEF Begun, PrunedOnly, IInv, ClaimsOK
  <2> QED
    BY <2>1, <2>2, <2>3 DEF ClaimsOK
<1>4. WaitersOK'
  <2>1. ASSUME NEW q \in Presses, press'[q].at = "waiting"
        PROVE  /\ press'[q].form \in Forms
               /\ press'[q].event \notin set' =>
                     /\ press'[q].form \in DOMAIN finished'
                     /\ finished'[press'[q].form] = press'[q].event
               /\ press'[q].event \in set' /\ press'[q].form \in DOMAIN claims' =>
                     claims'[press'[q].form].expires >= now'
    <3> DEFINE g == press[q].form
    <3>1. q # p /\ press'[q] = press[q] /\ press[q].at = "waiting"
      BY <2>1, <1>1
    <3>2. /\ g \in Forms
          /\ press[q].event \notin set => g \in DOMAIN finished /\ finished[g] = press[q].event
          /\ press[q].event \in set /\ g \in DOMAIN claims => claims[g].expires >= now
      BY <3>1 DEF IInv, WaitersOK
    <3> HIDE DEF g
    <3>3. press[q].event \notin set => g \in DOMAIN finished' /\ finished'[g] = press[q].event
      BY <3>2 DEF Begun, PrunedOnly
    <3>4. CASE g = f
      <4>1. claims'[g].expires = now + TTL /\ now' = now /\ now \in Nat
        BY <3>4 DEF Begun, PrunedOnly, IInv, Shape
      <4>2. claims'[g].expires >= now'
        BY <4>1
      <4> QED
        BY <3>1, <3>2, <3>3, <4>2 DEF g
    <3>5. CASE g # f
      <4>1. g \in DOMAIN claims' => g \in DOMAIN claims /\ claims'[g] = claims[g]
        BY <3>5 DEF Begun, PrunedOnly
      <4>2. now' = now
        BY DEF Begun, PrunedOnly
      <4> QED
        BY <3>1, <3>2, <3>3, <4>1, <4>2 DEF g
    <3> QED
      BY <3>4, <3>5
  <2>2. \A q \in Presses : press'[q].at # "sent" => q \notin set' /\ press'[q].sent = None
    BY <1>1 DEF IInv, WaitersOK
  <2> QED
    BY <2>1, <2>2 DEF WaitersOK
<1>5. AnswersOK'
  <2>1. ASSUME NEW g \in Forms, g # f PROVE AnswerOK(g)'
    BY <2>1, PrunedAnswers DEF Begun
  <2>2. claims'[f].answer # Answered /\ saved' = saved /\ now' = now
    BY DEF Begun, PrunedOnly, Answered
  <2>3. saved[f] # <<>> => Last(saved[f]) + TTL < now
    BY DEF Begun, Alive, IInv, AnswersOK, AnswerOK, Shape
  <2>4. AnswerOK(f)'
    BY <2>2, <2>3 DEF AnswerOK
  <2> QED
    BY <2>1, <2>4 DEF AnswersOK
<1>6. OneRecord'
  BY DEF Begun, PrunedOnly, IInv, OneRecord
<1> QED
  BY <1>2, <1>3, <1>4, <1>5, <1>6 DEF IInv

\* A press that meets a claim is sent to its answer or waits for its event.
LEMMA MetPress ==
    ASSUME IInv, NEW p \in Presses, NEW f \in Forms, Met(p, f)
    PROVE  /\ press' \in [Presses -> PressType]
           /\ \A q \in Presses \ {p} : press'[q] = press[q]
           /\ press'[p].form = f
           /\ \/ press'[p].at = "sent" /\ press'[p].sent = Answered /\ claims[f].answer = Answered
              \/ /\ press'[p].at = "waiting" /\ press'[p].sent = press[p].sent
                 /\ f \in DOMAIN finished /\ press'[p].event = finished[f]
<1>1. press[p] \in PressType /\ press \in [Presses -> PressType]
  BY DEF IInv, Shape
<1>2. CASE /\ claims[f].answer = Answered
           /\ press' = [press EXCEPT ![p] = [@ EXCEPT !.at = "sent", !.form = f, !.sent = Answered]]
  <2>1. [press[p] EXCEPT !.at = "sent", !.form = f, !.sent = Answered] \in PressType
    BY <1>1 DEF PressType
  <2>2. press'[p] = [press[p] EXCEPT !.at = "sent", !.form = f, !.sent = Answered]
    BY <1>1, <1>2
  <2>3. press'[p].at = "sent" /\ press'[p].form = f /\ press'[p].sent = Answered
    BY <1>1, <2>2 DEF PressType
  <2> QED
    BY <1>1, <1>2, <2>1, <2>2, <2>3
<1>3. CASE /\ f \in DOMAIN finished
           /\ press' = [press EXCEPT ![p] =
                          [@ EXCEPT !.at = "waiting", !.form = f, !.event = finished[f]]]
  <2>1. finished[f] \in Presses
    BY <1>3 DEF IInv, Shape
  <2>2. [press[p] EXCEPT !.at = "waiting", !.form = f, !.event = finished[f]] \in PressType
    BY <1>1, <2>1 DEF PressType
  <2>3. press'[p] = [press[p] EXCEPT !.at = "waiting", !.form = f, !.event = finished[f]]
    BY <1>1, <1>3
  <2>4. /\ press'[p].at = "waiting" /\ press'[p].form = f /\ press'[p].sent = press[p].sent
        /\ press'[p].event = finished[f]
    BY <1>1, <2>3 DEF PressType
  <2> QED
    BY <1>1, <1>3, <2>2, <2>3, <2>4
<1> QED
  BY <1>2, <1>3 DEF Met

LEMMA MetKeepsIInv ==
    ASSUME IInv, NEW p \in Presses, NEW f \in Forms, press[p].at \in {"unpressed", "waiting"},
           Met(p, f), UNCHANGED set
    PROVE  IInv'
<1> USE SubmissionsAssumption
<1>1. /\ press' \in [Presses -> PressType]
      /\ \A q \in Presses \ {p} : press'[q] = press[q]
      /\ press'[p].form = f /\ press'[p].at \in {"waiting", "sent"}
  BY MetPress
<1>2. press'[p].at = "waiting" =>
         f \in DOMAIN finished /\ press'[p].event = finished[f] /\ press'[p].sent = press[p].sent
  BY MetPress
<1>3. /\ f \in DOMAIN claims /\ f \in DOMAIN claims' /\ claims'[f] = claims[f]
      /\ claims[f].expires >= now
      /\ f \in DOMAIN finished' <=> f \in DOMAIN finished
      /\ f \in DOMAIN finished => finished'[f] = finished[f]
      /\ PrunedOnly(f)
  BY DEF Met, Alive
<1>4. Shape'
  <2>1. now' \in Nat /\ saved' \in [Forms -> Seq(Nat)]
    BY <1>3 DEF PrunedOnly, IInv, Shape
  <2>2. DOMAIN claims' \subseteq Forms /\ DOMAIN finished' \subseteq Forms
    BY <1>3 DEF PrunedOnly, IInv, Shape
  <2>3. \A g \in DOMAIN claims' : claims'[g].expires \in Int /\ claims'[g].answer \in {None, Answered}
    BY <1>3 DEF PrunedOnly, IInv, Shape
  <2>4. \A g \in DOMAIN finished' : finished'[g] \in Presses
    BY <1>3 DEF PrunedOnly, IInv, Shape
  <2> QED
    BY <1>1, <2>1, <2>2, <2>3, <2>4 DEF Shape
<1>5. ClaimsOK'
  <2>1. ASSUME NEW g \in DOMAIN finished' PROVE BeingSaved(g)'
    <3>1. g \in DOMAIN finished /\ finished'[g] = finished[g] /\ finished[g] \in Presses
      BY <1>3 DEF PrunedOnly, IInv, Shape
    <3>2. BeingSaved(g)
      BY <3>1 DEF IInv, ClaimsOK
    <3>3. press'[finished[g]] = press[finished[g]]
      BY <3>1, <3>2, <1>1 DEF BeingSaved
    <3>4. g \in DOMAIN claims' /\ claims'[g] = claims[g] /\ now' = now
      BY <3>2, <1>3 DEF BeingSaved, PrunedOnly
    <3> QED
      BY <3>1, <3>2, <3>3, <3>4 DEF BeingSaved
  <2>2. ASSUME NEW g \in DOMAIN claims', claims'[g].answer = None PROVE g \in DOMAIN finished'
    <3>1. g \in DOMAIN claims /\ claims'[g] = claims[g]
      BY <1>3 DEF PrunedOnly
    <3>2. g \in DOMAIN finished
      BY <2>2, <3>1 DEF IInv, ClaimsOK
    <3> QED
      BY <3>2, <1>3 DEF PrunedOnly
  <2>3. ASSUME NEW q \in Presses, press'[q].at = "working"
        PROVE  press'[q].form \in DOMAIN finished' /\ finished'[press'[q].form] = q
    <3>1. press'[q] = press[q]
      BY <2>3, <1>1
    <3>2. press[q].form \in DOMAIN finished /\ finished[press[q].form] = q
      BY <2>3, <3>1 DEF IInv, ClaimsOK
    <3> QED
      BY <3>1, <3>2, <1>3 DEF PrunedOnly
  <2> QED
    BY <2>1, <2>2, <2>3 DEF ClaimsOK
<1>6. WaitersOK'
  <2>1. ASSUME NEW q \in Presses, press'[q].at = "waiting"
        PROVE  /\ press'[q].form \in Forms
               /\ press'[q].event \notin set' =>
                     /\ press'[q].form \in DOMAIN finished'
                     /\ finished'[press'[q].form] = press'[q].event
               /\ press'[q].event \in set' /\ press'[q].form \in DOMAIN claims' =>
                     claims'[press'[q].form].expires >= now'
    <3>1. CASE q = p
      BY <2>1, <3>1, <1>1, <1>2, <1>3 DEF PrunedOnly
    <3>2. CASE q # p
      <4>1. press'[q] = press[q] /\ press[q].at = "waiting" /\ set' = set /\ now' = now
        BY <2>1, <3>2, <1>1, <1>3 DEF PrunedOnly
      <4> DEFINE g == press[q].form
      <4>2. /\ g \in Forms
            /\ press[q].event \notin set => g \in DOMAIN finished /\ finished[g] = press[q].event
            /\ press[q].event \in set /\ g \in DOMAIN claims => claims[g].expires >= now
        BY <4>1 DEF IInv, WaitersOK
      <4> HIDE DEF g
      <4>3. g \in DOMAIN finished => g \in DOMAIN finished' /\ finished'[g] = finished[g]
        BY <1>3 DEF PrunedOnly
      <4>4. g \in DOMAIN claims' => g \in DOMAIN claims /\ claims'[g] = claims[g]
        BY <1>3 DEF PrunedOnly
      <4>5. /\ g \in Forms
            /\ press[q].event \notin set => g \in DOMAIN finished' /\ finished'[g] = press[q].event
            /\ press[q].event \in set /\ g \in DOMAIN claims' => claims'[g].expires >= now
        BY <4>2, <4>3, <4>4
      <4> QED
        BY <4>1, <4>5 DEF g
    <3> QED
      BY <3>1, <3>2
  <2>2. \A q \in Presses : press'[q].at # "sent" => q \notin set' /\ press'[q].sent = None
    BY <1>1, <1>2 DEF IInv, WaitersOK
  <2> QED
    BY <2>1, <2>2 DEF WaitersOK
<1>7. AnswersOK'
  <2>1. ASSUME NEW g \in Forms, g # f PROVE AnswerOK(g)'
    BY <2>1, <1>3, PrunedAnswers
  <2>2. AnswerOK(f)'
    BY <1>3 DEF PrunedOnly, IInv, AnswersOK, AnswerOK
  <2> QED
    BY <2>1, <2>2 DEF AnswersOK
<1>8. OneRecord'
  BY <1>3 DEF PrunedOnly, IInv, OneRecord
<1> QED
  BY <1>4, <1>5, <1>6, <1>7, <1>8 DEF IInv
\* A press that was waiting is sent somewhere, and nothing else changes.
LEMMA SentKeepsIInv ==
    ASSUME IInv, NEW p \in Presses, press[p].at = "waiting",
           NEW where \in {Answered, "home"}, Sent(p, where),
           UNCHANGED <<now, claims, finished, set, saved>>
    PROVE  IInv'
<1>1. press'[p].at = "sent" /\ \A q \in Presses \ {p} : press'[q] = press[q]
  BY DEF Sent, IInv, Shape
<1>2. Shape'
  <2>1. [press[p] EXCEPT !.at = "sent", !.sent = where, !.event = None] \in PressType
    BY DEF IInv, Shape, PressType
  <2>2. press' \in [Presses -> PressType]
    BY <2>1 DEF Sent, IInv, Shape
  <2> QED
    BY <2>2 DEF IInv, Shape
<1>3. ClaimsOK'
  <2>1. ASSUME NEW g \in DOMAIN finished' PROVE BeingSaved(g)'
    BY <1>1 DEF BeingSaved, IInv, Shape, ClaimsOK
  <2> QED
    BY <2>1, <1>1 DEF IInv, ClaimsOK
<1>4. WaitersOK'
  BY <1>1 DEF IInv, WaitersOK
<1>5. AnswersOK' /\ OneRecord'
  BY DEF IInv, AnswersOK, AnswerOK, OneRecord
<1> QED
  BY <1>2, <1>3, <1>4, <1>5 DEF IInv

LEMMA WakeKeepsIInv ==
    ASSUME Room, IInv, NEW p \in Presses, Wake(p)
    PROVE  IInv'
<1> DEFINE f == press[p].form
<1>1. f \in Forms
  BY DEF Wake, IInv, WaitersOK
<1>2. CASE Holds(claims, f)
  <2>1. claims[f].answer \in {None, Answered}
    BY <1>2 DEF Holds, IInv, Shape
  <2>2. \E where \in {Answered, "home"} : Sent(p, where)
    BY <1>2, <2>1 DEF Wake
  <2> QED
    BY <1>2, <2>2, SentKeepsIInv DEF Wake
<1>3. CASE ~Holds(claims, f)
  <2>1. Begun(p, f) \/ Met(p, f)
    BY <1>1, <1>3, ClaimIs DEF Wake
  <2> QED
    BY <1>1, <2>1, BegunKeepsIInv, MetKeepsIInv DEF Wake
<1> QED
  BY <1>2, <1>3

\* The claim a press at work holds is its own.
LEMMA AtWork ==
    ASSUME IInv, NEW p \in Presses, press[p].at = "working"
    PROVE  /\ press[p].form \in DOMAIN finished /\ finished[press[p].form] = p
           /\ press[p].form \in Forms /\ press[p].form \in DOMAIN claims
           /\ claims[press[p].form].answer = None
BY DEF IInv, Shape, ClaimsOK, BeingSaved

\* The press at work on f is sent away and f's event is set and forgotten.
Over(p, f) ==
    /\ \A q \in Presses \ {p} : press'[q] = press[q]
    /\ press'[p].at = "sent"
    /\ DOMAIN finished' = DOMAIN finished \ {f}
    /\ \A g \in DOMAIN finished \ {f} : finished'[g] = finished[g]
    /\ set' = set \cup {p}
    /\ DOMAIN claims' \ {f} = DOMAIN claims \ {f}
    /\ \A g \in DOMAIN claims \ {f} : claims'[g] = claims[g]
    /\ f \in DOMAIN claims' => claims'[f].answer = Answered /\ claims'[f].expires = now + TTL
    /\ now' = now

LEMMA FinishIs ==
    ASSUME IInv, NEW p \in Presses, Finish(p)
    PROVE  Over(p, press[p].form) /\ press[p].form \in DOMAIN claims'
<1> DEFINE f == press[p].form
<1>1. f \in DOMAIN finished /\ finished[f] = p /\ f \in DOMAIN claims
  BY AtWork DEF Finish
<1>2. PICK place : claims' = With(claims, f, [expires |-> now + TTL, answer |-> Answered,
                                              place |-> place])
  BY StoredIs DEF Finish
<1>3. set' = set \cup {p} /\ finished' = Without(finished, {f})
  BY <1>1 DEF Finish, Settled
<1>4. Sent(p, Answered) /\ now' = now
  BY DEF Finish
<1> QED
  BY <1>1, <1>2, <1>3, <1>4 DEF Over, Sent, With, Without, IInv, Shape

LEMMA RefuseIs ==
    ASSUME IInv, NEW p \in Presses, Refuse(p)
    PROVE  Over(p, press[p].form) /\ press[p].form \notin DOMAIN claims'
<1> DEFINE f == press[p].form
<1>1. /\ f \in DOMAIN finished /\ finished[f] = p /\ f \in DOMAIN claims
      /\ claims[f].answer = None
  BY AtWork DEF Refuse
<1>2. claims' = Without(claims, {f}) /\ set' = set \cup {p} /\ finished' = Without(finished, {f})
  BY <1>1 DEF Refuse, Settled, Holds
<1>3. Sent(p, "refusal") /\ now' = now
  BY DEF Refuse
<1> QED
  BY <1>1, <1>2, <1>3 DEF Over, Sent, Without, IInv, Shape

\* Claims, events and those who wait for them agree once the press at work is done.
LEMMA OverKeeps ==
    ASSUME IInv, NEW p \in Presses, press[p].at = "working", Over(p, press[p].form)
    PROVE  ClaimsOK' /\ WaitersOK'
<1> USE SubmissionsAssumption
<1> DEFINE f == press[p].form
<1>1. f \in DOMAIN finished /\ finished[f] = p /\ f \in Forms
  BY AtWork
<1>2. ClaimsOK'
  <2>1. ASSUME NEW g \in DOMAIN finished' PROVE BeingSaved(g)'
    <3>1. g \in DOMAIN finished /\ g # f /\ BeingSaved(g) /\ finished'[g] = finished[g]
      BY DEF Over, IInv, ClaimsOK
    <3>2. finished[g] \in Presses \ {p}
      BY <3>1 DEF BeingSaved, IInv, Shape
    <3> QED
      BY <3>1, <3>2 DEF BeingSaved, Over
  <2>2. \A g \in DOMAIN claims' : claims'[g].answer = None => g \in DOMAIN finished'
    BY DEF Over, IInv, ClaimsOK, Answered
  <2>3. ASSUME NEW q \in Presses, press'[q].at = "working"
        PROVE  press'[q].form \in DOMAIN finished' /\ finished'[press'[q].form] = q
    BY <2>3, <1>1 DEF Over, IInv, ClaimsOK
  <2> QED
    BY <2>1, <2>2, <2>3 DEF ClaimsOK
<1>3. WaitersOK'
  <2>1. ASSUME NEW q \in Presses, press'[q].at = "waiting"
        PROVE  /\ press'[q].form \in Forms
               /\ press'[q].event \notin set' =>
                     /\ press'[q].form \in DOMAIN finished'
                     /\ finished'[press'[q].form] = press'[q].event
               /\ press'[q].event \in set' /\ press'[q].form \in DOMAIN claims' =>
                     claims'[press'[q].form].expires >= now'
    <3> DEFINE g == press[q].form
    <3>1. q # p /\ press'[q] = press[q] /\ press[q].at = "waiting"
      BY <2>1 DEF Over
    <3>2. /\ g \in Forms
          /\ press[q].event \notin set => g \in DOMAIN finished /\ finished[g] = press[q].event
          /\ press[q].event \in set /\ g \in DOMAIN claims => claims[g].expires >= now
      BY <3>1 DEF IInv, WaitersOK
    <3>3. press[q].event \notin set' => g # f
      BY <1>1, <3>2 DEF Over
    <3>4. press[q].event = p /\ p \notin set => g = f
      BY <1>1, <3>2 DEF IInv, ClaimsOK, BeingSaved
    <3>5. g = f /\ g \in DOMAIN claims' => claims'[g].expires >= now'
      BY DEF Over, IInv, Shape
    <3> HIDE DEF g, f
    <3>6. press[q].event \notin set' => g \in DOMAIN finished' /\ finished'[g] = press[q].event
      BY <3>2, <3>3 DEF Over, f
    <3>7. press[q].event \in set' /\ g \in DOMAIN claims' => claims'[g].expires >= now'
      BY <3>2, <3>4, <3>5 DEF Over, f
    <3> QED
      BY <3>1, <3>2, <3>6, <3>7 DEF g
  <2>2. \A q \in Presses : press'[q].at # "sent" => q \notin set' /\ press'[q].sent = None
    BY DEF Over, IInv, WaitersOK
  <2> QED
    BY <2>1, <2>2 DEF WaitersOK
<1> QED
  BY <1>2, <1>3
LEMMA OverKeepsShape ==
    ASSUME IInv, NEW p \in Presses, NEW f \in Forms, Over(p, f), NEW where \in {Answered, "refusal"},
           Sent(p, where)
    PROVE  /\ press' \in [Presses -> PressType] /\ now' \in Nat
           /\ DOMAIN claims' \subseteq Forms /\ DOMAIN finished' \subseteq Forms
           /\ \A g \in DOMAIN claims' :
                 claims'[g].expires \in Int /\ claims'[g].answer \in {None, Answered}
           /\ \A g \in DOMAIN finished' : finished'[g] \in Presses
<1> USE SubmissionsAssumption
<1>1. press' \in [Presses -> PressType]
  <2> DEFINE r == press[p]
             s == [r EXCEPT !.at = "sent", !.sent = where, !.event = None]
  <2>1. r \in PressType /\ press \in [Presses -> PressType]
    BY DEF IInv, Shape
  <2>2. press' = [press EXCEPT ![p] = s]
    BY DEF Sent
  <2> HIDE DEF r
  <2>3. s \in PressType
    BY <2>1 DEF PressType
  <2> HIDE DEF s
  <2> QED
    BY <2>1, <2>2, <2>3
<1>2. now' \in Nat /\ DOMAIN claims' \subseteq Forms /\ DOMAIN finished' \subseteq Forms
  BY DEF Over, IInv, Shape
<1>3. ASSUME NEW g \in DOMAIN claims'
      PROVE  claims'[g].expires \in Int /\ claims'[g].answer \in {None, Answered}
  <2>1. CASE g = f
    BY <2>1 DEF Over, IInv, Shape
  <2>2. CASE g # f
    BY <2>2 DEF Over, IInv, Shape
  <2> QED
    BY <2>1, <2>2
<1>4. \A g \in DOMAIN finished' : finished'[g] \in Presses
  BY DEF Over, IInv, Shape
<1> QED
  BY <1>1, <1>2, <1>3, <1>4

LEMMA OverAnswers ==
    ASSUME IInv, NEW p \in Presses, NEW f, Over(p, f), NEW g \in Forms, g # f, saved'[g] = saved[g]
    PROVE  AnswerOK(g)'
<1>1. AnswerOK(g) /\ now' = now
  BY DEF Over, IInv, AnswersOK
<1>2. g \in DOMAIN claims' <=> g \in DOMAIN claims
  BY DEF Over
<1>3. g \in DOMAIN claims => claims'[g] = claims[g]
  BY DEF Over
<1> QED
  BY <1>1, <1>2, <1>3 DEF AnswerOK

LEMMA FinishKeepsIInv ==
    ASSUME IInv, NEW p \in Presses, Finish(p)
    PROVE  IInv'
<1> USE SubmissionsAssumption
<1>0. PICK f \in Forms : f = press[p].form
  BY AtWork DEF Finish
<1>1. f \in DOMAIN claims /\ claims[f].answer = None
  BY <1>0, AtWork DEF Finish
<1>2. Over(p, f) /\ f \in DOMAIN claims'
  BY <1>0, FinishIs
<1>3. saved' = [saved EXCEPT ![f] = Append(@, now)] /\ Sent(p, Answered)
  BY <1>0 DEF Finish
<1>4. ClaimsOK' /\ WaitersOK'
  BY <1>0, <1>2, OverKeeps DEF Finish
<1>5. now \in Nat /\ saved \in [Forms -> Seq(Nat)]
  BY DEF IInv, Shape
<1>6. saved'[f] = Append(saved[f], now) /\ \A g \in Forms \ {f} : saved'[g] = saved[g]
  BY <1>1, <1>3, <1>5
<1>7. Shape'
  <2>1. saved' \in [Forms -> Seq(Nat)]
    BY <1>1, <1>3, <1>5
  <2> QED
    BY <1>1, <1>2, <1>3, <2>1, OverKeepsShape DEF Shape
<1>8. AnswersOK'
  <2>1. ASSUME NEW g \in Forms, g # f PROVE AnswerOK(g)'
    BY <2>1, <1>2, <1>6, OverAnswers
  <2>2. Append(saved[f], now) # <<>> /\ Last(Append(saved[f], now)) = now
    BY <1>1, <1>5, LastAppend
  <2>3. claims'[f].answer = Answered /\ claims'[f].expires = now + TTL
    BY <1>2 DEF Over
  <2>4. AnswerOK(f)'
    BY <1>2, <1>6, <2>2, <2>3 DEF AnswerOK
  <2> QED
    BY <2>1, <2>4 DEF AnswersOK
<1>9. OneRecord'
  <2> SUFFICES ASSUME NEW g \in Forms, NEW k \in 1 .. Len(saved'[g]) - 1
               PROVE  saved'[g][k] + TTL < saved'[g][k + 1]
    BY DEF OneRecord
  <2>1. CASE g # f
    BY <2>1, <1>6 DEF IInv, OneRecord
  <2>2. CASE g = f
    <3> DEFINE s == saved[f]
    <3>1. s \in Seq(Nat)
      BY <1>1, <1>5
    <3>2. s # <<>> => Last(s) + TTL < now
      BY <1>1 DEF IInv, AnswersOK, AnswerOK, Answered
    <3>3. \A i \in 1 .. Len(s) - 1 : s[i] + TTL < s[i + 1]
      BY <1>1 DEF IInv, OneRecord
    <3>4. saved'[g] = Append(s, now)
      BY <1>6, <2>2
    <3> HIDE DEF s
    <3>5. k \in 1 .. Len(s) /\ Len(s) \in Nat
      BY <3>1, <3>4, <1>5
    <3>6. CASE k = Len(s)
      <4>1. s # <<>> /\ Last(s) = s[k]
        BY <3>1, <3>5, <3>6, LastAppend
      <4>2. Append(s, now)[k] = s[k] /\ Append(s, now)[k + 1] = now
        BY <3>1, <3>5, <3>6, <1>5
      <4> QED
        BY <3>2, <3>4, <4>1, <4>2
    <3>7. CASE k # Len(s)
      <4>1. k \in 1 .. Len(s) - 1
        BY <3>5, <3>7
      <4>2. k \in 1 .. Len(s) /\ k + 1 \in 1 .. Len(s)
        BY <3>5, <4>1
      <4>3. \A i \in 1 .. Len(s) : Append(s, now)[i] = s[i]
        BY <3>1, <1>5
      <4>4. Append(s, now)[k] = s[k] /\ Append(s, now)[k + 1] = s[k + 1]
        BY <4>2, <4>3
      <4> QED
        BY <3>3, <3>4, <4>1, <4>4
    <3> QED
      BY <3>6, <3>7
  <2> QED
    BY <2>1, <2>2
<1> QED
  BY <1>4, <1>7, <1>8, <1>9 DEF IInv

LEMMA RefuseKeepsIInv ==
    ASSUME IInv, NEW p \in Presses, Refuse(p)
    PROVE  IInv'
<1> USE SubmissionsAssumption
<1>0. PICK f \in Forms : f = press[p].form
  BY AtWork DEF Refuse
<1>1. f \in DOMAIN claims /\ claims[f].answer = None
  BY <1>0, AtWork DEF Refuse
<1>2. Over(p, f) /\ f \notin DOMAIN claims'
  BY <1>0, RefuseIs
<1>3. saved' = saved /\ now' = now /\ Sent(p, "refusal")
  BY <1>0 DEF Refuse
<1>4. ClaimsOK' /\ WaitersOK'
  BY <1>0, <1>2, OverKeeps DEF Refuse
<1>5. Shape'
  <2>1. saved' \in [Forms -> Seq(Nat)]
    BY <1>3 DEF IInv, Shape
  <2> QED
    BY <1>1, <1>2, <1>3, <2>1, OverKeepsShape DEF Shape
<1>6. AnswersOK'
  <2>1. ASSUME NEW g \in Forms, g # f PROVE AnswerOK(g)'
    BY <2>1, <1>2, <1>3, OverAnswers
  <2>2. AnswerOK(f)'
    BY <1>1, <1>2, <1>3 DEF IInv, AnswersOK, AnswerOK, Answered
  <2> QED
    BY <2>1, <2>2 DEF AnswersOK
<1>7. OneRecord'
  BY <1>3 DEF IInv, OneRecord
<1> QED
  BY <1>4, <1>5, <1>6, <1>7 DEF IInv

\* The clock does not run a claim at work, nor a press the loop must wake, out of time.
LEMMA TickKeepsIInv ==
    ASSUME IInv, Tick
    PROVE  IInv'
<1> USE SubmissionsAssumption
<1>1. now \in Nat /\ now' = now + 1 /\ UNCHANGED <<claims, finished, set, press, saved>>
  BY DEF Tick, IInv, Shape
<1>2. Shape'
  BY <1>1 DEF IInv, Shape
<1>3. ClaimsOK'
  <2>1. ASSUME NEW f \in DOMAIN finished PROVE BeingSaved(f)'
    <3>1. BeingSaved(f) /\ claims[f].expires \in Int
      BY DEF IInv, ClaimsOK, BeingSaved, Shape
    <3>2. now < claims[f].expires
      BY <3>1 DEF Tick, BeingSaved
    <3> QED
      BY <1>1, <3>1, <3>2 DEF BeingSaved
  <2> QED
    BY <1>1, <2>1 DEF IInv, ClaimsOK
<1>4. WaitersOK'
  BY <1>1 DEF Tick, IInv, WaitersOK
<1>5. AnswersOK'
  <2>1. ASSUME NEW f \in Forms PROVE AnswerOK(f)'
    <3>1. AnswerOK(f) /\ saved[f] \in Seq(Nat)
      BY DEF IInv, AnswersOK, Shape
    <3>2. saved[f] # <<>> => Last(saved[f]) \in Nat
      BY <1>1, <3>1, LastAppend
    <3> QED
      BY <1>1, <3>1, <3>2 DEF AnswerOK
  <2> QED
    BY <2>1 DEF AnswersOK
<1>6. OneRecord'
  BY <1>1 DEF IInv, OneRecord
<1> QED
  BY <1>2, <1>3, <1>4, <1>5, <1>6 DEF IInv

LEMMA PressKeepsIInv ==
    ASSUME Room, IInv, NEW p \in Presses, NEW f \in Forms, Press(p, f)
    PROVE  IInv'
<1>1. Begun(p, f) \/ Met(p, f)
  BY ClaimIs DEF Press
<1> QED
  BY <1>1, BegunKeepsIInv, MetKeepsIInv DEF Press

LEMMA TimeOutKeepsIInv ==
    ASSUME IInv, NEW p \in Presses, TimeOut(p)
    PROVE  IInv'
BY SentKeepsIInv DEF TimeOut

LEMMA StutterKeepsIInv == ASSUME IInv, UNCHANGED vars PROVE IInv'
<1>1. UNCHANGED <<now, claims, finished, set, press, saved>>
  BY DEF vars
<1>2. Shape' /\ WaitersOK' /\ OneRecord'
  BY <1>1 DEF IInv, Shape, WaitersOK, OneRecord
<1>3. ClaimsOK' /\ AnswersOK'
  BY <1>1 DEF IInv, ClaimsOK, BeingSaved, AnswersOK, AnswerOK
<1> QED
  BY <1>2, <1>3 DEF IInv

LEMMA NextKeepsIInv == ASSUME Room, IInv, [Next]_vars PROVE IInv'
BY PressKeepsIInv, WakeKeepsIInv, TimeOutKeepsIInv, FinishKeepsIInv, RefuseKeepsIInv,
   TickKeepsIInv, StutterKeepsIInv DEF Next

\* However many presses of a form, its second record is made more than TTL after its
\* first (submissions.claim, finish and release), as long as the table has room.
THEOREM SavedOnce == Spec /\ []Room => []OneRecord
<1>1. IInv /\ Room /\ [Next]_vars => IInv'
  BY NextKeepsIInv
<1>2. IInv => OneRecord
  BY DEF IInv
<1> QED
  BY <1>1, <1>2, InitIInv, PTL DEF Spec
-----------------------------------------------------------------------------
(***************************************************************************)
(* The claims implement OncePerForm: its variables, and each step of       *)
(* Submissions as one of its steps or a stutter.                           *)
(***************************************************************************)
saving == [f \in Forms |-> IF Working(f) = {} THEN None ELSE CHOOSE p \in Working(f) : TRUE]
lastSaved == [f \in Forms |-> IF saved[f] = <<>> THEN None ELSE Last(saved[f])]
sent == [p \in Presses |-> press[p].sent]

\* A form is being saved by the press whose event it has.
Saver(f) == IF f \in DOMAIN finished THEN finished[f] ELSE None

LEMMA SavingIs == IInv => saving = [f \in Forms |-> Saver(f)]
<1> SUFFICES ASSUME IInv, NEW f \in Forms
             PROVE  (IF Working(f) = {} THEN None ELSE CHOOSE p \in Working(f) : TRUE) = Saver(f)
  BY DEF saving
<1>1. CASE f \in DOMAIN finished
  <2>1. finished[f] \in Working(f) /\ \A p \in Working(f) : p = finished[f]
    BY <1>1 DEF Working, IInv, Shape, ClaimsOK, BeingSaved
  <2>2. (CHOOSE p \in Working(f) : TRUE) \in Working(f)
    BY <2>1, Zenon
  <2>3. (CHOOSE p \in Working(f) : TRUE) = finished[f]
    BY <2>1, <2>2
  <2> QED
    BY <1>1, <2>1, <2>3 DEF Saver
<1>2. CASE f \notin DOMAIN finished
  <2>1. Working(f) = {}
    BY <1>2 DEF Working, IInv, ClaimsOK
  <2> QED
    BY <1>2, <2>1 DEF Saver
<1> QED
  BY <1>1, <1>2

LEMMA SavingIsAfter == IInv' => saving' = [f \in Forms |-> Saver(f)']
<1>1. IInv => saving = [f \in Forms |-> Saver(f)]
  BY SavingIs
<1>2. (IInv => saving = [f \in Forms |-> Saver(f)])'
  BY <1>1, PTL
<1> QED
  BY <1>2

LEMMA InitImplements == Init => Once!Init
<1> SUFFICES ASSUME Init PROVE Once!Init
  OBVIOUS
<1>1. saving = [f \in Forms |-> None]
  <2>1. \A f \in Forms : Working(f) = {}
    BY DEF Init, Working, Fresh
  <2> QED
    BY <2>1 DEF saving
<1>2. lastSaved = [f \in Forms |-> None] /\ sent = [p \in Presses |-> None] /\ now = 0
  BY DEF Init, lastSaved, sent, Fresh
<1> QED
  BY <1>1, <1>2 DEF Once!Init, saving, lastSaved, sent

\* OncePerForm's actions over those variables.
Remembered(f) == lastSaved[f] # None /\ now <= lastSaved[f] + TTL

LEMMA RememberedIs ==
    ASSUME IInv, NEW f \in Forms
    PROVE  Remembered(f) <=> saved[f] # <<>> /\ now <= Last(saved[f]) + TTL
<1>1. saved[f] \in Seq(Nat)
  BY DEF IInv, Shape
<1>2. saved[f] # <<>> => Last(saved[f]) # None
  BY <1>1, LastAppend, SubmissionsAssumption
<1> QED
  BY <1>2 DEF Remembered, lastSaved

LEMMA BegunImplements ==
    ASSUME IInv, IInv', NEW p \in Presses, NEW f \in Forms, press[p].at \in {"unpressed", "waiting"},
           Begun(p, f)
    PROVE  Once!Begin(f, p)
<1> USE SubmissionsAssumption
<1>1. saving[f] = None /\ saving' = [saving EXCEPT ![f] = p]
  <2>1. saving = [g \in Forms |-> Saver(g)] /\ saving' = [g \in Forms |-> Saver(g)']
    BY SavingIs, SavingIsAfter
  <2>2. Saver(f) = None /\ Saver(f)' = p
    BY DEF Begun, Saver
  <2>3. \A g \in Forms \ {f} : Saver(g)' = Saver(g)
    BY DEF Begun, PrunedOnly, Saver
  <2> QED
    BY <2>1, <2>2, <2>3
<1>2. ~Remembered(f)
  <2> SUFFICES ~(saved[f] # <<>> /\ now <= Last(saved[f]) + TTL)
    BY RememberedIs
  <2>1. AnswerOK(f)
    BY DEF IInv, AnswersOK
  <2>2. ~(f \in DOMAIN claims /\ claims[f].expires >= now)
    BY DEF Begun, Alive
  <2>3. now \in Nat /\ (f \in DOMAIN claims => claims[f].expires \in Int)
    BY DEF IInv, Shape
  <2>4. saved[f] # <<>> => Last(saved[f]) \in Nat
    <3>1. saved[f] \in Seq(Nat)
      BY DEF IInv, Shape
    <3> QED
      BY <3>1, LastAppend
  <2>5. CASE f \in DOMAIN claims /\ claims[f].answer = Answered
    BY <2>1, <2>2, <2>5 DEF AnswerOK
  <2>6. CASE ~(f \in DOMAIN claims /\ claims[f].answer = Answered)
    <3>1. saved[f] # <<>> => Last(saved[f]) + TTL < now
      BY <2>1, <2>6 DEF AnswerOK
    <3> QED
      BY <2>3, <2>4, <3>1
  <2> QED
    BY <2>5, <2>6
<1>3. sent[p] = None
  BY DEF sent, IInv, WaitersOK
<1>4. lastSaved' = lastSaved /\ now' = now
  BY DEF Begun, PrunedOnly, lastSaved
<1>5. sent' = sent
  <2>1. \A q \in Presses : press'[q].sent = press[q].sent
    BY DEF Begun, IInv, Shape, PressType
  <2> QED
    BY <2>1 DEF sent
<1> QED
  BY <1>1, <1>2, <1>3, <1>4, <1>5
  DEF Once!Begin, Once!Remembered, Remembered, saving, lastSaved, sent

\* A press that is not at work is sent to what the form's record or its saver allows.
LEMMA SentImplements ==
    ASSUME IInv, IInv', NEW p \in Presses, NEW f \in Forms, press[p].at \in {"unpressed", "waiting"},
           NEW where, sent' = [sent EXCEPT ![p] = where],
           \/ where = "record" /\ f \in DOMAIN claims /\ claims[f].answer = Answered /\ Alive(f)
           \/ where = "home" /\ f \in DOMAIN finished,
           now' = now, saved' = saved, \A g \in Forms : Saver(g)' = Saver(g)
    PROVE  Once!Repeat(f, p)
<1> USE SubmissionsAssumption
<1>1. saving' = saving /\ saving = [g \in Forms |-> Saver(g)]
  BY SavingIs, SavingIsAfter
<1>2. \A g \in Forms : saving[g] # p
  <2>1. ASSUME NEW g \in Forms PROVE Saver(g) # p
    BY DEF Saver, IInv, ClaimsOK, BeingSaved
  <2> QED
    BY <1>1, <2>1
<1>3. sent[p] = None
  BY DEF sent, IInv, WaitersOK
<1>4. CASE where = "record" /\ f \in DOMAIN claims /\ claims[f].answer = Answered /\ Alive(f)
  <2>1. saved[f] # <<>> /\ now <= Last(saved[f]) + TTL
    BY <1>4 DEF Alive, IInv, AnswersOK, AnswerOK
  <2>2. Remembered(f)
    BY <2>1, RememberedIs
  <2>3. lastSaved' = lastSaved
    BY DEF lastSaved
  <2> QED
    BY <1>1, <1>2, <1>3, <1>4, <2>2, <2>3
    DEF Once!Repeat, Once!Remembered, Remembered, saving, lastSaved, sent
<1>5. CASE where = "home" /\ f \in DOMAIN finished
  <2>1. saving[f] # None
    BY <1>1, <1>5 DEF Saver, IInv, Shape
  <2>2. lastSaved' = lastSaved
    BY DEF lastSaved
  <2> QED
    BY <1>1, <1>2, <1>3, <1>5, <2>1, <2>2
    DEF Once!Repeat, saving, lastSaved, sent
<1> QED
  BY <1>4, <1>5
OnceStays == UNCHANGED <<now, saving, lastSaved, sent>>

LEMMA MetImplements ==
    ASSUME IInv, IInv', NEW p \in Presses, NEW f \in Forms, press[p].at \in {"unpressed", "waiting"},
           Met(p, f)
    PROVE  Once!Repeat(f, p) \/ OnceStays
<1>1. now' = now /\ saved' = saved /\ Alive(f) /\ f \in DOMAIN claims
  BY DEF Met, PrunedOnly, Alive
<1>2. \A g \in Forms : Saver(g)' = Saver(g)
  BY DEF Met, PrunedOnly, Saver
<1>3. \A q \in Presses \ {p} : press'[q].sent = press[q].sent
  BY MetPress
<1>4. CASE press'[p].at = "sent"
  <2>1. press'[p].sent = Answered /\ claims[f].answer = Answered
    BY <1>4, MetPress
  <2>2. sent' = [sent EXCEPT ![p] = "record"]
    BY <1>3, <2>1 DEF sent, Answered
  <2> QED
    BY <1>1, <1>2, <2>1, <2>2, SentImplements
<1>5. CASE press'[p].at = "waiting"
  <2>1. press'[p].sent = press[p].sent
    BY <1>5, MetPress
  <2>2. sent' = sent
    BY <1>3, <2>1 DEF sent
  <2>3. saving' = saving
    BY <1>2, SavingIs, SavingIsAfter
  <2> QED
    BY <1>1, <2>2, <2>3 DEF OnceStays, lastSaved
<1> QED
  BY <1>4, <1>5, MetPress

LEMMA PressImplements ==
    ASSUME Room, IInv, IInv', NEW p \in Presses, NEW f \in Forms, Press(p, f)
    PROVE  Once!Begin(f, p) \/ Once!Repeat(f, p) \/ OnceStays
<1>1. Begun(p, f) \/ Met(p, f)
  BY ClaimIs DEF Press
<1> QED
  BY <1>1, BegunImplements, MetImplements DEF Press

LEMMA SentIs ==
    ASSUME IInv, NEW p \in Presses, NEW where, Sent(p, where)
    PROVE  sent' = [sent EXCEPT ![p] = where]
<1>1. \A q \in Presses : press'[q].sent = IF q = p THEN where ELSE press[q].sent
  BY DEF Sent, IInv, Shape, PressType
<1> QED
  BY <1>1 DEF sent

LEMMA WakeImplements ==
    ASSUME Room, IInv, IInv', NEW p \in Presses, Wake(p)
    PROVE  \E f \in Forms : Once!Begin(f, p) \/ Once!Repeat(f, p) \/ OnceStays
<1>1. PICK f \in Forms : f = press[p].form
  BY DEF Wake, IInv, WaitersOK
<1>2. CASE Holds(claims, f)
  <2>1. /\ Sent(p, IF claims[f].answer = None THEN "home" ELSE claims[f].answer)
        /\ UNCHANGED <<now, claims, finished, saved>>
    BY <1>1, <1>2 DEF Wake
  <2>2. f \in DOMAIN claims /\ Alive(f)
    BY <1>1, <1>2 DEF Holds, Alive, Wake, IInv, WaitersOK
  <2>3. \A g \in Forms : Saver(g)' = Saver(g)
    BY <2>1 DEF Saver
  <2>4. CASE claims[f].answer = None
    <3>1. f \in DOMAIN finished /\ sent' = [sent EXCEPT ![p] = "home"]
      BY <2>1, <2>2, <2>4, SentIs DEF IInv, ClaimsOK
    <3> QED
      BY <2>1, <2>3, <3>1, SentImplements DEF Wake
  <2>5. CASE claims[f].answer # None
    <3>1. claims[f].answer = Answered
      BY <2>2, <2>5 DEF IInv, Shape
    <3>2. sent' = [sent EXCEPT ![p] = "record"]
      BY <2>1, <2>5, <3>1, SentIs DEF Answered
    <3> QED
      BY <2>1, <2>2, <2>3, <3>1, <3>2, SentImplements DEF Wake
  <2> QED
    BY <2>4, <2>5
<1>3. CASE ~Holds(claims, f)
  <2>1. Begun(p, f) \/ Met(p, f)
    BY <1>1, <1>3, ClaimIs DEF Wake
  <2> QED
    BY <2>1, BegunImplements, MetImplements DEF Wake
<1> QED
  BY <1>2, <1>3

LEMMA TimeOutImplements ==
    ASSUME IInv, IInv', NEW p \in Presses, TimeOut(p)
    PROVE  \E f \in Forms : Once!Repeat(f, p)
<1>1. PICK f \in Forms : f = press[p].form
  BY DEF TimeOut, IInv, WaitersOK
<1>2. f \in DOMAIN finished
  BY <1>1 DEF TimeOut, IInv, WaitersOK
<1>3. sent' = [sent EXCEPT ![p] = "home"]
  BY SentIs DEF TimeOut
<1>4. now' = now /\ saved' = saved /\ \A g \in Forms : Saver(g)' = Saver(g)
  BY DEF TimeOut, Saver
<1> QED
  BY <1>2, <1>3, <1>4, SentImplements DEF TimeOut

\* Once the press at work is sent away its form is saved by nobody.
LEMMA OverSaving ==
    ASSUME IInv, IInv', NEW p \in Presses, NEW f \in Forms, f = press[p].form,
           press[p].at = "working", Over(p, f)
    PROVE  saving[f] = p /\ saving' = [saving EXCEPT ![f] = None]
<1>1. saving = [g \in Forms |-> Saver(g)] /\ saving' = [g \in Forms |-> Saver(g)']
  BY SavingIs, SavingIsAfter
<1>2. Saver(f) = p
  BY AtWork DEF Saver
<1>3. Saver(f)' = None /\ \A g \in Forms \ {f} : Saver(g)' = Saver(g)
  BY DEF Over, Saver
<1> QED
  BY <1>1, <1>2, <1>3

LEMMA FinishImplements ==
    ASSUME IInv, IInv', NEW p \in Presses, Finish(p)
    PROVE  \E f \in Forms : Once!Save(f, p)
<1>1. PICK f \in Forms : f = press[p].form
  BY AtWork DEF Finish
<1>2. saving[f] = p /\ saving' = [saving EXCEPT ![f] = None]
  BY <1>1, FinishIs, OverSaving DEF Finish
<1>3. now' = now /\ saved' = [saved EXCEPT ![f] = Append(@, now)]
  BY <1>1 DEF Finish
<1>4. lastSaved' = [lastSaved EXCEPT ![f] = now]
  <2>1. now \in Nat /\ saved \in [Forms -> Seq(Nat)]
    BY DEF IInv, Shape
  <2>2. saved'[f] # <<>> /\ Last(saved'[f]) = now
    BY <1>3, <2>1, LastAppend
  <2>3. \A g \in Forms \ {f} : saved'[g] = saved[g]
    BY <1>3, <2>1
  <2> QED
    BY <2>2, <2>3 DEF lastSaved
<1>5. sent' = [sent EXCEPT ![p] = "record"]
  BY SentIs DEF Finish, Answered
<1> QED
  BY <1>2, <1>3, <1>4, <1>5 DEF Once!Save, saving, lastSaved, sent

LEMMA RefuseImplements ==
    ASSUME IInv, IInv', NEW p \in Presses, Refuse(p)
    PROVE  \E f \in Forms : Once!Refuse(f, p)
<1>1. PICK f \in Forms : f = press[p].form
  BY AtWork DEF Refuse
<1>2. saving[f] = p /\ saving' = [saving EXCEPT ![f] = None]
  BY <1>1, RefuseIs, OverSaving DEF Refuse
<1>3. now' = now /\ lastSaved' = lastSaved
  BY DEF Refuse, lastSaved
<1>4. sent' = [sent EXCEPT ![p] = "refusal"]
  BY SentIs DEF Refuse
<1> QED
  BY <1>2, <1>3, <1>4 DEF Once!Refuse, saving, lastSaved, sent

LEMMA TickImplements == ASSUME IInv, IInv', Tick PROVE Once!Tick
<1>1. now < LastTick /\ now' = now + 1 /\ UNCHANGED <<claims, finished, set, press, saved>>
  BY DEF Tick
<1>2. \A f \in Forms : Saver(f)' = Saver(f)
  BY <1>1 DEF Saver
<1>3. saving' = saving /\ lastSaved' = lastSaved /\ sent' = sent
  <2>1. saving' = saving
    BY <1>2, SavingIs, SavingIsAfter
  <2> QED
    BY <1>1, <2>1 DEF lastSaved, sent
<1> QED
  BY <1>1, <1>3 DEF Once!Tick, saving, lastSaved, sent

LEMMA StutterImplements == ASSUME IInv, IInv', UNCHANGED vars PROVE OnceStays
<1>1. UNCHANGED <<now, claims, finished, set, press, saved>>
  BY DEF vars
<1>2. \A f \in Forms : Saver(f)' = Saver(f)
  BY <1>1 DEF Saver
<1>3. saving' = saving
  BY <1>2, SavingIs, SavingIsAfter
<1> QED
  BY <1>1, <1>3 DEF OnceStays, lastSaved, sent

LEMMA StepImplements == ASSUME Room, IInv, IInv', [Next]_vars PROVE [Once!Next]_(Once!vars)
<1>1. OnceStays => UNCHANGED Once!vars
  BY DEF OnceStays, Once!vars, saving, lastSaved, sent
<1>2. ASSUME Next PROVE Once!Next \/ OnceStays
  <2>1. ASSUME NEW p \in Presses, NEW f \in Forms, Press(p, f) PROVE Once!Next \/ OnceStays
    BY <2>1, PressImplements DEF Once!Next
  <2>2. ASSUME NEW p \in Presses, Wake(p) PROVE Once!Next \/ OnceStays
    BY <2>2, WakeImplements DEF Once!Next
  <2>3. ASSUME NEW p \in Presses, TimeOut(p) PROVE Once!Next
    BY <2>3, TimeOutImplements DEF Once!Next
  <2>4. ASSUME NEW p \in Presses, Finish(p) PROVE Once!Next
    BY <2>4, FinishImplements DEF Once!Next
  <2>5. ASSUME NEW p \in Presses, Refuse(p) PROVE Once!Next
    BY <2>5, RefuseImplements DEF Once!Next
  <2>6. ASSUME Tick PROVE Once!Next
    BY <2>6, TickImplements DEF Once!Next
  <2> QED
    BY <1>2, <2>1, <2>2, <2>3, <2>4, <2>5, <2>6 DEF Next
<1> QED
  BY <1>1, <1>2, StutterImplements

\* The claims of submissions.py keep what OncePerForm promises: a form is saved by one
\* press at a time, its repeats are sent to its record, and its time is TTL.
THEOREM Implements == Spec /\ []Room => ImplementsOncePerForm
<1>1. IInv /\ Room /\ [Next]_vars => IInv'
  BY NextKeepsIInv
<1>2. IInv /\ IInv' /\ Room /\ [Next]_vars => [Once!Next]_(Once!vars)
  BY StepImplements
<1> QED
  BY <1>1, <1>2, InitIInv, InitImplements, PTL DEF Spec, ImplementsOncePerForm, Once!Spec

-----------------------------------------------------------------------------
(***************************************************************************)
(* Plans: what its operators compute.                                      *)
(***************************************************************************)
\* Slots are rows, each with an id of its own.
Slots(e) == /\ e \in Seq(InvestmentPlanEntry)
            /\ \A j, k \in 1 .. Len(e) : e[j].id = e[k].id => j = k

\* Plans's operators, of rows that are named.
Rotation(e) == [k \in DOMAIN e |-> e[k].instrument]

RowsFor(e, d, k) ==
    {j \in DOMAIN e : /\ e[j].instrument = d[k] /\ Nth(Rotation(e), j) = Nth(d, k)}

Places(e, d) ==
    LET kept == {k \in DOMAIN d : RowsFor(e, d, k) # {}}
        at == [k \in kept |-> e[CHOOSE j \in RowsFor(e, d, k) : TRUE].id]
    IN  [id \in {at[k] : k \in kept} |-> CHOOSE k \in kept : at[k] = id]

LastIn(st, ids) ==
    CHOOSE s \in ids : \A r \in ids \ {s} :
        \/ st[s].due > st[r].due
        \/ st[s].due = st[r].due /\ s > r

NextIn(e, st, d) ==
    LET at == Places(e, d)
        past == {s \in DOMAIN st : st[s].entry \in DOMAIN at}
    IN  IF d = <<>> THEN 0
        ELSE IF past = {} THEN Cardinality(DOMAIN st) % Len(d)
        ELSE at[st[LastIn(st, past)].entry] % Len(d)

\* They are Plans's, before a step and after it.
LEMMA RowsAre ==
    ASSUME NEW d
    PROVE  /\ positions(d) = Places(entries, d)
           /\ positions(d)' = Places(entries', d)
           /\ _next_position(d) = NextIn(entries, steps, d)
           /\ _next_position(d)' = NextIn(entries', steps', d)
<1>1. /\ positions(d) = Places(entries, d)
      /\ positions(d)' = Places(entries', d)
  BY DEF positions, Row, rotation, Places, RowsFor, Rotation
<1>2. /\ \A ids : LastOf(ids) = LastIn(steps, ids)
      /\ \A ids : LastOf(ids)' = LastIn(steps', ids)
  BY DEF LastOf, LastIn
<1> QED
  BY <1>1, <1>2 DEF _next_position, NextIn

LEMMA LeastNat ==
    ASSUME NEW S \in SUBSET Nat, S # {}
    PROVE  \E m \in S : \A n \in S : m <= n
<1> DEFINE R == OpToRel(<, Nat)
<1>1. IsWellFoundedOn(R, Nat)
  BY NatLessThanWellFounded
<1>2. \A a, b \in Nat : a < b => <<a, b>> \in R
  BY DEF OpToRel
<1> HIDE DEF R
<1>3. PICK m \in S : \A y \in S : ~ (<<y, m>> \in R)
  BY <1>1, WFMin
<1>4. ASSUME NEW n \in S PROVE m <= n
  <2>1. m \in Nat /\ n \in Nat
    OBVIOUS
  <2>2. ~(n < m)
    BY <1>2, <1>3, <2>1
  <2> QED
    BY <2>1, <2>2
<1> QED
  BY <1>4

\* Among numbers with dates a finite set has a last one, and only one.
Follows(st, s, r) == st[s].due > st[r].due \/ (st[s].due = st[r].due /\ s > r)

Dated(st, ids) == \A s \in ids : s \in Int /\ st[s].due \in Int

LEMMA FollowsIsOrder ==
    ASSUME NEW st, NEW ids, Dated(st, ids)
    PROVE  /\ \A s, r \in ids : s # r => Follows(st, s, r) \/ Follows(st, r, s)
           /\ \A s, r \in ids : ~(Follows(st, s, r) /\ Follows(st, r, s))
           /\ \A s, r, q \in ids : Follows(st, s, r) /\ Follows(st, r, q) => Follows(st, s, q)
BY DEF Follows, Dated

LEMMA LastExists ==
    ASSUME NEW st, NEW ids, Dated(st, ids), IsFiniteSet(ids), ids # {}
    PROVE  \E s \in ids : \A r \in ids \ {s} : Follows(st, s, r)
<1> DEFINE under(s) == {r \in ids : Follows(st, s, r)}
           N == Cardinality(ids)
           left == {N - Cardinality(under(s)) : s \in ids}
<1>1. ASSUME NEW s \in ids
      PROVE  /\ IsFiniteSet(under(s)) /\ Cardinality(under(s)) \in Nat /\ N \in Nat
             /\ Cardinality(under(s)) <= N
  <2>1. under(s) \in SUBSET ids
    OBVIOUS
  <2> HIDE DEF under
  <2> QED
    BY <2>1, FS_Subset, FS_CardinalityType
<1> HIDE DEF N, under
<1>2. left \in SUBSET Nat /\ left # {}
  BY <1>1
<1>3. PICK m \in left : \A n \in left : m <= n
  BY <1>2, LeastNat
<1>4. PICK s \in ids : m = N - Cardinality(under(s))
  OBVIOUS
<1>5. ASSUME NEW r \in ids \ {s}, ~Follows(st, s, r) PROVE FALSE
  <2>1. Follows(st, r, s)
    BY <1>5, FollowsIsOrder
  <2>2. under(s) \cup {s} \subseteq under(r) /\ s \notin under(s)
    BY <2>1, FollowsIsOrder DEF under
  <2>3. Cardinality(under(s) \cup {s}) = Cardinality(under(s)) + 1
    BY <1>1, <2>2, FS_AddElement
  <2>4. Cardinality(under(s) \cup {s}) <= Cardinality(under(r))
    BY <1>1, <2>2, FS_Subset
  <2>5. m <= N - Cardinality(under(r))
    BY <1>3
  <2> QED
    BY <1>1, <1>4, <2>3, <2>4, <2>5
<1> QED
  BY <1>5

LEMMA LastIs ==
    ASSUME NEW st, NEW ids, Dated(st, ids), IsFiniteSet(ids), ids # {}
    PROVE  /\ LastIn(st, ids) \in ids
           /\ \A r \in ids \ {LastIn(st, ids)} : Follows(st, LastIn(st, ids), r)
           /\ \A s \in ids : (\A r \in ids \ {s} : Follows(st, s, r)) => s = LastIn(st, ids)
<1>1. PICK s \in ids : \A r \in ids \ {s} : Follows(st, s, r)
  BY LastExists
<1> DEFINE last == LastIn(st, ids)
<1>2. last \in ids /\ \A r \in ids \ {last} : Follows(st, last, r)
  BY <1>1 DEF LastIn, Follows
<1> HIDE DEF last
<1>3. ASSUME NEW r \in ids, \A q \in ids \ {r} : Follows(st, r, q), r # last PROVE FALSE
  BY <1>2, <1>3, FollowsIsOrder
<1> QED
  BY <1>2, <1>3 DEF last

\* Only the dates matter to which is the last.
LEMMA LastSame ==
    ASSUME NEW st, NEW tt, NEW ids, Dated(st, ids), IsFiniteSet(ids), ids # {},
           \A s \in ids : tt[s].due = st[s].due
    PROVE  LastIn(tt, ids) = LastIn(st, ids)
<1> DEFINE last == LastIn(tt, ids)
<1>1. Dated(tt, ids) /\ \A s, r \in ids : Follows(tt, s, r) <=> Follows(st, s, r)
  BY DEF Dated, Follows
<1>2. last \in ids /\ \A r \in ids \ {last} : Follows(tt, last, r)
  BY <1>1, LastIs
<1> HIDE DEF last
<1>3. \A r \in ids \ {last} : Follows(st, last, r)
  BY <1>1, <1>2
<1>4. last = LastIn(st, ids)
  BY <1>2, <1>3, LastIs
<1> QED
  BY <1>4 DEF last

-----------------------------------------------------------------------------
(***************************************************************************)
(* The numbers that are free.                                              *)
(***************************************************************************)
\* A free number: as many as there are taken, and n more, hold n free ones.
Unused(used, m) == {j \in 1 .. m : j \notin used}

LEMMA UnusedGrows ==
    ASSUME NEW used, NEW m \in Nat
    PROVE  /\ IsFiniteSet(Unused(used, m)) /\ Cardinality(Unused(used, m)) \in Nat
           /\ m > 0 => /\ IsFiniteSet(Unused(used, m - 1))
                       /\ Cardinality(Unused(used, m)) =
                             IF m \in used THEN Cardinality(Unused(used, m - 1))
                             ELSE Cardinality(Unused(used, m - 1)) + 1
<1>1. \A n \in Nat : IsFiniteSet(Unused(used, n)) /\ Cardinality(Unused(used, n)) \in Nat
  <2> SUFFICES ASSUME NEW n \in Nat
               PROVE  IsFiniteSet(Unused(used, n)) /\ Cardinality(Unused(used, n)) \in Nat
    OBVIOUS
  <2>1. IsFiniteSet(1 .. n)
    BY FS_Interval
  <2>2. Unused(used, n) \in SUBSET (1 .. n)
    BY DEF Unused
  <2> QED
    BY <2>1, <2>2, FS_Subset, FS_CardinalityType
<1>2. ASSUME m > 0
      PROVE  Cardinality(Unused(used, m)) =
                IF m \in used THEN Cardinality(Unused(used, m - 1))
                ELSE Cardinality(Unused(used, m - 1)) + 1
  <2>1. m - 1 \in Nat /\ m \notin Unused(used, m - 1)
    BY <1>2 DEF Unused
  <2>2. CASE m \in used
    <3>1. Unused(used, m) = Unused(used, m - 1)
      BY <1>2, <2>2 DEF Unused
    <3> QED
      BY <2>2, <3>1
  <2>3. CASE m \notin used
    <3>1. Unused(used, m) = Unused(used, m - 1) \cup {m}
      BY <1>2, <2>3 DEF Unused
    <3> QED
      BY <1>1, <2>1, <2>3, <3>1, FS_AddElement
  <2> QED
    BY <2>2, <2>3
<1> QED
  BY <1>1, <1>2

LEMMA EnoughUnused ==
    ASSUME NEW used, IsFiniteSet(used), NEW n \in Nat, NEW m, m = Cardinality(used) + n
    PROVE  m \in Nat /\ Cardinality(Unused(used, m)) >= n
<1>1. Cardinality(used) \in Nat /\ m \in Nat
  BY FS_CardinalityType
<1>2. IsFiniteSet(1 .. m) /\ Cardinality(1 .. m) = m
  <2>0. \A a, b \in Int : Cardinality(a .. b) = IF a > b THEN 0 ELSE b - a + 1
    BY FS_Interval, Zenon
  <2>1. Cardinality(1 .. m) = IF 1 > m THEN 0 ELSE m - 1 + 1
    <3>1. 1 \in Int /\ m \in Int
      BY <1>1
    <3> QED
      BY <2>0, <3>1, Zenon
  <2>2. IsFiniteSet(1 .. m)
    BY <1>1, FS_Interval
  <2> DEFINE c == Cardinality(1 .. m)
  <2>3. c = IF 1 > m THEN 0 ELSE m - 1 + 1
    BY <2>1
  <2> HIDE DEF c
  <2>4. c = m
    BY <1>1, <2>3
  <2> QED
    BY <2>2, <2>4 DEF c
<1> DEFINE free == Unused(used, m)
           taken == used \cap (1 .. m)
<1>3. IsFiniteSet(taken) /\ Cardinality(taken) <= Cardinality(used) /\ Cardinality(taken) \in Nat
  <2>1. taken \in SUBSET used
    OBVIOUS
  <2> HIDE DEF taken
  <2> QED
    BY <2>1, FS_Subset, FS_CardinalityType
<1>4. IsFiniteSet(free) /\ Cardinality(free) \in Nat
  BY <1>1, UnusedGrows
<1>5. 1 .. m = free \cup taken /\ free \cap taken = {}
  BY <1>1 DEF Unused
<1> HIDE DEF free, taken
<1>6. Cardinality(1 .. m) = Cardinality(free) + Cardinality(taken) - Cardinality(free \cap taken)
  BY <1>3, <1>4, <1>5, FS_Union
<1>7. Cardinality(free \cap taken) = 0
  BY <1>5, FS_EmptySet
<1>8. Cardinality(free) >= n
  BY <1>1, <1>2, <1>3, <1>4, <1>6, <1>7
<1> QED
  BY <1>1, <1>8 DEF free

LEMMA FreeIs ==
    ASSUME NEW used, IsFiniteSet(used), NEW n \in Nat \ {0}
    PROVE  /\ Free(used, n) \in Nat \ {0} /\ Free(used, n) \notin used
           /\ Free(used, n) \in 1 .. Cardinality(used) + n
           /\ Cardinality(Unused(used, Free(used, n))) = n
<1> DEFINE top == Cardinality(used) + n
           many == {m \in Nat : Cardinality(Unused(used, m)) >= n}
<1>1. top \in Nat /\ Cardinality(Unused(used, top)) >= n
  BY EnoughUnused
<1> HIDE DEF top
<1>2. PICK m \in many : \A k \in many : m <= k
  BY <1>1, LeastNat
<1>3. m <= top
  BY <1>1, <1>2
<1>4. m > 0
  <2>1. Unused(used, 0) = {}
    BY DEF Unused
  <2>2. Cardinality(Unused(used, 0)) = 0
    BY <2>1, FS_EmptySet
  <2> QED
    BY <1>2, <2>2
<1>5. m - 1 \in Nat /\ Cardinality(Unused(used, m - 1)) < n
  <2>1. m - 1 \notin many /\ m - 1 \in Nat
    BY <1>2, <1>4
  <2> QED
    BY <2>1, UnusedGrows
<1>6. m \notin used /\ Cardinality(Unused(used, m)) = n
  <2> DEFINE a == Cardinality(Unused(used, m))
             b == Cardinality(Unused(used, m - 1))
  <2>1. a = (IF m \in used THEN b ELSE b + 1) /\ a \in Nat
    BY <1>4, UnusedGrows
  <2>2. b \in Nat /\ b < n /\ a >= n
    BY <1>2, <1>5, UnusedGrows
  <2> HIDE DEF a, b
  <2>3. m \notin used /\ a = n
    BY <2>1, <2>2
  <2> QED
    BY <2>3 DEF a
<1>7. m \in 1 .. top
  BY <1>1, <1>3, <1>4
<1> DEFINE Fits(id) == id \notin used /\ Cardinality(Unused(used, id)) = n
<1>8. Free(used, n) = CHOOSE id \in 1 .. top : Fits(id)
  BY DEF Free, Unused, top
<1> DEFINE id == Free(used, n)
<1>9. id \in 1 .. top /\ Fits(id)
  BY <1>6, <1>7, <1>8
<1> QED
  BY <1>9 DEF top

-----------------------------------------------------------------------------
(***************************************************************************)
(* Places, and the rows that keep them.                                    *)
(***************************************************************************)
\* A place is known by its instrument and by which of its instrument's it is.
Alike(d, k) == {j \in 1 .. k : d[j] = d[k]}

LEMMA NthIs ==
    ASSUME NEW d, NEW k \in Nat
    PROVE  Nth(d, k) = Cardinality(Alike(d, k)) /\ IsFiniteSet(Alike(d, k))
<1>1. IsFiniteSet(1 .. k)
  BY FS_Interval
<1>2. Alike(d, k) \in SUBSET (1 .. k)
  BY DEF Alike
<1> QED
  BY <1>1, <1>2, FS_Subset DEF Nth, Alike

LEMMA NthBelow ==
    ASSUME NEW d, NEW j \in Nat \ {0}, NEW k \in Nat, j < k, d[j] = d[k]
    PROVE  Nth(d, j) # Nth(d, k)
<1>1. Alike(d, j) \in SUBSET Alike(d, k) /\ k \in Alike(d, k) /\ k \notin Alike(d, j)
  BY DEF Alike
<1>2. Alike(d, j) # Alike(d, k)
  BY <1>1
<1>3. Cardinality(Alike(d, j)) # Cardinality(Alike(d, k))
  BY <1>1, <1>2, NthIs, FS_Subset
<1> QED
  BY <1>3, NthIs

LEMMA NthApart ==
    ASSUME NEW d, NEW j \in Nat \ {0}, NEW k \in Nat \ {0}, d[j] = d[k],
           Nth(d, j) = Nth(d, k)
    PROVE  j = k
<1>1. ~(j < k) /\ ~(k < j)
  BY NthBelow
<1> QED
  BY <1>1

\* The ids of its rows.
RowIds(e) == {e[k].id : k \in 1 .. Len(e)}

LEMMA SlotIs ==
    ASSUME NEW e, Slots(e)
    PROVE  /\ Len(e) \in Nat /\ DOMAIN e = 1 .. Len(e)
           /\ \A k \in 1 .. Len(e) : e[k].id \in Nat /\ e[k].instrument \in Instruments
           /\ Rotation(e) \in Seq(Instruments) /\ Len(Rotation(e)) = Len(e)
           /\ \A k \in 1 .. Len(e) : Rotation(e)[k] = e[k].instrument
<1>1. /\ Len(e) \in Nat /\ DOMAIN e = 1 .. Len(e)
      /\ \A k \in 1 .. Len(e) : e[k] \in InvestmentPlanEntry
  BY DEF Slots
<1>2. \A k \in 1 .. Len(e) : e[k].id \in Nat /\ e[k].instrument \in Instruments
  BY <1>1 DEF InvestmentPlanEntry
<1>3. Rotation(e) = [k \in 1 .. Len(e) |-> e[k].instrument]
  BY <1>1 DEF Rotation
<1>4. Rotation(e) \in [1 .. Len(e) -> Instruments]
  BY <1>2, <1>3
<1>5. Rotation(e) \in Seq(Instruments) /\ Len(Rotation(e)) = Len(e)
  BY <1>1, <1>4
<1> QED
  BY <1>1, <1>2, <1>3, <1>5

LEMMA RowsOne ==
    ASSUME NEW e, Slots(e), NEW d \in Seq(Instruments)
    PROVE  /\ \A k : RowsFor(e, d, k) \subseteq 1 .. Len(e)
           /\ \A k : \A i, j \in RowsFor(e, d, k) : i = j
           /\ \A k, m \in 1 .. Len(d) : \A j \in RowsFor(e, d, k) :
                 j \in RowsFor(e, d, m) => k = m
<1> DEFINE r == Rotation(e)
<1>1. /\ DOMAIN e = 1 .. Len(e) /\ Len(e) \in Nat
      /\ \A k \in 1 .. Len(e) : r[k] = e[k].instrument
  BY SlotIs
<1> HIDE DEF r
<1>2. \A k : \A j \in RowsFor(e, d, k) :
         j \in 1 .. Len(e) /\ r[j] = d[k] /\ Nth(r, j) = Nth(d, k)
  BY <1>1 DEF RowsFor, r
<1>3. ASSUME NEW k, NEW i \in RowsFor(e, d, k), NEW j \in RowsFor(e, d, k) PROVE i = j
  <2>1. /\ i \in Nat \ {0} /\ j \in Nat \ {0} /\ r[i] = r[j]
        /\ Nth(r, i) = Nth(r, j)
    BY <1>1, <1>2
  <2> QED
    BY <2>1, NthApart
<1>4. ASSUME NEW k \in 1 .. Len(d), NEW m \in 1 .. Len(d), NEW j \in RowsFor(e, d, k),
             j \in RowsFor(e, d, m)
      PROVE  k = m
  <2>1. d[k] = d[m] /\ Nth(d, k) = Nth(d, m)
    BY <1>2, <1>4
  <2>2. k \in Nat \ {0} /\ m \in Nat \ {0}
    OBVIOUS
  <2> QED
    BY <2>1, <2>2, NthApart
<1> QED
  BY <1>2, <1>3, <1>4

\* The places of a draft that keep a row, and the row each keeps.
Kept(e, d) == {k \in 1 .. Len(d) : RowsFor(e, d, k) # {}}
RowAt(e, d, k) == CHOOSE j \in RowsFor(e, d, k) : TRUE

LEMMA RowAtIs ==
    ASSUME NEW e, Slots(e), NEW d \in Seq(Instruments), NEW k \in Kept(e, d)
    PROVE  /\ RowAt(e, d, k) \in RowsFor(e, d, k) /\ RowAt(e, d, k) \in 1 .. Len(e)
           /\ e[RowAt(e, d, k)].instrument = d[k] /\ e[RowAt(e, d, k)].id \in Nat
           /\ \A j \in RowsFor(e, d, k) : j = RowAt(e, d, k)
<1>1. RowAt(e, d, k) \in RowsFor(e, d, k)
  BY DEF Kept, RowAt
<1>2. RowAt(e, d, k) \in 1 .. Len(e) /\ \A j \in RowsFor(e, d, k) : j = RowAt(e, d, k)
  BY <1>1, RowsOne
<1>3. e[RowAt(e, d, k)].instrument = d[k]
  BY <1>1 DEF RowsFor
<1>4. e[RowAt(e, d, k)].id \in Nat
  BY <1>2, SlotIs
<1> QED
  BY <1>1, <1>2, <1>3, <1>4

LEMMA RowsDiffer ==
    ASSUME NEW e, Slots(e), NEW d \in Seq(Instruments), NEW k \in Kept(e, d), NEW m \in Kept(e, d),
           e[RowAt(e, d, k)].id = e[RowAt(e, d, m)].id
    PROVE  k = m
<1>1. RowAt(e, d, k) = RowAt(e, d, m)
  <2>1. RowAt(e, d, k) \in 1 .. Len(e) /\ RowAt(e, d, m) \in 1 .. Len(e)
    BY RowAtIs
  <2> QED
    BY <2>1 DEF Slots
<1>2. RowAt(e, d, k) \in RowsFor(e, d, k) /\ RowAt(e, d, k) \in RowsFor(e, d, m)
  BY <1>1, RowAtIs
<1>3. k \in 1 .. Len(d) /\ m \in 1 .. Len(d)
  BY DEF Kept
<1> QED
  BY <1>2, <1>3, RowsOne

LEMMA PlacesAre ==
    ASSUME NEW e, Slots(e), NEW d \in Seq(Instruments)
    PROVE  /\ DOMAIN Places(e, d) = {e[RowAt(e, d, k)].id : k \in Kept(e, d)}
           /\ \A k \in Kept(e, d) : Places(e, d)[e[RowAt(e, d, k)].id] = k
           /\ DOMAIN Places(e, d) \subseteq RowIds(e)
<1> DEFINE kept == {k \in DOMAIN d : RowsFor(e, d, k) # {}}
           at == [k \in kept |-> e[RowAt(e, d, k)].id]
           f == [id \in {at[k] : k \in kept} |-> CHOOSE k \in kept : at[k] = id]
<1>1. Places(e, d) = f
  BY DEF Places, RowAt
<1>2. kept = Kept(e, d)
  BY DEF Kept
<1> HIDE DEF kept
<1>3. \A k \in kept : at[k] = e[RowAt(e, d, k)].id
  OBVIOUS
<1> HIDE DEF at
<1>4. DOMAIN f = {e[RowAt(e, d, k)].id : k \in Kept(e, d)}
  BY <1>2, <1>3
<1>5. ASSUME NEW k \in kept PROVE f[at[k]] = k
  <2> DEFINE c == CHOOSE m \in kept : at[m] = at[k]
  <2>1. c \in kept /\ at[c] = at[k]
    OBVIOUS
  <2> HIDE DEF c
  <2>2. c = k
    BY <1>2, <1>3, <2>1, RowsDiffer
  <2>3. f[at[k]] = c
    BY DEF c
  <2> QED
    BY <2>2, <2>3
<1>6. \A k \in Kept(e, d) : f[e[RowAt(e, d, k)].id] = k
  BY <1>2, <1>3, <1>5
<1> HIDE DEF f
<1>7. DOMAIN f \subseteq RowIds(e)
  BY <1>4, RowAtIs DEF RowIds
<1> QED
  BY <1>1, <1>4, <1>6, <1>7

LEMMA IdsAreFinite ==
    ASSUME NEW e, Slots(e)
    PROVE  IsFiniteSet(RowIds(e)) /\ RowIds(e) \subseteq Nat
<1> DEFINE f == [k \in 1 .. Len(e) |-> e[k].id]
<1>1. Len(e) \in Nat /\ RowIds(e) \subseteq Nat
  BY SlotIs DEF RowIds
<1>2. IsFiniteSet(1 .. Len(e))
  BY <1>1, FS_Interval
<1>3. f \in Surjection(1 .. Len(e), RowIds(e))
  BY DEF Surjection, RowIds
<1> QED
  BY <1>1, <1>2, <1>3, FS_Surjection

-----------------------------------------------------------------------------
(***************************************************************************)
(* The rows a draft is saved as.                                           *)
(***************************************************************************)
\* The rows a draft is saved as.
SavedAs(e, d) ==
    LET kept == DOMAIN Places(e, d)
        new == {k \in DOMAIN d : RowsFor(e, d, k) = {}}
    IN  [k \in DOMAIN d |->
            [id |-> IF k \in new THEN Free(kept, Cardinality(new \cap 1 .. k))
                    ELSE e[CHOOSE j \in RowsFor(e, d, k) : TRUE].id,
             instrument |-> d[k]]]

New(e, d) == {k \in 1 .. Len(d) : k \notin Kept(e, d)}
NewId(e, d, k) == Free(DOMAIN Places(e, d), Cardinality(New(e, d) \cap 1 .. k))

LEMMA SavedIs ==
    ASSUME NEW e, Slots(e), NEW d \in Seq(Instruments)
    PROVE  /\ Len(SavedAs(e, d)) = Len(d) /\ DOMAIN SavedAs(e, d) = 1 .. Len(d)
           /\ SavedAs(e, d) = [k \in 1 .. Len(d) |-> SavedAs(e, d)[k]]
           /\ \A k \in 1 .. Len(d) :
                 SavedAs(e, d)[k] =
                    [id |-> IF k \in New(e, d) THEN NewId(e, d, k) ELSE e[RowAt(e, d, k)].id,
                     instrument |-> d[k]]
<1> DEFINE new == {k \in DOMAIN d : RowsFor(e, d, k) = {}}
<1>1. new = New(e, d) /\ DOMAIN d = 1 .. Len(d) /\ Len(d) \in Nat
  BY DEF New, Kept
<1>2. SavedAs(e, d) = [k \in DOMAIN d |->
         [id |-> IF k \in new THEN Free(DOMAIN Places(e, d), Cardinality(new \cap 1 .. k))
                 ELSE e[RowAt(e, d, k)].id,
          instrument |-> d[k]]]
  BY DEF SavedAs, RowAt
<1> HIDE DEF new
<1>3. SavedAs(e, d) = [k \in 1 .. Len(d) |->
         [id |-> IF k \in New(e, d) THEN NewId(e, d, k) ELSE e[RowAt(e, d, k)].id,
          instrument |-> d[k]]]
  BY <1>1, <1>2 DEF NewId
<1> QED
  BY <1>1, <1>3

LEMMA NewIdIs ==
    ASSUME NEW e, Slots(e), NEW d \in Seq(Instruments), NEW k \in New(e, d)
    PROVE  /\ NewId(e, d, k) \in Nat /\ NewId(e, d, k) \notin DOMAIN Places(e, d)
           /\ \A m \in New(e, d) : NewId(e, d, m) = NewId(e, d, k) => m = k
<1> DEFINE used == DOMAIN Places(e, d)
           upto(m) == New(e, d) \cap 1 .. m
<1>1. IsFiniteSet(used)
  BY PlacesAre, IdsAreFinite, FS_Subset
<1> HIDE DEF used
<1>2. \A m \in New(e, d) : m \in Nat /\ m > 0
  BY DEF New
<1>3. ASSUME NEW m \in New(e, d)
      PROVE  IsFiniteSet(upto(m)) /\ Cardinality(upto(m)) \in Nat \ {0}
  <2>1. IsFiniteSet(1 .. m)
    BY <1>2, FS_Interval
  <2>2. upto(m) \in SUBSET (1 .. m) /\ m \in upto(m)
    BY <1>2
  <2> HIDE DEF upto
  <2>3. IsFiniteSet(upto(m)) /\ upto(m) # {}
    BY <2>1, <2>2, FS_Subset
  <2> QED
    BY <2>3, FS_CardinalityType, FS_EmptySet
<1>4. ASSUME NEW m \in New(e, d)
      PROVE  /\ NewId(e, d, m) \in Nat /\ NewId(e, d, m) \notin used
             /\ Cardinality(Unused(used, NewId(e, d, m))) = Cardinality(upto(m))
  <2> DEFINE n == Cardinality(upto(m))
  <2>1. n \in Nat \ {0}
    BY <1>3
  <2>2. NewId(e, d, m) = Free(used, n)
    BY DEF NewId, used
  <2> HIDE DEF n
  <2>3. NewId(e, d, m) \in Nat /\ NewId(e, d, m) \notin used
        /\ Cardinality(Unused(used, NewId(e, d, m))) = n
    BY <1>1, <2>1, <2>2, FreeIs
  <2> QED
    BY <2>3 DEF n
<1>5. ASSUME NEW i \in New(e, d), NEW j \in New(e, d), i < j
      PROVE  Cardinality(upto(i)) # Cardinality(upto(j))
  <2>1. upto(i) \in SUBSET upto(j) /\ j \in upto(j) /\ j \notin upto(i)
    BY <1>2, <1>5
  <2>2. upto(i) # upto(j)
    BY <2>1
  <2> HIDE DEF upto
  <2> QED
    BY <1>3, <2>1, <2>2, FS_Subset
<1> HIDE DEF upto
<1>6. ASSUME NEW m \in New(e, d), NewId(e, d, m) = NewId(e, d, k) PROVE m = k
  <2>1. Cardinality(upto(m)) = Cardinality(upto(k))
    BY <1>4, <1>6
  <2>2. ~(m < k) /\ ~(k < m)
    BY <1>5, <2>1
  <2> QED
    BY <1>2, <2>2
<1> QED
  BY <1>4, <1>6 DEF used

LEMMA SavedSlots ==
    ASSUME NEW e, Slots(e), NEW d \in Seq(Instruments)
    PROVE  Slots(SavedAs(e, d)) /\ Rotation(SavedAs(e, d)) = d
<1> DEFINE E == SavedAs(e, d)
<1>1. /\ Len(E) = Len(d) /\ DOMAIN E = 1 .. Len(d) /\ E = [k \in 1 .. Len(d) |-> E[k]]
      /\ \A k \in 1 .. Len(d) :
            /\ E[k] = [id |-> E[k].id, instrument |-> d[k]]
            /\ E[k].instrument = d[k]
            /\ k \in New(e, d) => E[k].id = NewId(e, d, k)
            /\ k \notin New(e, d) => E[k].id = e[RowAt(e, d, k)].id
  <2>1. \A k \in 1 .. Len(d) :
           E[k] = [id |-> IF k \in New(e, d) THEN NewId(e, d, k) ELSE e[RowAt(e, d, k)].id,
                   instrument |-> d[k]]
    BY SavedIs
  <2>2. Len(E) = Len(d) /\ DOMAIN E = 1 .. Len(d) /\ E = [k \in 1 .. Len(d) |-> E[k]]
    BY SavedIs
  <2> HIDE DEF E
  <2> QED
    BY <2>1, <2>2
<1> HIDE DEF E
<1>2. \A k \in 1 .. Len(d) : k \in New(e, d) \/ k \in Kept(e, d)
  BY DEF New
<1>2a. \A k \in New(e, d) : k \notin Kept(e, d)
  BY DEF New
<1>3. ASSUME NEW k \in 1 .. Len(d)
      PROVE  E[k].id \in Nat
  BY <1>1, <1>2, <1>2a, NewIdIs, RowAtIs
<1>4. \A k \in 1 .. Len(d) : E[k] \in InvestmentPlanEntry
  <2>1. \A k \in 1 .. Len(d) : d[k] \in Instruments
    OBVIOUS
  <2> QED
    BY <1>1, <1>3, <2>1 DEF InvestmentPlanEntry
<1>5. E \in Seq(InvestmentPlanEntry)
  <2>1. Len(d) \in Nat
    OBVIOUS
  <2>2. E \in [1 .. Len(d) -> InvestmentPlanEntry]
    BY <1>1, <1>4
  <2> QED
    BY <2>1, <2>2
<1>6. ASSUME NEW j \in 1 .. Len(d), NEW k \in 1 .. Len(d), E[j].id = E[k].id
      PROVE  j = k
  <2>1. CASE j \in New(e, d) /\ k \in New(e, d)
    BY <1>1, <1>6, <2>1, NewIdIs
  <2>2. \A a \in New(e, d), b \in Kept(e, d) : NewId(e, d, a) # e[RowAt(e, d, b)].id
    BY NewIdIs, PlacesAre
  <2>3. CASE j \in New(e, d) /\ k \in Kept(e, d)
    BY <1>1, <1>2a, <1>6, <2>2, <2>3
  <2>4. CASE j \in Kept(e, d) /\ k \in New(e, d)
    BY <1>1, <1>2a, <1>6, <2>2, <2>4
  <2>5. CASE j \in Kept(e, d) /\ k \in Kept(e, d)
    BY <1>1, <1>2a, <1>6, <2>5, RowsDiffer
  <2> QED
    BY <1>2, <2>1, <2>3, <2>4, <2>5
<1>7. Rotation(E) = d
  <2>1. Rotation(E) = [k \in 1 .. Len(d) |-> E[k].instrument]
    BY <1>1 DEF Rotation
  <2>2. d = [k \in 1 .. Len(d) |-> d[k]]
    OBVIOUS
  <2> QED
    BY <1>1, <2>1, <2>2
<1>8. Slots(E)
  BY <1>1, <1>5, <1>6 DEF Slots
<1> QED
  BY <1>7, <1>8 DEF E

\* A saved draft keeps all its rows where they are.
LEMMA OwnPlaces ==
    ASSUME NEW e, Slots(e)
    PROVE  /\ DOMAIN Places(e, Rotation(e)) = RowIds(e)
           /\ \A k \in 1 .. Len(e) : Places(e, Rotation(e))[e[k].id] = k
<1> DEFINE d == Rotation(e)
<1>1. /\ d \in Seq(Instruments) /\ Len(d) = Len(e) /\ DOMAIN e = 1 .. Len(e)
      /\ \A k \in 1 .. Len(e) : d[k] = e[k].instrument
  BY SlotIs
<1> HIDE DEF d
<1>2. \A k \in 1 .. Len(e) : k \in RowsFor(e, d, k)
  BY <1>1 DEF RowsFor, d
<1>3. Kept(e, d) = 1 .. Len(e)
  BY <1>1, <1>2 DEF Kept
<1>4. \A k \in 1 .. Len(e) : RowAt(e, d, k) = k
  BY <1>1, <1>2, <1>3, RowAtIs
<1>5. /\ DOMAIN Places(e, d) = {e[RowAt(e, d, k)].id : k \in Kept(e, d)}
      /\ \A k \in Kept(e, d) : Places(e, d)[e[RowAt(e, d, k)].id] = k
  BY <1>1, PlacesAre
<1>6. DOMAIN Places(e, d) = RowIds(e)
  BY <1>3, <1>4, <1>5 DEF RowIds
<1>7. \A k \in 1 .. Len(e) : Places(e, d)[e[k].id] = k
  BY <1>3, <1>4, <1>5
<1> QED
  BY <1>6, <1>7 DEF d

\* What a draft keeps has the place there that it has once saved.
LEMMA PlacesStay ==
    ASSUME NEW e, Slots(e), NEW d \in Seq(Instruments), NEW E, E = SavedAs(e, d)
    PROVE  /\ DOMAIN Places(e, d) \subseteq DOMAIN Places(E, d)
           /\ \A id \in DOMAIN Places(e, d) : Places(E, d)[id] = Places(e, d)[id]
           /\ \A id \in DOMAIN Places(e, d) : Places(e, d)[id] \in 1 .. Len(d)
<1>1. Slots(E) /\ Rotation(E) = d /\ Len(E) = Len(d)
  BY SavedSlots, SavedIs
<1>2. DOMAIN Places(E, d) = RowIds(E) /\ \A k \in 1 .. Len(d) : Places(E, d)[E[k].id] = k
  BY <1>1, OwnPlaces
<1> SUFFICES ASSUME NEW id \in DOMAIN Places(e, d)
             PROVE  /\ id \in DOMAIN Places(E, d) /\ Places(E, d)[id] = Places(e, d)[id]
                    /\ Places(e, d)[id] \in 1 .. Len(d)
  OBVIOUS
<1>3. PICK k \in Kept(e, d) : id = e[RowAt(e, d, k)].id
  <2>1. DOMAIN Places(e, d) = {e[RowAt(e, d, k)].id : k \in Kept(e, d)}
    BY PlacesAre
  <2> QED
    BY <2>1
<1>4. Places(e, d)[id] = k
  BY <1>3, PlacesAre
<1>5. k \in 1 .. Len(d) /\ k \notin New(e, d)
  BY DEF Kept, New
<1>6. E[k].id = id
  <2>1. E[k] = [id |-> IF k \in New(e, d) THEN NewId(e, d, k) ELSE e[RowAt(e, d, k)].id,
                instrument |-> d[k]]
    BY <1>5, SavedIs
  <2> QED
    BY <1>3, <1>5, <2>1
<1>7. id \in RowIds(E)
  BY <1>1, <1>5, <1>6 DEF RowIds
<1> QED
  BY <1>2, <1>4, <1>5, <1>6, <1>7

-----------------------------------------------------------------------------
(***************************************************************************)
(* The plan's invariant.                                                   *)
(***************************************************************************)
\* Recorded steps, of the rows e.
StepsOK(st, e) ==
    /\ IsFiniteSet(DOMAIN st) /\ DOMAIN st \subseteq Nat
    /\ \A s \in DOMAIN st :
          /\ st[s] \in PlannedPurchase
          /\ st[s].trade => st[s].status = "done"
          /\ st[s].entry # NULL =>
                \E k \in 1 .. Len(e) :
                    e[k] = [id |-> st[s].entry, instrument |-> st[s].instrument]

\* The inductive invariant.
PlanInv == /\ plan \in InvestmentPlan \cup {NULL} /\ (plan = NULL => entries = <<>>)
           /\ Slots(entries) /\ StepsOK(steps, entries)

\* What deleting the rows outside `stay` leaves of the steps.
Released(st, stay) ==
    [s \in DOMAIN st |->
        IF st[s].entry \in stay THEN st[s] ELSE [st[s] EXCEPT !.entry = NULL]]

LEMMA StepIs ==
    ASSUME NEW st, NEW e, StepsOK(st, e), NEW s \in DOMAIN st
    PROVE  /\ st[s] \in PlannedPurchase /\ st[s].due \in Int /\ s \in Nat
           /\ st[s].entry \in Nat \cup {NULL} /\ st[s].instrument \in Instruments
BY DEF StepsOK, PlannedPurchase

LEMMA DatedSteps ==
    ASSUME NEW st, NEW e, StepsOK(st, e), NEW ids \in SUBSET DOMAIN st
    PROVE  Dated(st, ids) /\ IsFiniteSet(ids)
<1>1. IsFiniteSet(ids)
  BY FS_Subset DEF StepsOK
<1> QED
  BY <1>1, StepIs DEF Dated

LEMMA ReleasedIs ==
    ASSUME NEW st, NEW e, StepsOK(st, e), NEW stay, NULL \notin stay
    PROVE  /\ DOMAIN Released(st, stay) = DOMAIN st
           /\ \A s \in DOMAIN st :
                 /\ Released(st, stay)[s] \in PlannedPurchase
                 /\ Released(st, stay)[s].due = st[s].due
                 /\ Released(st, stay)[s].instrument = st[s].instrument
                 /\ Released(st, stay)[s].trade = st[s].trade
                 /\ Released(st, stay)[s].status = st[s].status
                 /\ Released(st, stay)[s].entry = IF st[s].entry \in stay THEN st[s].entry
                                                  ELSE NULL
<1> DEFINE r == Released(st, stay)
<1>1. DOMAIN r = DOMAIN st
  BY DEF Released
<1>2. ASSUME NEW s \in DOMAIN st
      PROVE  /\ r[s] \in PlannedPurchase /\ r[s].due = st[s].due
             /\ r[s].instrument = st[s].instrument /\ r[s].trade = st[s].trade
             /\ r[s].status = st[s].status
             /\ r[s].entry = IF st[s].entry \in stay THEN st[s].entry ELSE NULL
  <2>1. r[s] = IF st[s].entry \in stay THEN st[s] ELSE [st[s] EXCEPT !.entry = NULL]
    BY DEF Released
  <2>2. st[s] \in PlannedPurchase
    BY StepIs
  <2> HIDE DEF r
  <2>3. CASE st[s].entry \in stay
    BY <2>1, <2>2, <2>3
  <2>4. CASE st[s].entry \notin stay
    BY <2>1, <2>2, <2>4 DEF PlannedPurchase
  <2> QED
    BY <2>3, <2>4
<1> QED
  BY <1>1, <1>2

\* The steps that name a row among `stay`.
Past(st, stay) == {s \in DOMAIN st : st[s].entry \in stay}

\* Where the rotation stands is where its draft would.
LEMMA NextStays ==
    ASSUME NEW st, NEW e, Slots(e), StepsOK(st, e), NEW d \in Seq(Instruments),
           NEW E, E = SavedAs(e, d), NEW tt, tt = Released(st, DOMAIN Places(e, d))
    PROVE  NextIn(E, tt, d) = NextIn(e, st, d)
<1> DEFINE a == Places(e, d)
           b == Places(E, d)
           past == Past(st, DOMAIN a)
           past2 == Past(tt, DOMAIN b)
<1>1. /\ DOMAIN a \subseteq DOMAIN b /\ \A id \in DOMAIN a : b[id] = a[id]
  BY PlacesStay
<1>2. DOMAIN b \subseteq Nat /\ DOMAIN a \subseteq Nat
  <2>1. Slots(E)
    BY SavedSlots
  <2> QED
    BY <2>1, PlacesAre, IdsAreFinite
<1>3. NULL \notin DOMAIN a /\ NULL \notin DOMAIN b
  BY <1>2, PlansAssumption
<1>4. /\ DOMAIN tt = DOMAIN st
      /\ \A s \in DOMAIN st :
            /\ tt[s].due = st[s].due
            /\ tt[s].entry = IF st[s].entry \in DOMAIN a THEN st[s].entry ELSE NULL
  BY <1>3, ReleasedIs
<1>5. /\ NextIn(E, tt, d) = IF d = <<>> THEN 0
                            ELSE IF past2 = {} THEN Cardinality(DOMAIN tt) % Len(d)
                            ELSE b[tt[LastIn(tt, past2)].entry] % Len(d)
      /\ NextIn(e, st, d) = IF d = <<>> THEN 0
                            ELSE IF past = {} THEN Cardinality(DOMAIN st) % Len(d)
                            ELSE a[st[LastIn(st, past)].entry] % Len(d)
  BY DEF NextIn, Past
<1> HIDE DEF a, b
<1>6. past2 = past
  BY <1>1, <1>3, <1>4 DEF Past
<1>7. CASE past = {}
  BY <1>4, <1>5, <1>6, <1>7
<1>8. CASE past # {}
  <2>1. past \in SUBSET DOMAIN st
    BY DEF Past
  <2>2. Dated(st, past) /\ IsFiniteSet(past)
    BY <2>1, DatedSteps
  <2>3. \A s \in past : tt[s].due = st[s].due /\ tt[s].entry = st[s].entry
                        /\ st[s].entry \in DOMAIN a
    BY <1>4 DEF Past
  <2> HIDE DEF past, past2
  <2>4. LastIn(tt, past) = LastIn(st, past) /\ LastIn(st, past) \in past
    BY <1>8, <2>2, <2>3, LastIs, LastSame
  <2> DEFINE last == LastIn(st, past)
  <2>5. tt[last].entry = st[last].entry /\ b[st[last].entry] = a[st[last].entry]
    BY <1>1, <2>3, <2>4
  <2> HIDE DEF last
  <2>6. /\ NextIn(E, tt, d) = IF d = <<>> THEN 0 ELSE b[tt[last].entry] % Len(d)
        /\ NextIn(e, st, d) = IF d = <<>> THEN 0 ELSE a[st[last].entry] % Len(d)
    BY <1>5, <1>6, <1>8, <2>4 DEF last
  <2> QED
    BY <2>5, <2>6
<1> QED
  BY <1>7, <1>8

-----------------------------------------------------------------------------
(***************************************************************************)
(* Saving and previewing.                                                  *)
(***************************************************************************)
LEMMA DraftIs ==
    ASSUME NEW d \in Drafts PROVE d \in Seq(Instruments)
<1>1. PICK n \in 0 .. MaxSlots : d \in [1 .. n -> Instruments]
  BY DEF Drafts
<1>2. n \in Nat
  OBVIOUS
<1> QED
  BY <1>1, <1>2

LEMMA PlanStarts ==
    ASSUME PlanInit
    PROVE  PlanInv
<1>1. Slots(<<>>)
  BY DEF Slots
<1>2. DOMAIN steps = {}
  BY DEF PlanInit
<1>3. StepsOK(steps, entries)
  BY <1>2, FS_EmptySet DEF StepsOK
<1> QED
  BY <1>1, <1>3 DEF PlanInit, PlanInv

\* set_entries, of the rows.
LEMMA SetsEntries ==
    ASSUME PlanInv, NEW d \in Drafts, set_entries(d)
    PROVE  /\ entries' = SavedAs(entries, d)
           /\ steps' = Released(steps, DOMAIN Places(entries, d))
<1>1. positions(d) = Places(entries, d)
  BY RowsAre
<1>2. \A k : Row(d, k) = RowsFor(entries, d, k)
  BY DEF Row, rotation, RowsFor, Rotation
<1>3. steps' = Released(steps, DOMAIN Places(entries, d))
  BY <1>1 DEF set_entries, Unslotted, Released
<1>4. entries' = SavedAs(entries, d)
  <2> DEFINE new == {k \in DOMAIN d : Row(d, k) = {}}
             new2 == {k \in DOMAIN d : RowsFor(entries, d, k) = {}}
             kept == DOMAIN positions(d)
             kept2 == DOMAIN Places(entries, d)
  <2>1. new = new2 /\ kept = kept2
    BY <1>1, <1>2
  <2>2. entries' = [k \in DOMAIN d |->
           [id |-> IF k \in new THEN Free(kept, Cardinality(new \cap 1 .. k))
                   ELSE entries[CHOOSE j \in Row(d, k) : TRUE].id,
            instrument |-> d[k]]]
    BY DEF set_entries
  <2>3. SavedAs(entries, d) = [k \in DOMAIN d |->
           [id |-> IF k \in new2 THEN Free(kept2, Cardinality(new2 \cap 1 .. k))
                   ELSE entries[CHOOSE j \in RowsFor(entries, d, k) : TRUE].id,
            instrument |-> d[k]]]
    BY DEF SavedAs
  <2> HIDE DEF new, new2, kept, kept2
  <2> DEFINE g(k) == IF k \in new THEN Free(kept, Cardinality(new \cap 1 .. k))
                     ELSE entries[CHOOSE j \in Row(d, k) : TRUE].id
             h(k) == IF k \in new2 THEN Free(kept2, Cardinality(new2 \cap 1 .. k))
                     ELSE entries[CHOOSE j \in RowsFor(entries, d, k) : TRUE].id
  <2>4. \A k : g(k) = h(k)
    <3> SUFFICES ASSUME NEW k PROVE g(k) = h(k)
      OBVIOUS
    <3>1. Cardinality(new \cap 1 .. k) = Cardinality(new2 \cap 1 .. k)
      BY <2>1
    <3>2. Row(d, k) = RowsFor(entries, d, k)
      BY <1>2
    <3> QED
      BY <2>1, <3>1, <3>2
  <2>5. /\ entries' = [k \in DOMAIN d |-> [id |-> g(k), instrument |-> d[k]]]
        /\ SavedAs(entries, d) = [k \in DOMAIN d |-> [id |-> h(k), instrument |-> d[k]]]
    BY <2>2, <2>3
  <2> HIDE DEF g, h
  <2> QED
    BY <2>4, <2>5
<1> QED
  BY <1>3, <1>4

LEMMA SavedSteps ==
    ASSUME NEW e, Slots(e), NEW st, StepsOK(st, e), NEW d \in Seq(Instruments),
           NEW E, E = SavedAs(e, d), NEW tt, tt = Released(st, DOMAIN Places(e, d))
    PROVE  StepsOK(tt, E)
<1> DEFINE a == Places(e, d)
<1>1. NULL \notin DOMAIN a
  BY PlacesAre, IdsAreFinite, PlansAssumption
<1>2. /\ DOMAIN tt = DOMAIN st
      /\ \A s \in DOMAIN st :
            /\ tt[s] \in PlannedPurchase
            /\ tt[s].instrument = st[s].instrument /\ tt[s].trade = st[s].trade
            /\ tt[s].status = st[s].status
            /\ tt[s].entry = IF st[s].entry \in DOMAIN a THEN st[s].entry ELSE NULL
  BY <1>1, ReleasedIs
<1>3. ASSUME NEW s \in DOMAIN st, tt[s].entry # NULL
      PROVE  \E k \in 1 .. Len(E) :
                E[k] = [id |-> tt[s].entry, instrument |-> tt[s].instrument]
  <2>1. tt[s].entry = st[s].entry /\ st[s].entry \in DOMAIN a /\ st[s].entry # NULL
    BY <1>2, <1>3
  <2>2. PICK k \in Kept(e, d) : st[s].entry = e[RowAt(e, d, k)].id
    <3>1. DOMAIN a = {e[RowAt(e, d, k)].id : k \in Kept(e, d)}
      BY PlacesAre
    <3> QED
      BY <2>1, <3>1
  <2>3. PICK j \in 1 .. Len(e) : e[j] = [id |-> st[s].entry, instrument |-> st[s].instrument]
    BY <2>1 DEF StepsOK
  <2>4. RowAt(e, d, k) = j
    <3>1. e[j].id = e[RowAt(e, d, k)].id /\ RowAt(e, d, k) \in 1 .. Len(e)
      BY <2>2, <2>3, RowAtIs
    <3> QED
      BY <3>1 DEF Slots
  <2>5. d[k] = st[s].instrument
    <3>1. e[RowAt(e, d, k)].instrument = d[k]
      BY RowAtIs
    <3> QED
      BY <2>3, <2>4, <3>1
  <2>6. k \in 1 .. Len(d) /\ k \notin New(e, d)
    BY DEF Kept, New
  <2>7. /\ E[k] = [id |-> IF k \in New(e, d) THEN NewId(e, d, k) ELSE e[RowAt(e, d, k)].id,
                   instrument |-> d[k]]
        /\ Len(E) = Len(d)
    BY <2>6, SavedIs
  <2> QED
    BY <1>2, <2>1, <2>2, <2>5, <2>6, <2>7
<1> HIDE DEF a
<1>4. \A s \in DOMAIN tt : tt[s].trade => tt[s].status = "done"
  BY <1>2 DEF StepsOK
<1> QED
  BY <1>2, <1>3, <1>4 DEF StepsOK

LEMMA SaveKeepsPlan ==
    ASSUME PlanInv, NEW d \in Drafts, NEW interval \in Intervals, NEW start \in Starts,
           plan_save(d, interval, start)
    PROVE  PlanInv'
<1>1. d \in Seq(Instruments)
  BY DraftIs
<1>2. /\ entries' = SavedAs(entries, d) /\ steps' = Released(steps, DOMAIN Places(entries, d))
      /\ plan' = [interval |-> interval, start |-> start]
  BY SetsEntries DEF plan_save
<1>3. Slots(entries') /\ StepsOK(steps', entries')
  BY <1>1, <1>2, SavedSlots, SavedSteps DEF PlanInv
<1>4. plan' \in InvestmentPlan /\ plan' # NULL
  BY <1>2, PlansAssumption DEF InvestmentPlan
<1> QED
  BY <1>3, <1>4 DEF PlanInv

\* What a preview drew is what the saved plan's schedule is.
LEMMA SaveIsHonest ==
    ASSUME PlanInv, NEW d \in Drafts, NEW interval \in Intervals, NEW start \in Starts,
           plan_save(d, interval, start)
    PROVE  schedule(MaxSlots + 1)' = drawn'
<1>1. d \in Seq(Instruments) /\ Slots(entries) /\ StepsOK(steps, entries)
  BY DraftIs DEF PlanInv
<1>2. /\ entries' = SavedAs(entries, d) /\ steps' = Released(steps, DOMAIN Places(entries, d))
      /\ plan' = [interval |-> interval, start |-> start]
      /\ drawn' = plan_preview(d, interval, start)
  BY SetsEntries DEF plan_save
<1>3. rotation' = d
  <2>1. rotation' = Rotation(entries')
    BY DEF rotation, Rotation
  <2> QED
    BY <1>1, <1>2, <2>1, SavedSlots
<1>4. NextIn(entries', steps', d) = NextIn(entries, steps, d)
  BY <1>1, <1>2, NextStays
<1>5. last_due(interval, start)' = last_due(interval, start)
  <2>1. NULL \notin DOMAIN Places(entries, d)
    <3>1. DOMAIN Places(entries, d) \subseteq Nat
      BY <1>1, PlacesAre, IdsAreFinite
    <3> QED
      BY <3>1, PlansAssumption
  <2>2. /\ DOMAIN steps' = DOMAIN steps
        /\ \A s \in DOMAIN steps : steps'[s].due = steps[s].due
    BY <1>1, <1>2, <2>1, ReleasedIs
  <2>3. DOMAIN steps # {} =>
           /\ LastIn(steps', DOMAIN steps) = LastIn(steps, DOMAIN steps)
           /\ LastIn(steps, DOMAIN steps) \in DOMAIN steps
    <3>1. Dated(steps, DOMAIN steps) /\ IsFiniteSet(DOMAIN steps)
      BY <1>1, DatedSteps
    <3> QED
      BY <2>2, <3>1, LastIs, LastSame
  <2>4. /\ last_due(interval, start) =
              IF DOMAIN steps # {} THEN steps[LastIn(steps, DOMAIN steps)].due
              ELSE (IF start # NULL THEN start ELSE Today) - interval
        /\ last_due(interval, start)' =
              IF DOMAIN steps' # {} THEN steps'[LastIn(steps', DOMAIN steps')].due
              ELSE (IF start # NULL THEN start ELSE Today) - interval
    BY DEF last_due, LastOf, LastIn
  <2> QED
    BY <2>2, <2>3, <2>4
<1>6. _next_position(d)' = NextIn(entries', steps', d) /\ _next_position(d) = NextIn(entries, steps, d)
  BY RowsAre
<1>7. plan'.interval = interval /\ plan'.start = start /\ plan' # NULL
  BY <1>2, PlansAssumption DEF InvestmentPlan
<1>8. schedule(MaxSlots + 1)' =
         project(d, interval, NextIn(entries', steps', d), last_due(interval, start)',
                   MaxSlots + 1)
  <2> DEFINE n == MaxSlots + 1
             next == _next_position(rotation)'
             last == last_due(plan.interval, plan.start)'
  <2>1. schedule(n)' =
           IF plan' = NULL THEN <<>>
           ELSE [i \in 1 .. (IF rotation' = <<>> THEN 0 ELSE n) |->
                   [due |-> last + plan'.interval * i,
                    instrument |-> rotation'[((next + i - 1) % Len(rotation')) + 1]]]
    BY DEF schedule, project
  <2>2. next = NextIn(entries', steps', rotation')
    BY RowsAre DEF _next_position, NextIn, positions, Row, rotation
  <2>3. last = last_due(interval, start)'
    BY <1>7 DEF last_due
  <2> HIDE DEF n, next, last
  <2> QED
    BY <1>3, <1>7, <2>1, <2>2, <2>3 DEF project, n
<1>9. drawn' = project(d, interval, NextIn(entries, steps, d), last_due(interval, start),
                         MaxSlots + 1)
  BY <1>2, <1>6 DEF plan_preview, preview
<1> QED
  BY <1>4, <1>5, <1>8, <1>9

-----------------------------------------------------------------------------
(***************************************************************************)
(* Recording, releasing and removing.                                      *)
(***************************************************************************)
LEMMA NextIsPlace ==
    ASSUME NEW e, Slots(e), NEW st, StepsOK(st, e), NEW d \in Seq(Instruments), d # <<>>
    PROVE  NextIn(e, st, d) \in 0 .. Len(d) - 1
<1> DEFINE a == Places(e, d)
           past == Past(st, DOMAIN a)
           last == LastIn(st, past)
<1>1. Len(d) \in Nat \ {0}
  OBVIOUS
<1>2. \A n \in Nat : n % Len(d) \in 0 .. Len(d) - 1
  BY <1>1
<1>3. NextIn(e, st, d) = IF past = {} THEN Cardinality(DOMAIN st) % Len(d)
                         ELSE a[st[last].entry] % Len(d)
  BY DEF NextIn, Past
<1>4. CASE past = {}
  <2>1. Cardinality(DOMAIN st) \in Nat
    BY FS_CardinalityType DEF StepsOK
  <2> QED
    BY <1>2, <1>3, <1>4, <2>1
<1>5. CASE past # {}
  <2>1. past \in SUBSET DOMAIN st
    BY DEF Past
  <2>2. last \in past
    BY <1>5, <2>1, DatedSteps, LastIs
  <2>3. st[last].entry \in DOMAIN a
    BY <2>2 DEF Past
  <2>4. \A id \in DOMAIN a : a[id] \in 1 .. Len(d)
    BY PlacesStay
  <2> HIDE DEF a, past, last
  <2>5. a[st[last].entry] \in Nat
    BY <2>3, <2>4
  <2> QED
    BY <1>2, <1>3, <1>5, <2>5
<1> QED
  BY <1>4, <1>5

LEMMA RecordKeepsPlan ==
    ASSUME PlanInv, NEW ticker, NEW due, NEW status \in {"done", "skipped"},
           NEW traded \in BOOLEAN, traded => status = "done",
           Record(ticker, due, status, traded)
    PROVE  PlanInv'
<1> DEFINE nxt == schedule(1)[1]
           d == Rotation(entries)
           at == NextIn(entries, steps, d)
           due0 == last_due(plan.interval, plan.start)
           new == Free(DOMAIN steps, 1)
           step == [due |-> nxt.due, instrument |-> nxt.instrument,
                    entry |-> NextSlot.id, status |-> status, trade |-> traded]
<1>1. /\ plan # NULL /\ entries # <<>> /\ plan' = plan /\ entries' = entries
      /\ steps' = [s \in DOMAIN steps \cup {new} |-> IF s = new THEN step ELSE steps[s]]
  BY DEF Record
<1>2. /\ Slots(entries) /\ StepsOK(steps, entries) /\ plan \in InvestmentPlan
      /\ plan.interval \in Nat \ {0} /\ plan.start \in Int \cup {NULL}
  BY <1>1, PlansAssumption DEF PlanInv, InvestmentPlan
<1>3. /\ d \in Seq(Instruments) /\ Len(d) = Len(entries) /\ d # <<>> /\ Len(d) \in Nat \ {0}
      /\ \A k \in 1 .. Len(d) : d[k] = entries[k].instrument
  <2>1. /\ d \in Seq(Instruments) /\ Len(d) = Len(entries) /\ Len(entries) \in Nat
        /\ \A k \in 1 .. Len(entries) : d[k] = entries[k].instrument
    BY <1>2, SlotIs
  <2>2. Len(entries) # 0
    BY <1>1, <1>2 DEF Slots
  <2> HIDE DEF d
  <2> QED
    BY <2>1, <2>2
<1>4. rotation = d /\ _next_position(rotation) = at
  BY RowsAre DEF rotation, Rotation
<1>5. at \in 0 .. Len(d) - 1
  BY <1>2, <1>3, NextIsPlace
<1>6. nxt = [due |-> due0 + plan.interval * 1,
             instrument |-> d[((at + 1 - 1) % Len(d)) + 1]]
  <2>1. schedule(1) = project(d, plan.interval, at, due0, 1)
    BY <1>1, <1>4 DEF schedule
  <2> HIDE DEF d, at, due0
  <2> QED
    BY <1>3, <2>1 DEF project
<1>7. due0 \in Int
  <2>1. due0 = IF DOMAIN steps # {} THEN steps[LastIn(steps, DOMAIN steps)].due
               ELSE (IF plan.start # NULL THEN plan.start ELSE Today) - plan.interval
    BY DEF last_due, LastOf, LastIn
  <2>2. DOMAIN steps # {} => steps[LastIn(steps, DOMAIN steps)].due \in Int
    BY <1>2, DatedSteps, LastIs, StepIs
  <2> QED
    BY <1>2, <2>1, <2>2, PlansAssumption
<1>8. NextSlot = entries[at + 1]
  BY <1>4 DEF NextSlot
<1> HIDE DEF d, at, due0
<1>9. nxt.due \in Int /\ nxt.instrument = d[at + 1]
  <2>1. (at + 1 - 1) % Len(d) = at
    <3>1. at \in Int /\ Len(d) \in Int /\ 0 <= at /\ at < Len(d)
      BY <1>3, <1>5
    <3>2. \A a, n \in Int : 0 <= a /\ a < n => (a + 1 - 1) % n = a
      OBVIOUS
    <3> QED
      BY <3>1, <3>2
  <2>2. nxt.due = due0 + plan.interval * 1 /\ nxt.instrument = d[((at + 1 - 1) % Len(d)) + 1]
    BY <1>6
  <2>3. due0 + plan.interval * 1 \in Int
    BY <1>2, <1>7
  <2> QED
    BY <2>1, <2>2, <2>3
<1>10. /\ at + 1 \in 1 .. Len(entries) /\ d[at + 1] = entries[at + 1].instrument
       /\ entries[at + 1] \in InvestmentPlanEntry
  <2>1. at + 1 \in 1 .. Len(entries)
    BY <1>3, <1>5
  <2> QED
    BY <1>2, <1>3, <2>1 DEF Slots
<1> HIDE DEF nxt
<1>11. /\ step \in PlannedPurchase
       /\ step.trade => step.status = "done"
       /\ entries[at + 1] = [id |-> step.entry, instrument |-> step.instrument]
  BY <1>8, <1>9, <1>10 DEF PlannedPurchase, InvestmentPlanEntry
<1> HIDE DEF step
<1>12. IsFiniteSet(DOMAIN steps) /\ DOMAIN steps \subseteq Nat
  BY <1>2 DEF StepsOK
<1>13. new \in Nat /\ IsFiniteSet(DOMAIN steps \cup {new})
  BY <1>12, FreeIs, FS_AddElement
<1> HIDE DEF new
<1>14. StepsOK(steps', entries)
  <2>1. DOMAIN steps' = DOMAIN steps \cup {new}
    BY <1>1
  <2>2. ASSUME NEW s \in DOMAIN steps'
        PROVE  /\ steps'[s] \in PlannedPurchase
               /\ steps'[s].trade => steps'[s].status = "done"
               /\ steps'[s].entry # NULL =>
                     \E k \in 1 .. Len(entries) :
                        entries[k] = [id |-> steps'[s].entry,
                                      instrument |-> steps'[s].instrument]
    <3>1. CASE s = new
      <4>1. steps'[s] = step
        BY <1>1, <2>1, <3>1
      <4> QED
        BY <1>10, <1>11, <4>1
    <3>2. CASE s # new
      <4>1. s \in DOMAIN steps /\ steps'[s] = steps[s]
        BY <1>1, <2>1, <3>2
      <4> QED
        BY <1>2, <4>1 DEF StepsOK
    <3> QED
      BY <3>1, <3>2
  <2> QED
    BY <1>12, <1>13, <2>1, <2>2 DEF StepsOK
<1> QED
  BY <1>1, <1>14 DEF PlanInv

LEMMA ReleaseKeepsPlan ==
    ASSUME PlanInv, NEW s \in DOMAIN steps, trade_delete(s) \/ trade_move(s)
    PROVE  PlanInv'
<1>1. StepsOK(steps, entries) /\ steps[s] \in PlannedPurchase
  BY StepIs DEF PlanInv
<1>2. /\ plan' = plan /\ entries' = entries /\ DOMAIN steps' = DOMAIN steps
      /\ \A r \in DOMAIN steps \ {s} : steps'[r] = steps[r]
  BY DEF trade_delete, trade_move
<1>3. /\ steps'[s] \in PlannedPurchase /\ ~steps'[s].trade
      /\ steps'[s].entry = steps[s].entry /\ steps'[s].instrument = steps[s].instrument
  <2>1. \/ steps' = [steps EXCEPT ![s].trade = FALSE]
        \/ steps' = [steps EXCEPT ![s].trade = FALSE, ![s].status = "planned"]
    BY DEF trade_delete, trade_move
  <2>2. \/ steps'[s] = [steps[s] EXCEPT !.trade = FALSE]
        \/ steps'[s] = [steps[s] EXCEPT !.trade = FALSE, !.status = "planned"]
    BY <2>1
  <2> QED
    BY <1>1, <2>2 DEF PlannedPurchase
<1>4. StepsOK(steps', entries)
  BY <1>1, <1>2, <1>3 DEF StepsOK
<1> QED
  BY <1>2, <1>4 DEF PlanInv

LEMMA DeleteKeepsPlan ==
    ASSUME PlanInv, plan_delete
    PROVE  PlanInv'
<1>1. plan' = NULL /\ entries' = <<>> /\ steps' = Released(steps, {})
  BY DEF plan_delete, Unslotted, Released
<1>2. StepsOK(steps, entries)
  BY DEF PlanInv
<1>3. /\ DOMAIN steps' = DOMAIN steps
      /\ \A s \in DOMAIN steps :
            /\ steps'[s] \in PlannedPurchase /\ steps'[s].entry = NULL
            /\ steps'[s].trade = steps[s].trade /\ steps'[s].status = steps[s].status
  BY <1>1, <1>2, ReleasedIs
<1>4. StepsOK(steps', <<>>)
  BY <1>2, <1>3 DEF StepsOK
<1>5. Slots(<<>>)
  BY DEF Slots
<1> QED
  BY <1>1, <1>4, <1>5 DEF PlanInv

\* The slots left when an instrument goes: the free numbers of its own.
Gone(e, i) == {k \in 1 .. Len(e) : e[k].instrument = i}
Left(e, i) == [n \in 1 .. Len(e) - Cardinality(Gone(e, i)) |-> e[Free(Gone(e, i), n)]]

LEMMA GoneIs ==
    ASSUME NEW e, Slots(e), NEW i
    PROVE  /\ Len(e) \in Nat /\ Gone(e, i) \subseteq 1 .. Len(e) /\ IsFiniteSet(Gone(e, i))
           /\ Cardinality(Gone(e, i)) \in Nat
           /\ Cardinality(Unused(Gone(e, i), Len(e))) = Len(e) - Cardinality(Gone(e, i))
<1> DEFINE g == Gone(e, i)
           u == Unused(g, Len(e))
           N == Len(e)
<1>1. N \in Nat /\ g \in SUBSET (1 .. N)
  BY SlotIs DEF Gone
<1>2. IsFiniteSet(1 .. N) /\ Cardinality(1 .. N) = N
  <2>1. \A a, b \in Int : /\ IsFiniteSet(a .. b)
                          /\ Cardinality(a .. b) = IF a > b THEN 0 ELSE b - a + 1
    BY FS_Interval, Zenon
  <2>2. 1 \in Int /\ N \in Int
    BY <1>1
  <2> HIDE DEF N
  <2> DEFINE c == Cardinality(1 .. N)
  <2>3. IsFiniteSet(1 .. N) /\ c = IF 1 > N THEN 0 ELSE N - 1 + 1
    BY <2>1, <2>2, Zenon
  <2> HIDE DEF c
  <2>4. c = N
    BY <1>1, <2>3
  <2> QED
    BY <2>3, <2>4 DEF c
<1>3. u \in SUBSET (1 .. N) /\ 1 .. N = g \cup u /\ g \cap u = {}
  BY <1>1 DEF Unused
<1> HIDE DEF g, u, N
<1>4. IsFiniteSet(g) /\ IsFiniteSet(u) /\ Cardinality(g) \in Nat /\ Cardinality(u) \in Nat
  BY <1>1, <1>2, <1>3, FS_Subset, FS_CardinalityType
<1>5. Cardinality(1 .. N) = Cardinality(g) + Cardinality(u) - Cardinality(g \cap u)
  BY <1>3, <1>4, FS_Union
<1>6. Cardinality(g \cap u) = 0
  BY <1>3, FS_EmptySet
<1>7. Cardinality(u) = N - Cardinality(g)
  BY <1>1, <1>2, <1>4, <1>5, <1>6
<1> QED
  BY <1>1, <1>4, <1>7 DEF g, u, N

\* A number is known by how many are free up to it.
LEMMA UnusedApart ==
    ASSUME NEW used, NEW a \in Nat \ {0}, NEW b \in Nat \ {0}, a \notin used, b \notin used,
           Cardinality(Unused(used, a)) = Cardinality(Unused(used, b))
    PROVE  a = b
<1>1. ASSUME NEW j \in Nat \ {0}, NEW k \in Nat \ {0}, k \notin used, j < k
      PROVE  Cardinality(Unused(used, j)) # Cardinality(Unused(used, k))
  <2>1. /\ Unused(used, j) \in SUBSET Unused(used, k)
        /\ k \in Unused(used, k) /\ k \notin Unused(used, j)
    BY <1>1 DEF Unused
  <2>2. Unused(used, j) # Unused(used, k)
    BY <2>1
  <2> QED
    BY <2>1, <2>2, UnusedGrows, FS_Subset
<1>2. ~(a < b) /\ ~(b < a)
  BY <1>1
<1> QED
  BY <1>2

LEMMA LeftIs ==
    ASSUME NEW e, Slots(e), NEW i
    PROVE  /\ Slots(Left(e, i))
           /\ \A n \in 1 .. Len(Left(e, i)) :
                 \E k \in 1 .. Len(e) : Left(e, i)[n] = e[k] /\ e[k].instrument # i
           /\ \A k \in 1 .. Len(e) : e[k].instrument # i =>
                 \E n \in 1 .. Len(Left(e, i)) : Left(e, i)[n] = e[k]
<1> DEFINE g == Gone(e, i)
           M == Len(e) - Cardinality(g)
           at(n) == Free(g, n)
           E == Left(e, i)
<1>1. /\ Len(e) \in Nat /\ g \subseteq 1 .. Len(e) /\ IsFiniteSet(g) /\ Cardinality(g) \in Nat
      /\ Cardinality(Unused(g, Len(e))) = M
  BY GoneIs
<1>2. M \in Nat
  <2>1. Cardinality(Unused(g, Len(e))) \in Nat
    BY <1>1, UnusedGrows
  <2> QED
    BY <1>1, <2>1
<1>3. ASSUME NEW n \in 1 .. M
      PROVE  /\ at(n) \in 1 .. Len(e) /\ at(n) \notin g
             /\ Cardinality(Unused(g, at(n))) = n
  <2>1. n \in Nat \ {0}
    BY <1>2
  <2>2. /\ at(n) \in 1 .. Cardinality(g) + n /\ at(n) \notin g
        /\ Cardinality(Unused(g, at(n))) = n
    BY <1>1, <2>1, FreeIs
  <2> HIDE DEF at, g
  <2> QED
    BY <1>1, <2>1, <2>2
<1>4. E = [n \in 1 .. M |-> e[at(n)]]
  BY DEF Left
<1> HIDE DEF at, E, M
<1>5. ASSUME NEW n \in 1 .. M
      PROVE  E[n] = e[at(n)] /\ e[at(n)] \in InvestmentPlanEntry /\ e[at(n)].instrument # i
  <2>1. at(n) \in 1 .. Len(e) /\ at(n) \notin g
    BY <1>3
  <2>2. E[n] = e[at(n)]
    BY <1>4
  <2>3. e[at(n)] \in InvestmentPlanEntry
    BY <2>1 DEF Slots
  <2>4. e[at(n)].instrument # i
    BY <2>1 DEF Gone
  <2> QED
    BY <2>2, <2>3, <2>4
<1>6. E \in Seq(InvestmentPlanEntry) /\ Len(E) = M
  <2>1. E \in [1 .. M -> InvestmentPlanEntry]
    BY <1>4, <1>5
  <2> QED
    BY <1>2, <2>1
<1>7. ASSUME NEW m \in 1 .. M, NEW n \in 1 .. M, E[m].id = E[n].id PROVE m = n
  <2>1. at(m) = at(n)
    BY <1>3, <1>5, <1>7 DEF Slots
  <2> QED
    BY <1>3, <2>1
<1>8. ASSUME NEW k \in 1 .. Len(e), e[k].instrument # i
      PROVE  \E n \in 1 .. M : E[n] = e[k]
  <2> DEFINE n == Cardinality(Unused(g, k))
  <2>1. k \in Nat \ {0} /\ k \notin g
    BY <1>1, <1>8 DEF Gone
  <2>2. Unused(g, k) \in SUBSET Unused(g, Len(e)) /\ k \in Unused(g, k)
    BY <1>1, <2>1 DEF Unused
  <2>3. n \in Nat /\ n # 0 /\ n <= M
    <3>1. IsFiniteSet(Unused(g, k)) /\ IsFiniteSet(Unused(g, Len(e)))
      BY <1>1, <2>1, UnusedGrows
    <3> QED
      BY <1>1, <2>2, <3>1, FS_Subset, FS_CardinalityType, FS_EmptySet
  <2>4. n \in 1 .. M
    BY <1>2, <2>3
  <2>5. at(n) \in Nat \ {0} /\ at(n) \notin g /\ Cardinality(Unused(g, at(n))) = n
    BY <1>1, <1>3, <2>4
  <2>6. at(n) = k
    BY <2>1, <2>5, UnusedApart
  <2> QED
    BY <1>5, <2>4, <2>6
<1> QED
  BY <1>3, <1>5, <1>6, <1>7, <1>8 DEF Slots, E

LEMMA RemoveKeepsPlan ==
    ASSUME PlanInv, NEW i, instrument_remove(i)
    PROVE  /\ PlanInv' /\ entries' = Left(entries, i)
           /\ steps' = Released(steps, RowIds(Left(entries, i)))
<1> DEFINE E == Left(entries, i)
<1>1. Slots(entries) /\ StepsOK(steps, entries)
  BY DEF PlanInv
<1>2. entries' = E
  <2> DEFINE gone == {k \in DOMAIN entries : entries[k].instrument = i}
  <2>1. gone = Gone(entries, i)
    BY <1>1, SlotIs DEF Gone
  <2>2. entries' = [n \in 1 .. Len(entries) - Cardinality(gone) |-> entries[Free(gone, n)]]
    BY DEF instrument_remove, remove_instrument
  <2> HIDE DEF gone
  <2> QED
    BY <2>1, <2>2 DEF Left
<1>3. Slots(E) /\ DOMAIN E = 1 .. Len(E)
  BY <1>1, LeftIs, SlotIs
<1>4. plan' = plan /\ steps' = Released(steps, RowIds(E))
  <2>1. Ids(entries') = RowIds(E)
    BY <1>2, <1>3 DEF Ids, RowIds
  <2>2. plan' = plan /\ steps' = Unslotted(Ids(entries'))
    BY DEF instrument_remove, remove_instrument
  <2> QED
    BY <2>1, <2>2 DEF Unslotted, Released
<1> HIDE DEF E
<1>5. NULL \notin RowIds(E)
  BY <1>3, IdsAreFinite, PlansAssumption
<1>6. /\ DOMAIN steps' = DOMAIN steps
      /\ \A s \in DOMAIN steps :
            /\ steps'[s] \in PlannedPurchase
            /\ steps'[s].instrument = steps[s].instrument
            /\ steps'[s].trade = steps[s].trade /\ steps'[s].status = steps[s].status
            /\ steps'[s].entry = IF steps[s].entry \in RowIds(E) THEN steps[s].entry ELSE NULL
  BY <1>1, <1>4, <1>5, ReleasedIs
<1>7. ASSUME NEW s \in DOMAIN steps, steps'[s].entry # NULL
      PROVE  \E n \in 1 .. Len(E) :
                E[n] = [id |-> steps'[s].entry, instrument |-> steps'[s].instrument]
  <2>1. steps'[s].entry = steps[s].entry /\ steps[s].entry \in RowIds(E) /\ steps[s].entry # NULL
    BY <1>6, <1>7
  <2>2. PICK n \in 1 .. Len(E) : E[n].id = steps[s].entry
    BY <2>1 DEF RowIds
  <2>3. PICK k \in 1 .. Len(entries) : E[n] = entries[k]
    BY <1>1, LeftIs DEF E
  <2>4. PICK j \in 1 .. Len(entries) :
           entries[j] = [id |-> steps[s].entry, instrument |-> steps[s].instrument]
    BY <1>1, <2>1 DEF StepsOK
  <2>5. j = k
    BY <1>1, <2>2, <2>3, <2>4 DEF Slots
  <2> QED
    BY <1>6, <2>1, <2>3, <2>4, <2>5
<1>8. StepsOK(steps', E)
  BY <1>1, <1>6, <1>7 DEF StepsOK
<1>9. plan = NULL => E = <<>>
  <2> SUFFICES ASSUME plan = NULL PROVE E = <<>>
    OBVIOUS
  <2>1. entries = <<>>
    BY DEF PlanInv
  <2>2. ~\E k \in 1 .. Len(entries) : TRUE
    BY <2>1
  <2>3. Len(E) = 0
    BY <1>1, <1>3, <2>2, LeftIs DEF E, Slots
  <2> QED
    BY <1>3, <2>3 DEF Slots
<1> QED
  BY <1>2, <1>3, <1>4, <1>8, <1>9 DEF PlanInv, E

-----------------------------------------------------------------------------
(***************************************************************************)
(* What follows.                                                           *)
(***************************************************************************)
\* Every step keeps the invariant.
LEMMA PlanKeeps ==
    ASSUME PlanInv, [PlanNext]_PlanVars
    PROVE  PlanInv'
<1>1. CASE UNCHANGED PlanVars
  <2>1. plan' = plan /\ entries' = entries /\ steps' = steps
    BY <1>1 DEF PlanVars
  <2> QED
    BY <2>1 DEF PlanInv
<1>2. ASSUME NEW d \in Drafts, NEW interval \in Intervals, NEW start \in Starts,
             plan_save(d, interval, start)
      PROVE  PlanInv'
  BY <1>2, SaveKeepsPlan
<1>3. ASSUME NEW ticker, NEW due, plan_complete(ticker, due) \/ plan_skip(ticker, due)
      PROVE  PlanInv'
  BY <1>3, RecordKeepsPlan DEF plan_complete, plan_skip
<1>4. CASE Other
  BY <1>3, <1>4, DeleteKeepsPlan, RemoveKeepsPlan, ReleaseKeepsPlan DEF Other
<1> QED
  BY <1>1, <1>2, <1>4 DEF PlanNext

\* In every plan's history the slots are distinct rows of named instruments, and every
\* step that names a slot names one of its own instrument's.
THEOREM PlanTypeCorrect ==
    PlanSpec => []PlanTypeOK
<1>1. PlanInit => PlanInv
  BY PlanStarts
<1>2. PlanInv /\ [PlanNext]_PlanVars => PlanInv'
  BY PlanKeeps
<1>3. PlanInv => PlanTypeOK
  <2> SUFFICES ASSUME PlanInv PROVE PlanTypeOK
    OBVIOUS
  <2>1. DOMAIN entries = 1 .. Len(entries)
    BY SlotIs DEF PlanInv
  <2> QED
    BY <2>1 DEF PlanInv, Slots, StepsOK, PlanTypeOK
<1> QED
  BY <1>1, <1>2, <1>3, PTL DEF PlanSpec

\* The dates and instruments a preview draws of a draft are those the plan has once the
\* draft is saved: renumbering and releasing (set_entries) keep the rotation where it was.
THEOREM PreviewIsHonest ==
    PlanSpec => []PreviewHonest
<1> DEFINE Inv == PlanInv /\ PreviewHonest
<1>1. PlanInit => Inv
  BY PlanStarts DEF PlanInit, PreviewHonest
<1>2. Inv /\ [PlanNext]_PlanVars => Inv'
  <2> SUFFICES ASSUME Inv, [PlanNext]_PlanVars PROVE PreviewHonest'
    BY PlanKeeps
  <2>1. CASE UNCHANGED PlanVars
    <3>1. schedule(MaxSlots + 1)' = schedule(MaxSlots + 1) /\ drawn' = drawn
      BY <2>1 DEF PlanVars, schedule, rotation, _next_position, positions, Row,
                  last_due, LastOf, project
    <3> QED
      BY <3>1 DEF PreviewHonest
  <2>2. ASSUME NEW d \in Drafts, NEW interval \in Intervals, NEW start \in Starts,
               plan_save(d, interval, start)
        PROVE  PreviewHonest'
    BY <2>2, SaveIsHonest DEF PreviewHonest
  <2>3. CASE Other /\ drawn' = <<>>
    BY <2>3 DEF PreviewHonest
  <2> QED
    BY <2>1, <2>2, <2>3 DEF PlanNext
<1>3. Inv => PreviewHonest
  OBVIOUS
<1> QED
  BY <1>1, <1>2, <1>3, PTL DEF PlanSpec

\* No instrument twice.
Single(d) == \A j, k \in DOMAIN d : d[j] = d[k] => j = k

LEMMA SingleNth ==
    ASSUME NEW d \in Seq(Instruments), Single(d), NEW k \in 1 .. Len(d)
    PROVE  Nth(d, k) = 1
<1>1. Alike(d, k) = {k}
  BY DEF Alike, Single
<1>2. Nth(d, k) = Cardinality({k})
  BY <1>1, NthIs
<1> QED
  BY <1>2, FS_Singleton

\* Where the rotation stands once some step names one of its rows.
Named(st) == {s \in DOMAIN st : st[s].entry # NULL}

LEMMA NextFollows ==
    ASSUME NEW e, Slots(e), NEW st, StepsOK(st, e), Named(st) # {}
    PROVE  /\ LastIn(st, Named(st)) \in Named(st)
           /\ \E k \in 1 .. Len(e) :
                 /\ e[k] = [id |-> st[LastIn(st, Named(st))].entry,
                            instrument |-> st[LastIn(st, Named(st))].instrument]
                 /\ NextIn(e, st, Rotation(e)) = k % Len(e)
<1> DEFINE d == Rotation(e)
           a == Places(e, d)
           past == Past(st, DOMAIN a)
           last == LastIn(st, Named(st))
<1>1. DOMAIN a = RowIds(e) /\ \A k \in 1 .. Len(e) : a[e[k].id] = k
  BY OwnPlaces
<1>2. d \in Seq(Instruments) /\ Len(d) = Len(e) /\ Len(e) \in Nat
  BY SlotIs
<1>3. past = Named(st)
  <2>1. NULL \notin RowIds(e)
    BY IdsAreFinite, PlansAssumption
  <2>2. \A s \in DOMAIN st : st[s].entry # NULL => st[s].entry \in RowIds(e)
    <3> SUFFICES ASSUME NEW s \in DOMAIN st, st[s].entry # NULL PROVE st[s].entry \in RowIds(e)
      OBVIOUS
    <3>1. PICK k \in 1 .. Len(e) : e[k] = [id |-> st[s].entry, instrument |-> st[s].instrument]
      BY DEF StepsOK
    <3>2. e[k].id = st[s].entry
      BY <3>1
    <3> QED
      BY <3>2 DEF RowIds
  <2> QED
    BY <1>1, <2>1, <2>2 DEF Past, Named
<1>4. NextIn(e, st, d) = IF d = <<>> THEN 0
                         ELSE IF past = {} THEN Cardinality(DOMAIN st) % Len(d)
                         ELSE a[st[LastIn(st, past)].entry] % Len(d)
  BY DEF NextIn, Past
<1>5. last \in Named(st)
  <2>1. Named(st) \in SUBSET DOMAIN st
    BY DEF Named
  <2> QED
    BY <2>1, DatedSteps, LastIs
<1>6. PICK k \in 1 .. Len(e) : e[k] = [id |-> st[last].entry, instrument |-> st[last].instrument]
  BY <1>5 DEF Named, StepsOK
<1>7. a[st[last].entry] = k /\ d # <<>>
  <2>1. e[k].id = st[last].entry
    BY <1>6
  <2>2. a[e[k].id] = k
    BY <1>1
  <2>3. Len(d) # 0
    BY <1>2
  <2> QED
    BY <1>2, <2>1, <2>2, <2>3
<1> HIDE DEF d, a, past, last
<1>8. NextIn(e, st, d) = k % Len(e)
  BY <1>2, <1>3, <1>4, <1>7 DEF last
<1> QED
  BY <1>5, <1>6, <1>8 DEF d, last

\* The steps whose instrument the rotation still has, of those that named a row.
Held == {s \in DOMAIN steps : /\ steps[s].entry # NULL
                              /\ \E k \in DOMAIN entries' :
                                    entries'[k].instrument = steps[s].instrument}

Carried == \E k \in DOMAIN entries' :
              /\ entries'[k].instrument = steps[LastOf(Held)].instrument
              /\ NextSlot' = entries'[(k % Len(entries')) + 1]

LEMMA CarriesOn ==
    ASSUME PlanInv, PlanInv', Held # {}, Named(steps') = Held,
           DOMAIN steps' = DOMAIN steps,
           \A s \in DOMAIN steps : /\ steps'[s].due = steps[s].due
                                   /\ steps'[s].instrument = steps[s].instrument
    PROVE  Carried
<1> DEFINE st == steps' e == entries'
<1>1. StepsOK(st, e) /\ Slots(e) /\ DOMAIN e = 1 .. Len(e)
  BY SlotIs DEF PlanInv
<1>2. PICK k \in 1 .. Len(e) :
         /\ e[k] = [id |-> st[LastIn(st, Named(st))].entry,
                    instrument |-> st[LastIn(st, Named(st))].instrument]
         /\ NextIn(e, st, Rotation(e)) = k % Len(e)
  <2> HIDE DEF st, e
  <2>1. Named(st) # {}
    BY DEF st
  <2> QED
    BY <1>1, <2>1, NextFollows
<1>3. LastIn(st, Held) = LastIn(steps, Held) /\ LastIn(steps, Held) \in DOMAIN steps
  <2>1. Held \in SUBSET DOMAIN steps
    BY DEF Held
  <2>2. Dated(steps, Held) /\ IsFiniteSet(Held)
    BY <2>1, DatedSteps DEF PlanInv
  <2>3. LastIn(steps, Held) \in Held
    BY <2>2, LastIs
  <2>4. \A s \in Held : st[s].due = steps[s].due
    BY <2>1
  <2> HIDE DEF st
  <2>5. LastIn(st, Held) = LastIn(steps, Held)
    BY <2>2, <2>4, LastSame
  <2> QED
    BY <2>1, <2>3, <2>5
<1>4. LastOf(Held) = LastIn(steps, Held)
  BY DEF LastOf, LastIn
<1>5. e[k].instrument = steps[LastOf(Held)].instrument
  <2> DEFINE last == LastIn(steps, Held)
  <2>1. e[k] = [id |-> st[last].entry, instrument |-> st[last].instrument]
    BY <1>2, <1>3
  <2>2. st[last].instrument = steps[last].instrument
    BY <1>3
  <2> HIDE DEF last, st, e
  <2>3. e[k].instrument = steps[last].instrument
    BY <2>1, <2>2
  <2> QED
    BY <1>4, <2>3 DEF last
<1>6. NextSlot' = e[NextIn(e, st, Rotation(e)) + 1]
  BY RowsAre DEF NextSlot, _next_position, NextIn, positions, Row, rotation, Rotation
<1> QED
  BY <1>1, <1>2, <1>5, <1>6 DEF Carried

LEMMA SaveCarriesOn ==
    ASSUME PlanInv, NEW d \in Drafts, NEW interval \in Intervals, NEW start \in Starts,
           plan_save(d, interval, start), Held # {},
           Unrepeated(rotation), Unrepeated(rotation)'
    PROVE  Carried
<1> DEFINE e == entries
           a == Places(entries, d)
           r == Rotation(entries)
<1>1. d \in Seq(Instruments) /\ Slots(e) /\ StepsOK(steps, e)
  BY DraftIs DEF PlanInv
<1>2. entries' = SavedAs(e, d) /\ steps' = Released(steps, DOMAIN a)
  BY SetsEntries DEF plan_save
<1>3. NULL \notin DOMAIN a
  <2>1. DOMAIN a \subseteq RowIds(e) /\ RowIds(e) \subseteq Nat
    BY <1>1, PlacesAre, IdsAreFinite
  <2> QED
    BY <2>1, PlansAssumption
<1>4. /\ DOMAIN steps' = DOMAIN steps
      /\ \A s \in DOMAIN steps :
            /\ steps'[s].due = steps[s].due /\ steps'[s].instrument = steps[s].instrument
            /\ steps'[s].entry = IF steps[s].entry \in DOMAIN a THEN steps[s].entry ELSE NULL
  BY <1>1, <1>2, <1>3, ReleasedIs
<1>5. /\ DOMAIN entries' = 1 .. Len(d)
      /\ \A k \in 1 .. Len(d) : entries'[k].instrument = d[k]
  <2>1. /\ DOMAIN entries' = 1 .. Len(d)
        /\ \A k \in 1 .. Len(d) :
              entries'[k] =
                [id |-> IF k \in New(e, d) THEN NewId(e, d, k) ELSE e[RowAt(e, d, k)].id,
                 instrument |-> d[k]]
    BY <1>1, <1>2, SavedIs
  <2> QED
    BY <2>1
<1>6. Single(r) /\ Single(d)
  <2>1. rotation = r /\ rotation' = Rotation(entries')
    BY DEF rotation, Rotation
  <2>2. Rotation(entries') = d
    BY <1>1, <1>2, SavedSlots
  <2> QED
    BY <2>1, <2>2 DEF Unrepeated, Single
<1>7. ASSUME NEW s \in DOMAIN steps, steps[s].entry # NULL
      PROVE  steps[s].entry \in DOMAIN a <=> \E k \in 1 .. Len(d) : d[k] = steps[s].instrument
  <2>1. PICK j \in 1 .. Len(e) :
           e[j] = [id |-> steps[s].entry, instrument |-> steps[s].instrument]
    BY <1>1, <1>7 DEF StepsOK
  <2>2. e[j].id = steps[s].entry /\ e[j].instrument = steps[s].instrument
    BY <2>1
  <2>3. ASSUME steps[s].entry \in DOMAIN a
        PROVE  \E k \in 1 .. Len(d) : d[k] = steps[s].instrument
    <3>1. PICK k \in Kept(e, d) : steps[s].entry = e[RowAt(e, d, k)].id
      <4>1. DOMAIN a = {e[RowAt(e, d, k)].id : k \in Kept(e, d)}
        BY <1>1, PlacesAre
      <4> QED
        BY <2>3, <4>1
    <3>2. RowAt(e, d, k) \in 1 .. Len(e) /\ e[RowAt(e, d, k)].instrument = d[k]
      BY <1>1, RowAtIs
    <3>3. RowAt(e, d, k) = j
      BY <1>1, <2>2, <3>1, <3>2 DEF Slots
    <3>4. k \in 1 .. Len(d)
      BY DEF Kept
    <3> QED
      BY <2>2, <3>2, <3>3, <3>4
  <2>4. ASSUME NEW k \in 1 .. Len(d), d[k] = steps[s].instrument
        PROVE  steps[s].entry \in DOMAIN a
    <3>1. /\ DOMAIN e = 1 .. Len(e) /\ r[j] = e[j].instrument /\ r \in Seq(Instruments)
          /\ Len(r) = Len(e)
      BY <1>1, SlotIs
    <3>2. Nth(r, j) = 1 /\ Nth(d, k) = 1
      BY <1>1, <1>6, <3>1, SingleNth
    <3>3. j \in RowsFor(e, d, k)
      BY <2>2, <2>4, <3>1, <3>2 DEF RowsFor
    <3>4. k \in Kept(e, d)
      BY <3>3 DEF Kept
    <3>5. RowAt(e, d, k) = j
      BY <1>1, <3>3, <3>4, RowAtIs
    <3>6. DOMAIN a = {e[RowAt(e, d, m)].id : m \in Kept(e, d)}
      BY <1>1, PlacesAre
    <3> QED
      BY <2>2, <3>4, <3>5, <3>6
  <2> QED
    BY <2>3, <2>4
<1> HIDE DEF a, e, r
<1>8. Named(steps') = Held
  BY <1>3, <1>4, <1>5, <1>7 DEF Named, Held
<1>9. PlanInv'
  BY SaveKeepsPlan
<1> QED
  BY <1>4, <1>8, <1>9, CarriesOn

LEMMA RemoveCarriesOn ==
    ASSUME PlanInv, NEW i, instrument_remove(i), Held # {}
    PROVE  Carried
<1> DEFINE E == Left(entries, i)
           e == entries
<1>1. /\ Slots(e) /\ StepsOK(steps, e) /\ PlanInv' /\ entries' = E
      /\ steps' = Released(steps, RowIds(E))
  BY RemoveKeepsPlan DEF PlanInv
<1>2. /\ Slots(E) /\ DOMAIN E = 1 .. Len(E)
      /\ \A n \in 1 .. Len(E) : \E k \in 1 .. Len(e) : E[n] = e[k] /\ e[k].instrument # i
      /\ \A k \in 1 .. Len(e) : e[k].instrument # i => \E n \in 1 .. Len(E) : E[n] = e[k]
  <2>0. Slots(entries)
    BY <1>1
  <2>1. /\ Slots(E)
        /\ \A n \in 1 .. Len(E) : \E k \in 1 .. Len(e) : E[n] = e[k] /\ e[k].instrument # i
        /\ \A k \in 1 .. Len(e) : e[k].instrument # i => \E n \in 1 .. Len(E) : E[n] = e[k]
    BY <2>0, LeftIs
  <2> HIDE DEF E
  <2>2. DOMAIN E = 1 .. Len(E)
    BY <2>1, SlotIs
  <2> QED
    BY <2>1, <2>2
<1> HIDE DEF E
<1>3. NULL \notin RowIds(E)
  BY <1>2, IdsAreFinite, PlansAssumption
<1>4. /\ DOMAIN steps' = DOMAIN steps
      /\ \A s \in DOMAIN steps :
            /\ steps'[s].due = steps[s].due /\ steps'[s].instrument = steps[s].instrument
            /\ steps'[s].entry = IF steps[s].entry \in RowIds(E) THEN steps[s].entry ELSE NULL
  BY <1>1, <1>3, ReleasedIs
<1>5. ASSUME NEW s \in DOMAIN steps, steps[s].entry # NULL
      PROVE  steps[s].entry \in RowIds(E) <=> \E n \in 1 .. Len(E) :
                                              E[n].instrument = steps[s].instrument
  <2>1. PICK j \in 1 .. Len(e) :
           e[j] = [id |-> steps[s].entry, instrument |-> steps[s].instrument]
    BY <1>1, <1>5 DEF StepsOK
  <2>2. e[j].id = steps[s].entry /\ e[j].instrument = steps[s].instrument
    BY <2>1
  <2>3. ASSUME steps[s].entry \in RowIds(E)
        PROVE  \E n \in 1 .. Len(E) : E[n].instrument = steps[s].instrument
    <3>1. PICK n \in 1 .. Len(E) : E[n].id = steps[s].entry
      BY <2>3 DEF RowIds
    <3>2. PICK k \in 1 .. Len(e) : E[n] = e[k]
      BY <1>2
    <3>3. k = j
      BY <1>1, <2>2, <3>1, <3>2 DEF Slots
    <3> QED
      BY <2>2, <3>2, <3>3
  <2>4. ASSUME NEW n \in 1 .. Len(E), E[n].instrument = steps[s].instrument
        PROVE  steps[s].entry \in RowIds(E)
    <3>1. e[j].instrument # i
      BY <1>2, <2>2, <2>4
    <3>2. PICK m \in 1 .. Len(E) : E[m] = e[j]
      BY <1>2, <3>1
    <3> QED
      BY <2>2, <3>2 DEF RowIds
  <2> QED
    BY <2>3, <2>4
<1> HIDE DEF e
<1>6. Named(steps') = Held
  <2>1. entries' = E /\ DOMAIN E = 1 .. Len(E)
    BY <1>1, <1>2
  <2>2. Held = {s \in DOMAIN steps : /\ steps[s].entry # NULL
                                    /\ \E n \in 1 .. Len(E) :
                                          E[n].instrument = steps[s].instrument}
    BY <2>1 DEF Held
  <2>3. Named(steps') = {s \in DOMAIN steps : steps'[s].entry # NULL}
    BY <1>4 DEF Named
  <2>4. ASSUME NEW s \in DOMAIN steps
        PROVE  steps'[s].entry # NULL <=>
                  /\ steps[s].entry # NULL
                  /\ \E n \in 1 .. Len(E) : E[n].instrument = steps[s].instrument
    BY <1>3, <1>4, <1>5
  <2> QED
    BY <2>2, <2>3, <2>4
<1> QED
  BY <1>1, <1>4, <1>6, CarriesOn

LEMMA NextCarriesOn ==
    ASSUME PlanInv, PlanNext, entries' # entries, Held # {},
           Unrepeated(rotation), Unrepeated(rotation)'
    PROVE  Carried
<1>1. ASSUME NEW d \in Drafts, NEW interval \in Intervals, NEW start \in Starts,
             plan_save(d, interval, start)
      PROVE  Carried
  BY <1>1, SaveCarriesOn
<1>2. ASSUME NEW i, instrument_remove(i) PROVE Carried
  BY <1>2, RemoveCarriesOn
<1>3. ~plan_delete
  BY DEF plan_delete, Held
<1>4. ASSUME NEW ticker, NEW due, plan_complete(ticker, due) \/ plan_skip(ticker, due)
      PROVE  FALSE
  BY <1>4 DEF plan_complete, plan_skip, Record
<1>5. ASSUME NEW s, trade_delete(s) \/ trade_move(s) PROVE FALSE
  BY <1>5 DEF trade_delete, trade_move
<1> QED
  BY <1>1, <1>2, <1>3, <1>4, <1>5 DEF PlanNext, Other

\* However its slots are saved again, reordered or removed, a plan with no instrument
\* twice goes on from the last step whose instrument it still has.
THEOREM PlanKeepsItsPlace ==
    PlanSpec => KeepsItsPlace
<1> DEFINE Step == /\ entries' # entries /\ Held # {}
                   /\ Unrepeated(rotation) /\ Unrepeated(rotation)'
                   => Carried
<1>1. PlanInit => PlanInv
  BY PlanStarts
<1>2. PlanInv /\ [PlanNext]_PlanVars => PlanInv'
  BY PlanKeeps
<1>3. PlanInv /\ [PlanNext]_PlanVars => [Step]_PlanVars
  BY NextCarriesOn
<1>4. [Step]_PlanVars
        <=> [LET kept == {s \in DOMAIN steps : /\ steps[s].entry # NULL
                                               /\ \E k \in DOMAIN entries' :
                                                     entries'[k].instrument = steps[s].instrument}
             IN  /\ entries' # entries /\ kept # {}
                 /\ Unrepeated(rotation) /\ Unrepeated(rotation')
                 => \E k \in DOMAIN entries' :
                       /\ entries'[k].instrument = steps[LastOf(kept)].instrument
                       /\ NextSlot' = entries'[(k % Len(entries')) + 1]]_PlanVars
  <2>1. Unrepeated(rotation)' <=> Unrepeated(rotation')
    BY DEF Unrepeated
  <2> QED
    BY <2>1 DEF Held, Carried
<1> QED
  BY <1>1, <1>2, <1>3, <1>4, PTL DEF PlanSpec, KeepsItsPlace
=============================================================================
