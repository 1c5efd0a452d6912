--------------------------- MODULE DatabaseProofs ---------------------------
(***************************************************************************)
(* Proofs about the database: of WriteLock, who holds it, of Setup, which  *)
(* one it is, and of Importer, what a broker's file or an advice puts in.  *)
(*                                                                         *)
(* For any sets of requests and any number of instruments: the shape of    *)
(* the state, and that ordinary work locks nobody out when sqlite's        *)
(* busy_timeout leaves a tick for every request and every instrument       *)
(* (Patient). For any databases and timezones, set up from one page        *)
(* (OnePage): that a restart finds what was being served, and that what    *)
(* has accounts is not set up again. For any files, advices and ledgers:   *)
(* that an advice is recorded once, that a file committed again adds       *)
(* nothing, and that no import leaves short what was covered.              *)
(***************************************************************************)
EXTENDS WriteLock, Setup, Importer, FiniteSetTheorems, WellFoundedInduction, TLAPS

Patient == IsFiniteSet(Requests) /\ Busy >= Cardinality(Requests) + Instruments

-----------------------------------------------------------------------------
(***************************************************************************)
(* The inductive invariant.                                                *)
(***************************************************************************)
\* The feed is done when nothing is left to write.
FeedOK == left = 0 => at[Feed] = "done"

\* No work is awaited in a thread inside a session.
Calm == \A r \in Slow : at[r] \in {"new", "gate", "gated", "handler"}

Finished == {r \in Requests : at[r] = "done"}

\* The ticks that passed under the lock: one for each holding that is over, and those
\* of the present one.
Ticks == Cardinality(Finished) + (Instruments - left) + (IF lock = None THEN 0 ELSE held)

\* The lock is held by the one actor at work, for a tick at most, and nobody waited
\* longer than the lock was held.
Orderly ==
    /\ \A a \in Actors : at[a] \notin {"failed", "parked"}
    /\ lock # None => lock \in Actors /\ at[lock] = "working" /\ held <= 1
    /\ \A a \in Actors : at[a] = "working" => lock = a
    /\ \A a \in Actors : Waiting(a) => waited[a] <= Ticks

IInv == TypeOK /\ FeedOK /\ (Calm => Orderly)

-----------------------------------------------------------------------------
(***************************************************************************)
(* The shape of the state.                                                 *)
(***************************************************************************)
Phases == {"new", "gate", "gated", "handler", "working", "parked", "done", "failed", "fetching",
           "fetched", "writing"}

LEMMA GoesIs ==
    ASSUME TypeOK, NEW a \in Actors, NEW phase \in Phases, Goes(a, phase)
    PROVE  /\ at' \in [Actors -> Phases] /\ waited' \in [Actors -> 0 .. Busy]
           /\ at'[a] = phase /\ waited'[a] = 0
           /\ \A b \in Actors \ {a} : at'[b] = at[b] /\ waited'[b] = waited[b]
BY WriteLockAssumption DEF TypeOK, Goes, Phases

LEMMA RequestTypeOK ==
    ASSUME TypeOK, NEW r \in Requests, RequestStep(r)
    PROVE  TypeOK'
<1>1. r \in Actors
  BY DEF Actors
<1>2. PICK phase \in Phases : Goes(r, phase)
  BY Zenon DEF RequestStep, Arrive, PassGate, Dispatch, Begin, Resume, End, GiveUp, Phases
<1>3. at' \in [Actors -> Phases] /\ waited' \in [Actors -> 0 .. Busy]
  BY <1>1, <1>2, GoesIs
<1>4. loop' \in Requests \cup {None}
  BY DEF RequestStep, Arrive, PassGate, Dispatch, Begin, Resume, End, GiveUp, TypeOK
<1>5. lock' \in Actors \cup {None} /\ held' \in Nat /\ left' = left
  BY <1>1 DEF RequestStep, Arrive, PassGate, Dispatch, Begin, Resume, End, GiveUp, TypeOK
<1> QED
  BY <1>3, <1>4, <1>5 DEF TypeOK, Phases

LEMMA FeedTypeOK ==
    ASSUME TypeOK, FeedOK, FeedStep
    PROVE  TypeOK' /\ FeedOK'
<1>1. Feed \in Actors
  BY DEF Actors
<1>2. PICK phase \in Phases : Goes(Feed, phase)
  BY Zenon DEF FeedStep, Fetched, FeedWrite, FeedCommit, FeedGivesUp, Phases
<1>3. at' \in [Actors -> Phases] /\ waited' \in [Actors -> 0 .. Busy] /\ at'[Feed] = phase
  BY <1>1, <1>2, GoesIs
<1>4. lock' \in Actors \cup {None} /\ held' \in Nat /\ loop' = loop
  BY <1>1 DEF FeedStep, Fetched, FeedWrite, FeedCommit, FeedGivesUp, TypeOK
<1>5. left' \in 0 .. Instruments /\ FeedOK'
  <2>1. CASE FeedCommit
    <3>1. left # 0
      BY <2>1 DEF FeedCommit, FeedOK
    <3>2. left' = left - 1 /\ left' \in 0 .. Instruments
      BY <2>1, <3>1, WriteLockAssumption DEF FeedCommit, TypeOK
    <3>3. left = 1 => at'[Feed] = "done"
      BY <1>1, <2>1 DEF FeedCommit, Goes, TypeOK
    <3> QED
      BY <3>1, <3>2, <3>3 DEF FeedOK, TypeOK
  <2>2. CASE Fetched \/ FeedWrite \/ FeedGivesUp
    <3>1. left' = left /\ at[Feed] # "done"
      BY <2>2 DEF Fetched, FeedWrite, FeedGivesUp
    <3> QED
      BY <3>1 DEF FeedOK, TypeOK
  <2> QED
    BY <2>1, <2>2 DEF FeedStep
<1> QED
  BY <1>3, <1>4, <1>5 DEF TypeOK, Phases

LEMMA TickTypeOK ==
    ASSUME TypeOK, FeedOK, Tick
    PROVE  TypeOK' /\ FeedOK'
<1>1. Feed \in Actors
  BY DEF Actors
<1>2. at' \in [Actors -> Phases] /\ (at[Feed] = "done" => at'[Feed] = "done")
  BY <1>1 DEF Tick, TypeOK, Phases
<1>3. waited' \in [Actors -> 0 .. Busy]
  <2>1. ASSUME NEW a \in Actors
        PROVE  (IF Waiting(a) THEN waited[a] + 1 ELSE waited[a]) \in 0 .. Busy
    <3>1. waited[a] \in 0 .. Busy /\ (Waiting(a) => waited[a] < Busy)
      BY WriteLockAssumption DEF Tick, Due, TypeOK
    <3> QED
      BY <3>1, WriteLockAssumption
  <2> QED
    BY <2>1 DEF Tick
<1>4. held' \in Nat /\ UNCHANGED <<loop, lock, left>>
  BY DEF Tick, TypeOK
<1> QED
  BY <1>2, <1>3, <1>4 DEF TypeOK, FeedOK, Phases

-----------------------------------------------------------------------------
(***************************************************************************)
(* Order under the lock.                                                   *)
(***************************************************************************)
LEMMA RequestTypes ==
    ASSUME NEW r \in Requests
    PROVE  r \in Actors /\ r # Feed /\ Feed \in Actors
BY WriteLockAssumption DEF Actors

\* A slow request never goes back: what is calm after a step was calm before it.
LEMMA CalmBefore ==
    ASSUME TypeOK, [Next]_vars, Calm'
    PROVE  Calm
<1> SUFFICES ASSUME NEW r \in Slow PROVE at[r] \in {"new", "gate", "gated", "handler"}
  BY DEF Calm
<1>1. r \in Requests /\ r \in Actors /\ r # Feed
  BY RequestTypes DEF Requests
<1>2. at'[r] \in {"new", "gate", "gated", "handler"}
  BY DEF Calm
<1>3. ASSUME NEW q \in Requests, RequestStep(q) PROVE at[r] \in {"new", "gate", "gated", "handler"}
  <2>1. CASE q = r
    <3>1. Arrive(r) \/ PassGate(r) \/ Dispatch(r) \/ Begin(r) \/ at'[r] \in {"working", "done", "failed"}
      BY <1>1, <1>3, <2>1 DEF RequestStep, Resume, End, GiveUp, Goes, TypeOK
    <3> QED
      BY <1>2, <3>1 DEF Arrive, PassGate, Dispatch, Begin
  <2>2. CASE q # r
    <3>1. PICK phase \in Phases : Goes(q, phase)
      BY <1>3, Zenon DEF RequestStep, Arrive, PassGate, Dispatch, Begin, Resume, End, GiveUp, Phases
    <3>2. at'[r] = at[r]
      BY <1>1, <2>2, <3>1 DEF Goes, TypeOK
    <3> QED
      BY <1>2, <3>2
  <2> QED
    BY <2>1, <2>2
<1>4. CASE FeedStep
  <2>1. PICK phase \in Phases : Goes(Feed, phase)
    BY <1>4, Zenon DEF FeedStep, Fetched, FeedWrite, FeedCommit, FeedGivesUp, Phases
  <2>2. at'[r] = at[r]
    BY <1>1, <2>1 DEF Goes, TypeOK
  <2> QED
    BY <1>2, <2>2
<1>5. CASE Tick
  BY <1>1, <1>2, <1>5 DEF Tick, TypeOK
<1>6. CASE UNCHANGED vars
  BY <1>2, <1>6 DEF vars
<1> QED
  BY <1>3, <1>4, <1>5, <1>6 DEF Next

LEMMA CountFinished ==
    ASSUME IsFiniteSet(Requests)
    PROVE  /\ IsFiniteSet(Finished) /\ Cardinality(Finished) \in Nat
           /\ Cardinality(Requests) \in Nat
           /\ \A r \in Requests \ Finished :
                 /\ Cardinality(Finished \cup {r}) = Cardinality(Finished) + 1
                 /\ Cardinality(Finished) + 1 <= Cardinality(Requests)
<1>1. Finished \subseteq Requests
  BY DEF Finished
<1>2. IsFiniteSet(Finished) /\ Cardinality(Finished) \in Nat /\ Cardinality(Requests) \in Nat
  BY <1>1, FS_Subset, FS_CardinalityType
<1>3. ASSUME NEW r \in Requests \ Finished
      PROVE  /\ Cardinality(Finished \cup {r}) = Cardinality(Finished) + 1
             /\ Cardinality(Finished) + 1 <= Cardinality(Requests)
  <2>1. Cardinality(Finished \cup {r}) = Cardinality(Finished) + 1
    BY <1>2, FS_AddElement
  <2>2. Cardinality(Finished \cup {r}) <= Cardinality(Requests)
    <3>1. Finished \cup {r} \in SUBSET Requests
      BY <1>1
    <3> QED
      BY <3>1, FS_Subset
  <2> QED
    BY <2>1, <2>2
<1> QED
  BY <1>2, <1>3

\* Nobody waits so long that it gives up.
LEMMA NobodyGivesUp ==
    ASSUME Patient, TypeOK, FeedOK, Orderly, NEW a \in Actors, Waiting(a)
    PROVE  waited[a] < Busy
<1>1. /\ Cardinality(Finished) \in Nat /\ Cardinality(Requests) \in Nat
      /\ \A r \in Requests \ Finished : Cardinality(Finished) + 1 <= Cardinality(Requests)
  BY CountFinished DEF Patient
<1>2. /\ waited[a] <= Ticks /\ waited[a] \in Nat /\ left \in 0 .. Instruments /\ held \in Nat
      /\ Instruments \in Nat /\ Busy \in Nat
  BY WriteLockAssumption DEF Orderly, TypeOK
<1>3. Busy >= Cardinality(Requests) + Instruments
  BY DEF Patient
<1>4. lock # None => lock \in Actors /\ at[lock] = "working" /\ held <= 1
  BY DEF Orderly
<1>5. lock # a
  BY <1>4, WriteLockAssumption DEF Waiting
<1>6. CASE a \in Requests
  <2>1. a \notin Finished
    BY DEF Waiting, Finished
  <2>2. Cardinality(Finished) + 1 <= Cardinality(Requests)
    BY <1>1, <1>6, <2>1
  <2>3. CASE lock = None
    BY <1>1, <1>2, <1>3, <2>2, <2>3 DEF Ticks
  <2>4. CASE lock = Feed
    <3>1. left >= 1
      BY <1>2, <1>4, <2>4, WriteLockAssumption DEF FeedOK, Actors
    <3> QED
      BY <1>1, <1>2, <1>3, <1>4, <2>2, <2>4, <3>1, WriteLockAssumption DEF Ticks
  <2>5. CASE lock # None /\ lock # Feed
    <3> DEFINE both == Finished \cup {a}
    <3>1. lock \in Requests /\ lock \notin both
      BY <1>4, <1>5, <2>5 DEF Actors, Finished
    <3>2. both \in SUBSET Requests /\ both \cup {lock} \in SUBSET Requests
      BY <1>6, <3>1 DEF Finished
    <3>3. IsFiniteSet(both) /\ IsFiniteSet(both \cup {lock}) /\ IsFiniteSet(Requests)
      BY <3>2, FS_Subset DEF Patient
    <3>4. Cardinality(both) = Cardinality(Finished) + 1
      BY <1>6, <2>1, CountFinished DEF Patient
    <3>5. Cardinality(both \cup {lock}) = Cardinality(both) + 1
      BY <3>1, <3>3, FS_AddElement
    <3>6. Cardinality(both \cup {lock}) <= Cardinality(Requests)
      BY <3>2, <3>3, FS_Subset
    <3>7. Cardinality(Finished) + 2 <= Cardinality(Requests)
      BY <1>1, <3>4, <3>5, <3>6
    <3> QED
      BY <1>1, <1>2, <1>3, <1>4, <2>5, <3>7 DEF Ticks
  <2> QED
    BY <2>3, <2>4, <2>5
<1>7. CASE a = Feed
  <2>1. left >= 1
    BY <1>2, <1>7 DEF FeedOK, Waiting
  <2>2. CASE lock = None
    <3>1. Cardinality(Finished) <= Cardinality(Requests)
      BY FS_Subset DEF Finished, Patient
    <3> QED
      BY <1>1, <1>2, <1>3, <2>1, <2>2, <3>1 DEF Ticks
  <2>3. CASE lock # None
    <3>1. lock \in Requests \ Finished
      BY <1>4, <1>5, <1>7, <2>3 DEF Actors, Finished
    <3> QED
      BY <1>1, <1>2, <1>3, <1>4, <2>1, <2>3, <3>1 DEF Ticks
  <2> QED
    BY <2>2, <2>3
<1> QED
  BY <1>6, <1>7 DEF Actors

LEMMA TicksIs ==
    ASSUME Patient, TypeOK
    PROVE  /\ Cardinality(Finished) \in Nat /\ left \in 0 .. Instruments /\ held \in Nat
           /\ Instruments \in Nat /\ Ticks \in Nat
<1>1. Cardinality(Finished) \in Nat
  BY CountFinished DEF Patient
<1> QED
  BY <1>1, WriteLockAssumption DEF Ticks, TypeOK

LEMMA TicksNat == Patient /\ TypeOK => Ticks \in Nat
BY TicksIs

LEMMA StepKeepsOrderly ==
    ASSUME Patient, TypeOK, TypeOK', Orderly, NEW a \in Actors, NEW phase \in Phases,
           Goes(a, phase), phase \notin {"failed", "parked"}, Ticks' >= Ticks,
           lock' # None => lock' \in Actors /\ at'[lock'] = "working" /\ held' <= 1,
           phase = "working" => lock' = a,
           \A b \in Actors \ {a} : lock = b => lock' = b
    PROVE  Orderly'
<1>1. /\ at'[a] = phase /\ waited'[a] = 0
      /\ \A b \in Actors \ {a} : at'[b] = at[b] /\ waited'[b] = waited[b]
  BY GoesIs
<1>2. \A b \in Actors : at'[b] \notin {"failed", "parked"}
  BY <1>1 DEF Orderly
<1>3. \A b \in Actors : at'[b] = "working" => lock' = b
  BY <1>1 DEF Orderly
<1>4. Ticks \in Nat /\ Ticks' \in Nat
  <2>1. Ticks \in Nat
    BY TicksIs
  <2>2. (Patient /\ TypeOK => Ticks \in Nat)'
    BY TicksNat, PTL
  <2> QED
    BY <2>1, <2>2 DEF Patient
<1>5. ASSUME NEW b \in Actors, Waiting(b)' PROVE waited'[b] <= Ticks'
  <2>1. CASE b = a
    BY <1>1, <1>4, <2>1
  <2>2. CASE b # a
    <3>1. Waiting(b) /\ waited'[b] = waited[b] /\ waited[b] \in Nat
      BY <1>1, <1>5, <2>2, WriteLockAssumption DEF Waiting, TypeOK
    <3> QED
      BY <1>4, <3>1 DEF Orderly
  <2> QED
    BY <2>1, <2>2
<1> QED
  BY <1>2, <1>3, <1>5 DEF Orderly

\* Only a request that ends changes who has finished.
LEMMA FinishedIs ==
    ASSUME TypeOK, NEW a \in Actors, NEW phase \in Phases, Goes(a, phase)
    PROVE  /\ at[a] # "done" /\ phase # "done" => Finished' = Finished
           /\ a \in Requests /\ phase = "done" => Finished' = Finished \cup {a}
           /\ a = Feed => Finished' = Finished
<1>1. at'[a] = phase /\ \A b \in Actors \ {a} : at'[b] = at[b]
  BY GoesIs
<1>2. Requests \subseteq Actors
  BY DEF Actors
<1> QED
  BY <1>1, <1>2, RequestTypes DEF Finished

LEMMA RequestKeepsOrderly ==
    ASSUME Patient, TypeOK, TypeOK', FeedOK, Orderly, Calm', NEW r \in Requests, RequestStep(r)
    PROVE  Orderly'
<1> USE WriteLockAssumption
<1>1. r \in Actors /\ r # Feed
  BY RequestTypes
<1>2. lock # None => lock \in Actors /\ at[lock] = "working" /\ held <= 1
  BY DEF Orderly
<1>3. CASE Arrive(r) \/ PassGate(r) \/ Dispatch(r)
  <2>1. PICK phase \in {"gate", "gated", "handler"} : Goes(r, phase)
    BY <1>3 DEF Arrive, PassGate, Dispatch
  <2>2. UNCHANGED <<lock, held, left>> /\ at[r] \in {"new", "gate", "gated"}
    BY <1>3 DEF Arrive, PassGate, Dispatch
  <2>3. phase \in Phases
    BY DEF Phases
  <2>4. Finished' = Finished
    BY <1>1, <2>1, <2>2, <2>3, FinishedIs
  <2>5. Ticks' = Ticks
    BY <2>2, <2>4 DEF Ticks
  <2>6. lock' # None => lock' \in Actors /\ at'[lock'] = "working" /\ held' <= 1
    BY <1>1, <1>2, <2>1, <2>2, <2>3, GoesIs
  <2> QED
    BY <1>1, <2>1, <2>2, <2>3, <2>5, <2>6, TicksIs, StepKeepsOrderly
<1>4. CASE Begin(r)
  <2>1. r \notin Slow
    BY <1>1, <1>4 DEF Begin, Goes, Calm, TypeOK
  <2>2. /\ Goes(r, "working") /\ "working" \in Phases /\ lock = None /\ lock' = r /\ held' = 0
        /\ left' = left /\ at[r] = "handler"
    BY <1>4, <2>1 DEF Begin, Phases
  <2>3. Finished' = Finished
    BY <1>1, <2>2, FinishedIs
  <2>4. Ticks' >= Ticks
    BY <2>2, <2>3, TicksIs DEF Ticks
  <2>5. at'[r] = "working"
    BY <1>1, <2>2, GoesIs
  <2> QED
    BY <1>1, <2>2, <2>4, <2>5, StepKeepsOrderly
<1>5. CASE Resume(r)
  BY <1>1, <1>5 DEF Resume, Orderly
<1>6. CASE End(r)
  <2>1. /\ Goes(r, "done") /\ "done" \in Phases /\ lock = r /\ lock' = None /\ left' = left
        /\ at[r] = "working"
    BY <1>1, <1>6 DEF End, Phases, Orderly
  <2>2. Cardinality(Finished') = Cardinality(Finished) + 1
    <3>1. Finished' = Finished \cup {r} /\ r \in Requests \ Finished
      BY <1>1, <2>1, FinishedIs DEF Finished
    <3> QED
      BY <3>1, CountFinished DEF Patient
  <2>3. Ticks' >= Ticks
    BY <1>2, <2>1, <2>2, TicksIs DEF Ticks
  <2> QED
    BY <1>1, <2>1, <2>3, StepKeepsOrderly
<1>7. CASE GiveUp(r)
  <2>1. Waiting(r) /\ waited[r] >= Busy
    BY <1>7 DEF GiveUp, Waiting
  <2>2. waited[r] < Busy /\ waited[r] \in Nat /\ Busy \in Nat
    BY <1>1, <2>1, NobodyGivesUp DEF TypeOK
  <2> QED
    BY <2>1, <2>2
<1> QED
  BY <1>3, <1>4, <1>5, <1>6, <1>7 DEF RequestStep

LEMMA FeedKeepsOrderly ==
    ASSUME Patient, TypeOK, TypeOK', FeedOK, Orderly, FeedStep
    PROVE  Orderly'
<1> USE WriteLockAssumption
<1>1. Feed \in Actors
  BY DEF Actors
<1>2. lock # None => lock \in Actors /\ at[lock] = "working" /\ held <= 1
  BY DEF Orderly
<1>3. \A phase \in Phases : Goes(Feed, phase) => Finished' = Finished
  BY <1>1, FinishedIs
<1>4. CASE Fetched
  <2>1. /\ Goes(Feed, "writing") /\ "writing" \in Phases /\ UNCHANGED <<lock, held, left>>
        /\ at[Feed] = "fetched"
    BY <1>4 DEF Fetched, Phases
  <2>2. Ticks' = Ticks
    BY <1>3, <2>1 DEF Ticks
  <2>3. lock' # None => lock' \in Actors /\ at'[lock'] = "working" /\ held' <= 1
    BY <1>1, <1>2, <2>1, GoesIs
  <2> QED
    BY <1>1, <2>1, <2>2, <2>3, TicksIs, StepKeepsOrderly
<1>5. CASE FeedWrite
  <2>1. /\ Goes(Feed, "working") /\ "working" \in Phases /\ lock = None /\ lock' = Feed
        /\ held' = 0 /\ left' = left
    BY <1>5 DEF FeedWrite, Phases
  <2>2. Ticks' >= Ticks
    BY <1>3, <2>1, TicksIs DEF Ticks
  <2>3. at'[Feed] = "working"
    BY <1>1, <2>1, GoesIs
  <2> QED
    BY <1>1, <2>1, <2>2, <2>3, StepKeepsOrderly
<1>6. CASE FeedCommit
  <2>1. lock = Feed /\ lock' = None /\ left' = left - 1
    BY <1>1, <1>6 DEF FeedCommit, Orderly
  <2>2. PICK phase \in {"done", "fetching"} : Goes(Feed, phase)
    BY <1>6 DEF FeedCommit
  <2>3. phase \in Phases
    BY DEF Phases
  <2>4. Ticks' >= Ticks
    BY <1>2, <1>3, <2>1, <2>2, <2>3, TicksIs DEF Ticks
  <2> QED
    BY <1>1, <2>1, <2>2, <2>3, <2>4, StepKeepsOrderly
<1>7. CASE FeedGivesUp
  <2>1. Waiting(Feed) /\ waited[Feed] >= Busy
    BY <1>7 DEF FeedGivesUp, Waiting
  <2>2. waited[Feed] < Busy /\ waited[Feed] \in Nat /\ Busy \in Nat
    BY <1>1, <2>1, NobodyGivesUp DEF TypeOK
  <2> QED
    BY <2>1, <2>2
<1> QED
  BY <1>4, <1>5, <1>6, <1>7 DEF FeedStep

\* Somebody waits only while the lock is held, and a tick is then a tick under it.
LEMMA TickKeepsOrderly ==
    ASSUME Patient, TypeOK, TypeOK', Orderly, Tick
    PROVE  Orderly'
<1> USE WriteLockAssumption
<1>1. /\ \A a \in Actors : Waiting(a)' <=> Waiting(a)
      /\ \A a \in Actors : at'[a] = "working" <=> at[a] = "working"
      /\ \A a \in Actors : at'[a] \notin {"failed", "parked"}
      /\ Finished' = Finished
  <2>1. \A a \in Actors : at'[a] = IF a = Feed /\ at[a] = "fetching" THEN "fetched" ELSE at[a]
    BY DEF Tick, TypeOK
  <2>2. \A a \in Actors : Waiting(a)' <=> Waiting(a)
    BY <2>1 DEF Waiting
  <2>3. Finished' = Finished
    BY <2>1, RequestTypes DEF Finished
  <2> QED
    BY <2>1, <2>2, <2>3 DEF Orderly
<1>2. lock' = lock /\ left' = left
  BY DEF Tick
<1>3. CASE lock = None
  <2>1. \A a \in Actors : ~Waiting(a)
    BY <1>3 DEF Tick, Due
  <2> QED
    BY <1>1, <1>2, <1>3, <2>1 DEF Orderly
<1>4. CASE lock # None
  <2>1. lock \in Actors /\ at[lock] = "working" /\ held < 1
    BY <1>4 DEF Tick, Orderly
  <2>2. held' = held + 1 /\ held \in Nat
    BY <2>1 DEF Tick, TypeOK
  <2>3. Ticks' = Ticks + 1
    BY <1>1, <1>2, <1>4, <2>2, TicksIs DEF Ticks
  <2>4. \A a \in Actors : Waiting(a) => waited'[a] = waited[a] + 1 /\ waited[a] \in Nat
    BY DEF Tick, TypeOK
  <2>5. \A a \in Actors : Waiting(a)' => waited'[a] <= Ticks'
    BY <1>1, <2>3, <2>4, TicksIs DEF Orderly
  <2> QED
    BY <1>1, <1>2, <2>1, <2>2, <2>5 DEF Orderly
<1> QED
  BY <1>3, <1>4

-----------------------------------------------------------------------------
(***************************************************************************)
(* The theorems.                                                           *)
(***************************************************************************)
LEMMA InitIInv == ASSUME Patient, Init PROVE IInv
<1> USE WriteLockAssumption
<1>1. TypeOK
  BY DEF Init, TypeOK
<1>2. FeedOK /\ left = Instruments
  BY DEF Init, FeedOK
<1>3. Orderly
  <2>1. \A a \in Actors : at[a] \in {"fetching", "new"} /\ waited[a] = 0
    BY DEF Init
  <2> QED
    BY <2>1 DEF Init, Orderly, Waiting
<1> QED
  BY <1>1, <1>2, <1>3 DEF IInv

LEMMA NextKeepsType == ASSUME TypeOK, FeedOK, [Next]_vars PROVE TypeOK' /\ FeedOK'
<1>1. ASSUME NEW r \in Requests, RequestStep(r) PROVE TypeOK' /\ FeedOK'
  <2>1. TypeOK'
    BY <1>1, RequestTypeOK
  <2>2. PICK phase \in Phases : Goes(r, phase)
    BY <1>1, Zenon DEF RequestStep, Arrive, PassGate, Dispatch, Begin, Resume, End, GiveUp, Phases
  <2>3. at'[Feed] = at[Feed]
    BY <2>2, RequestTypes DEF Goes, TypeOK
  <2>4. left' = left
    BY <1>1 DEF RequestStep, Arrive, PassGate, Dispatch, Begin, Resume, End, GiveUp
  <2> QED
    BY <2>1, <2>3, <2>4 DEF FeedOK
<1>2. CASE UNCHANGED vars
  BY <1>2 DEF vars, TypeOK, FeedOK
<1> QED
  BY <1>1, <1>2, FeedTypeOK, TickTypeOK DEF Next

LEMMA NextKeepsIInv == ASSUME Patient, IInv, [Next]_vars PROVE IInv'
<1>1. TypeOK' /\ FeedOK'
  BY NextKeepsType DEF IInv
<1>2. ASSUME Calm' PROVE Orderly'
  <2>1. Orderly
    BY <1>2, CalmBefore DEF IInv
  <2>2. CASE UNCHANGED vars
    BY <2>1, <2>2 DEF vars, Orderly, Waiting, Ticks, Finished
  <2> QED
    BY <1>1, <1>2, <2>1, <2>2, RequestKeepsOrderly, FeedKeepsOrderly, TickKeepsOrderly
    DEF IInv, Next
<1> QED
  BY <1>1, <1>2 DEF IInv

\* Every actor waits at most busy_timeout and the feed writes no more than it has.
THEOREM TypeCorrect == Spec => []TypeOK
<1>1. Init => TypeOK /\ FeedOK
  BY WriteLockAssumption DEF Init, TypeOK, FeedOK
<1>2. TypeOK /\ FeedOK /\ [Next]_vars => TypeOK' /\ FeedOK'
  BY NextKeepsType
<1> QED
  BY <1>1, <1>2, PTL DEF Spec

\* While no handler awaits a thread inside its session, nobody is refused the write lock,
\* in whatever order it is granted, if busy_timeout (db.make_engine) is a tick or more for
\* each request and each of the feed's instruments.
THEOREM OrdinaryWorkLocksNobodyOut == ASSUME Patient PROVE Spec => []OnlySlowWorkLocksOut
<1>1. Init => IInv
  BY InitIInv
<1>2. IInv /\ [Next]_vars => IInv'
  BY NextKeepsIInv
<1>3. IInv => OnlySlowWorkLocksOut
  BY DEF IInv, Calm, Orderly, OnlySlowWorkLocksOut, NobodyLockedOut
<1> QED
  BY <1>1, <1>2, <1>3, PTL DEF Spec

-----------------------------------------------------------------------------
(***************************************************************************)
(* Setup: the draft, the connection, the file and the forms under way.     *)
(***************************************************************************)
\* The wizard is open in one page.
OnePage == \A s, t \in Tabs : s = t

\* What each of the variables is.
Steps == Early \cup Later
DraftType == [on: BOOLEAN, database: DBs \cup {Unset}, done: SUBSET Steps, want_2fa: BOOLEAN,
              timezone: Zones \cup {Unset}, off: BOOLEAN]
FileType == [there: BOOLEAN, db: DBs \cup {Unset}, zone: Zones \cup {Unset}, off: BOOLEAN]
TabType == [pc: {"idle", "connected"} \cup Early, db: DBs \cup {Unset}]

StateOK == /\ env \in DBs \cup {Unset} /\ file \in FileType /\ accounts \in [DBs -> Nat]
           /\ connected \in DBs \cup {Unset} /\ session \in DBs \cup {Unset}
           /\ zone \in Zones /\ off \in BOOLEAN
           /\ draft \in DraftType /\ tab \in [Tabs -> TabType]

\* A file that is not there says nothing.
FileOK == ~file.there => file.db = Unset /\ file.zone = Unset /\ ~file.off

\* A stopped process keeps nothing in memory.
StopOK == ~up => connected = Unset /\ ~draft.on /\ ~stopping /\ \A t \in Tabs : tab[t] = Idle

\* A form under way is one the wizard let through: the database it connected to is the one
\* being served, and nobody has an account in it yet.
FormOK(t) ==
    /\ tab[t].pc \in {"database", "connected"} => tab[t].db \in DBs
    /\ tab[t].pc = "connected" => tab[t].db = connected
    /\ tab[t].pc = "account" => tab[t].db = connected /\ is_ready
    /\ tab[t].pc \in Early => ~_accounts_exist

FormsOK == \A t \in Tabs : FormOK(t)

\* A page is between connecting to its database and filling it in.
Connecting == \E t \in Tabs : tab[t].pc = "connected"

\* What the draft chose is what is served, but for a page still connecting.
DraftOK ==
    /\ ~draft.on => draft.database = Unset /\ draft.timezone = Unset
    /\ draft.database \in {Unset, connected} \/ Connecting

\* Where neither the environment nor the file names the one served, the draft chose it.
Served == up /\ writable /\ connected \notin {env, file.db}
              => draft.database = connected \/ Connecting

\* The timezone in use is the draft's choice, or else the file's.
ZoneOK == up /\ writable => zone = IF draft.timezone = Unset THEN Loaded ELSE draft.timezone

\* The inductive invariant.
SetupInv == StateOK /\ FileOK /\ StopOK /\ FormsOK /\ DraftOK /\ Served /\ ZoneOK

-----------------------------------------------------------------------------
(***************************************************************************)
(* One lemma a form; those that only fill in the draft share one.          *)
(***************************************************************************)
LEMMA SetupStarts ==
    ASSUME SetupInit
    PROVE  SetupInv
<1>1. StateOK
  <2>1. file \in FileType /\ env \in DBs \cup {Unset} /\ file.db = Unset
    BY SetupAssumption DEF SetupInit, FileType
  <2>2. connected \in DBs \cup {Unset} /\ zone \in Zones /\ off \in BOOLEAN
    <3>1. Source \in DBs \cup {Unset} /\ Loaded \in Zones /\ file.off \in BOOLEAN
      BY <2>1, SetupAssumption DEF FileType, Source, Loaded
    <3> QED
      BY <3>1 DEF SetupInit
  <2>3. draft \in DraftType
    <3>1. NoDraft \in DraftType
      BY DEF NoDraft, DraftType
    <3> QED
      BY <3>1 DEF SetupInit
  <2>4. tab \in [Tabs -> TabType] /\ session \in DBs \cup {Unset}
    BY DEF SetupInit, TabType, Idle
  <2>5. accounts \in [DBs -> Nat]
    BY DEF SetupInit
  <2> QED
    BY <2>1, <2>2, <2>3, <2>4, <2>5 DEF StateOK
<1>2. FileOK
  BY SetupAssumption DEF SetupInit, FileOK
<1>3. StopOK /\ DraftOK /\ Served
  BY DEF SetupInit, StopOK, DraftOK, Served, NoDraft, Source
<1>3a. FormsOK
  BY DEF SetupInit, FormsOK, FormOK, Idle, Early
<1>4. ZoneOK
  BY DEF SetupInit, ZoneOK, NoDraft
<1> QED
  BY <1>1, <1>2, <1>3, <1>3a, <1>4 DEF SetupInv

\* The draft as the steps leave it.
LEMMA Drafts ==
    ASSUME NEW d \in DraftType
    PROVE  /\ Drafted(d) \in DraftType /\ Drafted(d).on
           /\ Drafted(d).database = d.database /\ Drafted(d).timezone = d.timezone
BY DEF DraftType, Drafted

LEMMA Completes ==
    ASSUME StateOK, NEW step \in Steps
    PROVE  /\ completed(step) \in DraftType /\ completed(step).on
           /\ completed(step).database = draft.database
           /\ completed(step).timezone = draft.timezone
<1> DEFINE d == Drafted(draft)
<1>1. d \in DraftType /\ d.on /\ d.database = draft.database /\ d.timezone = draft.timezone
  BY Drafts DEF StateOK
<1>2. completed(step) = [d EXCEPT !.done = @ \cup {step}]
  BY DEF completed
<1> HIDE DEF d
<1> QED
  BY <1>1, <1>2 DEF DraftType

\* A form fills in the draft and changes nothing else that counts here.
LEMMA DraftFilled ==
    ASSUME SetupInv, up, draft' \in DraftType, draft'.on,
           draft'.database = draft.database, draft'.timezone = draft.timezone,
           UNCHANGED <<disk, accounts, up, connected, settings, tab>>, session' = session
    PROVE  SetupInv'
<1> USE DEF disk, settings
<1>1. StateOK'
  BY DEF SetupInv, StateOK
<1>2. FileOK' /\ StopOK'
  BY DEF SetupInv, FileOK, StopOK
<1>3. FormsOK'
  BY DEF SetupInv, FormsOK, FormOK, is_ready, _accounts_exist
<1>4. DraftOK' /\ Served'
  BY DEF SetupInv, DraftOK, Served, Connecting
<1>5. ZoneOK'
  BY DEF SetupInv, ZoneOK, Loaded
<1> QED
  BY <1>1, <1>2, <1>3, <1>4, <1>5 DEF SetupInv

\* A page's form ends: the page is idle.
LEMMA FormEnds ==
    ASSUME SetupInv, OnePage, up, NEW t \in Tabs, tab[t].pc # "connected",
           NEW d \in DraftType, d.on, d.database = draft.database, d.timezone = draft.timezone,
           Ends(t, d), UNCHANGED accounts, session' = session
    PROVE  SetupInv'
<1> USE DEF Ends, disk, settings
<1>0. tab' \in [Tabs -> TabType] /\ \A s \in Tabs : tab'[s] = Idle
  BY DEF SetupInv, StateOK, OnePage, TabType, Idle
<1>1. StateOK'
  BY <1>0 DEF SetupInv, StateOK
<1>2. FileOK' /\ StopOK'
  BY DEF SetupInv, FileOK, StopOK
<1>3. FormsOK'
  BY <1>0 DEF FormsOK, FormOK, Idle, Early
<1>3a. ~Connecting
  BY DEF OnePage, Connecting
<1>4. DraftOK' /\ Served'
  BY <1>3a DEF SetupInv, DraftOK, Served
<1>5. ZoneOK'
  BY DEF SetupInv, ZoneOK, Loaded
<1> QED
  BY <1>1, <1>2, <1>3, <1>4, <1>5 DEF SetupInv

\* Only a process that runs has forms under way.
LEMMA OnlyUp ==
    ASSUME SetupInv, NEW t \in Tabs, tab[t].pc # "idle"
    PROVE  up
BY DEF SetupInv, StopOK, Idle

LEMMA PressKeeps ==
    ASSUME SetupInv, NEW t \in Tabs, Press(t)
    PROVE  SetupInv'
<1> USE DEF disk, settings
<1>1. up /\ tab[t] = Idle
  BY DEF Press, Enter
<1>2. PICK step \in Early, db \in DBs \cup {Unset} :
        /\ _wizard_step(step) = "page" /\ tab' = [tab EXCEPT ![t] = [pc |-> step, db |-> db]]
        /\ step = "database" => db \in DBs
        /\ step = "account" => db = connected
  BY DEF Press, Enter, SetupInv, StateOK, Early
<1>3. ~_accounts_exist /\ (step = "account" => is_ready)
  BY <1>2 DEF _wizard_step
<1>4. /\ tab' \in [Tabs -> TabType] /\ tab'[t].pc = step /\ tab'[t].db = db
      /\ \A s \in Tabs \ {t} : tab'[s] = tab[s]
  BY <1>2 DEF SetupInv, StateOK, TabType
<1>5. /\ UNCHANGED <<disk, accounts, up, connected, draft, settings, stopping>>
      /\ session' = session
  BY DEF Press
<1>6. StateOK'
  BY <1>4, <1>5 DEF SetupInv, StateOK
<1>7. FileOK' /\ StopOK'
  BY <1>1, <1>5 DEF SetupInv, FileOK, StopOK
<1>8. FormOK(t)'
  BY <1>2, <1>3, <1>4, <1>5 DEF FormOK, is_ready, _accounts_exist, Early
<1>9. FormsOK'
  <2>1. ASSUME NEW s \in Tabs \ {t} PROVE FormOK(s)'
    BY <1>4, <1>5, <2>1 DEF SetupInv, FormsOK, FormOK, is_ready, _accounts_exist
  <2> QED
    BY <1>8, <2>1 DEF FormsOK
<1>10. Connecting => Connecting'
  <2>1. ASSUME NEW s \in Tabs, tab[s].pc = "connected" PROVE tab'[s].pc = "connected"
    BY <1>1, <1>4, <2>1 DEF Idle
  <2> QED
    BY <2>1 DEF Connecting
<1>11. DraftOK' /\ Served'
  BY <1>5, <1>10 DEF SetupInv, DraftOK, Served
<1>12. ZoneOK'
  BY <1>5 DEF SetupInv, ZoneOK, Loaded
<1> QED
  BY <1>6, <1>7, <1>9, <1>11, <1>12 DEF SetupInv

LEMMA ConnectKeeps ==
    ASSUME SetupInv, OnePage, NEW t \in Tabs, connect(t)
    PROVE  SetupInv'
<1> USE DEF disk, settings
<1>1. up /\ tab[t].pc = "database" /\ tab[t].db \in DBs
  BY OnlyUp DEF connect, SetupInv, FormsOK, FormOK
<1>2. /\ UNCHANGED <<disk, accounts, up, draft, settings, stopping>> /\ session' = session
      /\ connected' = tab[t].db
  BY DEF connect
<1>3. tab' \in [Tabs -> TabType] /\ tab'[t].pc = "connected" /\ tab'[t].db = tab[t].db
  BY DEF connect, SetupInv, StateOK, TabType
<1>4. \A s \in Tabs : s = t
  BY DEF OnePage
<1>5. StateOK'
  BY <1>1, <1>2, <1>3 DEF SetupInv, StateOK
<1>6. FileOK' /\ StopOK'
  BY <1>1, <1>2 DEF SetupInv, FileOK, StopOK
<1>7. FormsOK'
  BY <1>1, <1>2, <1>3, <1>4 DEF FormsOK, FormOK, Early
<1>8. Connecting'
  BY <1>3 DEF Connecting
<1>9. DraftOK' /\ Served'
  BY <1>1, <1>2, <1>8 DEF SetupInv, DraftOK, Served
<1>10. ZoneOK'
  BY <1>2 DEF SetupInv, ZoneOK, Loaded
<1> QED
  BY <1>5, <1>6, <1>7, <1>9, <1>10 DEF SetupInv

LEMMA SaveKeeps ==
    ASSUME SetupInv, OnePage, NEW t \in Tabs, setup_database_save(t)
    PROVE  SetupInv'
<1> USE DEF disk, settings
<1> DEFINE d == [completed("database") EXCEPT !.database = tab[t].db]
<1>1. /\ up /\ tab[t].pc = "connected" /\ tab[t].db \in DBs
      /\ tab[t].db = connected
  BY OnlyUp DEF setup_database_save, SetupInv, FormsOK, FormOK
<1>2. d \in DraftType /\ d.on /\ d.database = connected /\ d.timezone = draft.timezone
  <2> DEFINE e == completed("database")
  <2>1. e \in DraftType /\ e.on /\ e.timezone = draft.timezone
    BY Completes DEF SetupInv, Steps, Early
  <2> HIDE DEF e
  <2>2. d = [e EXCEPT !.database = connected]
    BY <1>1 DEF e
  <2> HIDE DEF d
  <2> QED
    BY <1>1, <2>1, <2>2 DEF DraftType
<1>3. /\ UNCHANGED <<disk, accounts, up, connected, settings, stopping>> /\ session' = session
      /\ draft' = d
  BY DEF setup_database_save, Ends
<1> HIDE DEF d
<1>4. tab' \in [Tabs -> TabType] /\ \A s \in Tabs : tab'[s] = Idle
  BY DEF setup_database_save, Ends, SetupInv, StateOK, OnePage, TabType, Idle
<1>5. StateOK'
  BY <1>2, <1>3, <1>4 DEF SetupInv, StateOK
<1>6. FileOK' /\ StopOK'
  BY <1>1, <1>3 DEF SetupInv, FileOK, StopOK
<1>7. FormsOK'
  BY <1>4 DEF FormsOK, FormOK, Idle, Early
<1>8. DraftOK' /\ Served'
  BY <1>1, <1>2, <1>3 DEF DraftOK, Served
<1>9. ZoneOK'
  BY <1>2, <1>3 DEF SetupInv, ZoneOK, Loaded
<1> QED
  BY <1>5, <1>6, <1>7, <1>8, <1>9 DEF SetupInv

\* The account goes into the database being served, and shuts the first steps.
LEMMA AccountKeeps ==
    ASSUME SetupInv, OnePage, NEW t \in Tabs, setup_account_create(t)
    PROVE  SetupInv'
<1>1. up /\ tab[t].pc = "account" /\ tab[t].db = connected /\ connected \in DBs
  BY OnlyUp DEF setup_account_create, SetupInv, FormsOK, FormOK, is_ready, StateOK
<1>2. PICK want \in BOOLEAN :
        \/ /\ accounts' = [accounts EXCEPT ![connected] = @ + 1] /\ session' = connected
           /\ Ends(t, [completed("account") EXCEPT !.want_2fa = want])
        \/ /\ Ends(t, [Drafted(draft) EXCEPT !.want_2fa = want])
           /\ UNCHANGED <<accounts, session>>
  BY <1>1 DEF setup_account_create
<1> DEFINE c == completed("account")
           d == Drafted(draft)
<1>3. /\ c \in DraftType /\ c.on /\ c.database = draft.database /\ c.timezone = draft.timezone
      /\ d \in DraftType /\ d.on /\ d.database = draft.database /\ d.timezone = draft.timezone
  BY Completes, Drafts DEF SetupInv, StateOK, Steps, Early
<1> HIDE DEF c, d
<1>4. PICK e \in DraftType : /\ e.on /\ e.database = draft.database /\ e.timezone = draft.timezone
                             /\ Ends(t, e)
  <2> DEFINE x == [c EXCEPT !.want_2fa = want]
             y == [d EXCEPT !.want_2fa = want]
  <2>1. /\ x \in DraftType /\ x.on /\ x.database = draft.database /\ x.timezone = draft.timezone
        /\ y \in DraftType /\ y.on /\ y.database = draft.database /\ y.timezone = draft.timezone
    BY <1>3 DEF DraftType
  <2>2. Ends(t, x) \/ Ends(t, y)
    BY <1>2 DEF c, d
  <2> HIDE DEF x, y
  <2> QED
    BY <2>1, <2>2
<1>5. accounts' \in [DBs -> Nat] /\ session' \in DBs \cup {Unset}
  BY <1>1, <1>2 DEF SetupInv, StateOK
<1> USE DEF Ends, disk, settings
<1>6. tab' \in [Tabs -> TabType] /\ \A s \in Tabs : tab'[s] = Idle
  BY <1>4 DEF SetupInv, StateOK, OnePage, TabType, Idle
<1>7. StateOK'
  BY <1>4, <1>5, <1>6 DEF SetupInv, StateOK
<1>8. FileOK' /\ StopOK'
  BY <1>1, <1>4 DEF SetupInv, FileOK, StopOK
<1>9. FormsOK'
  BY <1>6 DEF FormsOK, FormOK, Idle, Early
<1>10. ~Connecting
  BY <1>1 DEF OnePage, Connecting
<1>11. DraftOK' /\ Served'
  BY <1>4, <1>10 DEF SetupInv, DraftOK, Served
<1>12. ZoneOK'
  BY <1>4 DEF SetupInv, ZoneOK, Loaded
<1> QED
  BY <1>7, <1>8, <1>9, <1>11, <1>12 DEF SetupInv

\* Filling in the timezone applies it as well.
LEMMA PortfolioKeeps ==
    ASSUME SetupInv, NEW z \in Zones, setup_portfolio_save(z)
    PROVE  SetupInv'
<1> USE DEF disk
<1> DEFINE c == completed("portfolio")
           d == [c EXCEPT !.timezone = z]
<1>1. c \in DraftType /\ c.on /\ c.database = draft.database
  BY Completes DEF SetupInv, Steps, Later
<1>2. draft' = d /\ zone' = z /\ UNCHANGED <<disk, accounts, up, connected, tab, off, stopping>>
      /\ session' = session /\ up
  BY DEF setup_portfolio_save, Fills
<1> HIDE DEF c
<1>3. d \in DraftType /\ d.on /\ d.database = draft.database /\ d.timezone = z
  BY <1>1 DEF DraftType
<1> HIDE DEF d
<1>4. StateOK'
  BY <1>2, <1>3 DEF SetupInv, StateOK
<1>5. FileOK' /\ StopOK'
  BY <1>2 DEF SetupInv, FileOK, StopOK
<1>6. FormsOK'
  BY <1>2 DEF SetupInv, FormsOK, FormOK, is_ready, _accounts_exist
<1>7. DraftOK' /\ Served'
  BY <1>2, <1>3 DEF SetupInv, DraftOK, Served, Connecting
<1>8. ZoneOK'
  BY <1>2, <1>3, SetupAssumption DEF ZoneOK
<1> QED
  BY <1>4, <1>5, <1>6, <1>7, <1>8 DEF SetupInv

\* The finish writes what the draft chose, and what it did not choose stays.
LEMMA WritesTree ==
    ASSUME SetupInv, NEW f, f = write_tree(config_values(draft))
    PROVE  /\ f \in FileType /\ f.there
           /\ f.db = IF draft.database # Unset THEN draft.database ELSE file.db
           /\ f.zone = IF draft.timezone # Unset THEN draft.timezone
                       ELSE IF file.there THEN file.zone ELSE Default
<1> DEFINE base == Base
           v == config_values(draft)
           d == IF v.db # Unset THEN v.db ELSE base.db
           z == IF v.zone # Unset THEN v.zone ELSE base.zone
           o == v.off \/ base.off
<1>1. /\ base \in FileType /\ base.there
      /\ base.db = file.db /\ base.zone = IF file.there THEN file.zone ELSE Default
  BY SetupAssumption DEF SetupInv, StateOK, FileOK, FileType, Base
<1>2. v.db = draft.database /\ v.zone = draft.timezone /\ v.off = draft.off
  BY DEF config_values
<1>3. f = [base EXCEPT !.db = d, !.zone = z, !.off = o]
  BY DEF write_tree
<1>4. /\ d \in DBs \cup {Unset} /\ z \in Zones \cup {Unset} /\ o \in BOOLEAN
  BY <1>1, <1>2 DEF SetupInv, StateOK, DraftType, FileType
<1>5. /\ d = IF draft.database # Unset THEN draft.database ELSE file.db
      /\ z = IF draft.timezone # Unset THEN draft.timezone
             ELSE IF file.there THEN file.zone ELSE Default
  BY <1>1, <1>2
<1> HIDE DEF base, v, d, z, o
<1>6. f \in FileType /\ f.there /\ f.db = d /\ f.zone = z
  BY <1>1, <1>3, <1>4 DEF FileType
<1> QED
  BY <1>5, <1>6

\* The finish leaves what a restart would find.
LEMMA FinishKeeps ==
    ASSUME SetupInv, setup_finish_save
    PROVE  SetupInv'
<1> DEFINE f == write_tree(config_values(draft))
<1>1. /\ up /\ connected # Unset /\ file' = IF writable THEN f ELSE file
      /\ draft' = NoDraft
      /\ UNCHANGED <<env, writable, accounts, up, connected, zone, off, tab, session>>
  <2>1. _wizard_step("finish") = "page" => is_ready
    BY DEF _wizard_step, Early, SignedIn, skipped
  <2> QED
    BY <2>1 DEF setup_finish_save, creatable, settings, is_ready, disk
<1>2. /\ f \in FileType /\ f.there
      /\ f.db = IF draft.database # Unset THEN draft.database ELSE file.db
      /\ f.zone = IF draft.timezone # Unset THEN draft.timezone
                  ELSE IF file.there THEN file.zone ELSE Default
  BY WritesTree
<1> HIDE DEF f
<1>3. /\ draft' \in DraftType /\ ~draft'.on /\ draft'.database = Unset
      /\ draft'.timezone = Unset
  BY <1>1 DEF NoDraft, DraftType
<1>4. StateOK'
  BY <1>1, <1>2, <1>3 DEF SetupInv, StateOK
<1>5. FileOK' /\ StopOK'
  BY <1>1, <1>2 DEF SetupInv, FileOK, StopOK
<1>6. FormsOK'
  BY <1>1 DEF SetupInv, FormsOK, FormOK, is_ready, _accounts_exist
<1>7. DraftOK'
  BY <1>3 DEF DraftOK
<1>8. Served'
  <2> SUFFICES ASSUME writable, ~Connecting PROVE connected \in {env, file'.db}
    BY <1>1 DEF Served, Connecting
  <2>1. file'.db = IF draft.database # Unset THEN draft.database ELSE file.db
    BY <1>1, <1>2
  <2>2. CASE draft.database # Unset
    BY <2>1, <2>2 DEF SetupInv, DraftOK
  <2>3. CASE draft.database = Unset
    BY <1>1, <2>1, <2>3 DEF SetupInv, Served
  <2> QED
    BY <2>2, <2>3
<1>9. ZoneOK'
  <2> SUFFICES ASSUME writable PROVE zone = Loaded'
    BY <1>1, <1>3 DEF ZoneOK
  <2>1. file'.zone = IF draft.timezone # Unset THEN draft.timezone
                     ELSE IF file.there THEN file.zone ELSE Default
    BY <1>1, <1>2
  <2>2. zone = IF draft.timezone = Unset THEN Loaded ELSE draft.timezone
    BY <1>1 DEF SetupInv, ZoneOK
  <2> QED
    BY <1>1, <2>1, <2>2, SetupAssumption DEF SetupInv, FileOK, Loaded
<1> QED
  BY <1>4, <1>5, <1>6, <1>7, <1>8, <1>9 DEF SetupInv

\* The page of the wizard that is next is never the page asked for.
LEMMA WizardSends ==
    ASSUME require_login = "page" PROVE ~draft.on /\ SignedIn
<1> SUFFICES _wizard_url # "page"
  BY DEF require_login, in_progress, is_ready
<1> DEFINE open == {n \in 1 .. Len(STEPS) : STEPS[n] \notin skipped \cup draft.done}
<1>1. /\ Len(STEPS) = 6
      /\ STEPS[1] # "page" /\ STEPS[2] # "page" /\ STEPS[3] # "page"
      /\ STEPS[4] # "page" /\ STEPS[5] # "page" /\ STEPS[6] # "page"
  BY DEF STEPS
<1>2. open \subseteq {1, 2, 3, 4, 5, 6}
  BY <1>1
<1> HIDE DEF open
<1>3. open # {} => \E n \in open : \A m \in open : n <= m
  <2>1. CASE 1 \in open
    BY <1>2, <2>1
  <2>2. CASE 1 \notin open /\ 2 \in open
    BY <1>2, <2>2
  <2>3. CASE 1 \notin open /\ 2 \notin open
    <3>1. open \subseteq {3, 4, 5, 6}
      BY <1>2, <2>3
    <3>2. CASE 3 \in open
      BY <3>1, <3>2
    <3>3. CASE 3 \notin open /\ 4 \in open
      BY <3>1, <3>3
    <3>4. CASE 3 \notin open /\ 4 \notin open
      <4>1. open \subseteq {5, 6}
        BY <3>1, <3>4
      <4>2. CASE 5 \in open
        BY <4>1, <4>2
      <4>3. CASE 5 \notin open
        <5> SUFFICES ASSUME NEW n \in open PROVE \A m \in open : n <= m
          BY Zenon
        <5>1. n = 6 /\ \A m \in open : m = 6
          BY <4>1, <4>3
        <5> QED
          BY <5>1
      <4> QED
        BY <4>2, <4>3
    <3> QED
      BY <3>2, <3>3, <3>4
  <2> QED
    BY <2>1, <2>2, <2>3
<1>4. open # {} => STEPS[CHOOSE n \in open : \A m \in open : n <= m] # "page"
  <2> DEFINE first == CHOOSE n \in open : \A m \in open : n <= m
  <2>1. open # {} => first \in open
    BY <1>3
  <2> HIDE DEF first
  <2>2. open # {} => STEPS[first] # "page"
    BY <1>1, <1>2, <2>1
  <2> QED
    BY <2>2 DEF first
<1> QED
  BY <1>4 DEF _wizard_url, next_step, open

LEMMA SettingsKeep ==
    ASSUME SetupInv, NEW z \in Zones, NEW o \in BOOLEAN, NEW restart \in BOOLEAN,
           settings_save(z, o, restart)
    PROVE  SetupInv'
<1>1. /\ up /\ writable /\ file.there /\ file' = [file EXCEPT !.zone = z, !.off = o]
      /\ zone' = z /\ off' = o /\ ~draft.on
      /\ UNCHANGED <<env, writable, accounts, up, connected, draft, tab, session>>
  BY WizardSends DEF settings_save, writability, save, apply_live
<1>2. file' \in FileType /\ file'.there /\ file'.zone = z /\ file'.db = file.db
  BY <1>1 DEF SetupInv, StateOK, FileType
<1>3. StateOK'
  BY <1>1, <1>2 DEF SetupInv, StateOK
<1>4. FileOK' /\ StopOK'
  BY <1>1, <1>2 DEF SetupInv, FileOK, StopOK
<1>5. FormsOK'
  BY <1>1 DEF SetupInv, FormsOK, FormOK, is_ready, _accounts_exist
<1>6. DraftOK' /\ Served'
  BY <1>1, <1>2 DEF SetupInv, DraftOK, Served, Connecting
<1>7. ZoneOK'
  BY <1>1, <1>2, SetupAssumption DEF SetupInv, DraftOK, ZoneOK, Loaded
<1> QED
  BY <1>3, <1>4, <1>5, <1>6, <1>7 DEF SetupInv

\* Signing in and out touches the session alone.
LEMMA SessionKeeps ==
    ASSUME SetupInv, login_submit \/ logout
    PROVE  SetupInv'
<1> USE DEF disk, settings
<1>1. /\ UNCHANGED <<disk, accounts, up, connected, draft, settings, stopping, tab>>
      /\ session' \in DBs \cup {Unset}
  BY DEF login_submit, logout, SetupInv, StateOK
<1>2. StateOK'
  BY <1>1 DEF SetupInv, StateOK
<1>3. FileOK' /\ StopOK' /\ FormsOK'
  BY <1>1 DEF SetupInv, FileOK, StopOK, FormsOK, FormOK, is_ready, _accounts_exist
<1>4. DraftOK' /\ Served' /\ ZoneOK'
  BY <1>1 DEF SetupInv, DraftOK, Served, ZoneOK, Connecting, Loaded
<1> QED
  BY <1>2, <1>3, <1>4 DEF SetupInv

LEMMA StopKeeps ==
    ASSUME SetupInv, Stops
    PROVE  SetupInv'
<1> USE DEF disk, settings
<1>1. /\ ~up' /\ connected' = Unset /\ draft' = NoDraft /\ ~stopping'
      /\ tab' = [t \in Tabs |-> Idle] /\ UNCHANGED <<disk, accounts, settings, session>>
  BY DEF Stops
<1>2. /\ draft' \in DraftType /\ ~draft'.on /\ draft'.database = Unset
      /\ draft'.timezone = Unset
  BY <1>1 DEF NoDraft, DraftType
<1>3. tab' \in [Tabs -> TabType] /\ \A t \in Tabs : tab'[t] = Idle
  BY <1>1 DEF TabType, Idle
<1>4. StateOK'
  BY <1>1, <1>2, <1>3 DEF SetupInv, StateOK
<1>5. FileOK' /\ StopOK'
  BY <1>1, <1>2, <1>3 DEF SetupInv, FileOK, StopOK
<1>6. FormsOK'
  BY <1>3 DEF FormsOK, FormOK, Idle, Early
<1>7. DraftOK' /\ Served' /\ ZoneOK'
  BY <1>1, <1>2 DEF DraftOK, Served, ZoneOK
<1> QED
  BY <1>4, <1>5, <1>6, <1>7 DEF SetupInv

LEMMA StartKeeps ==
    ASSUME SetupInv, start
    PROVE  SetupInv'
<1> USE DEF disk, settings
<1>1. /\ ~up /\ up' /\ connected' = Source /\ zone' = Loaded /\ off' = file.off
      /\ UNCHANGED <<disk, accounts, draft, stopping, tab, session>>
  BY DEF start
<1>2. /\ Source \in DBs \cup {Unset} /\ Loaded \in Zones /\ file.off \in BOOLEAN
  BY SetupAssumption DEF SetupInv, StateOK, FileType, Source, Loaded
<1>3. StateOK'
  BY <1>1, <1>2 DEF SetupInv, StateOK
<1>4. FileOK' /\ StopOK'
  BY <1>1 DEF SetupInv, FileOK, StopOK
<1>5. FormsOK'
  <2>1. \A t \in Tabs : tab'[t] = Idle
    BY <1>1 DEF SetupInv, StopOK
  <2> QED
    BY <2>1 DEF FormsOK, FormOK, Idle, Early
<1>6. DraftOK' /\ Served'
  BY <1>1 DEF SetupInv, StopOK, DraftOK, Served, Source
<1>7. ZoneOK'
  BY <1>1 DEF SetupInv, StopOK, DraftOK, ZoneOK, Loaded
<1> QED
  BY <1>3, <1>4, <1>5, <1>6, <1>7 DEF SetupInv

\* A step of the wizard that only fills in the draft.
LEMMA WizardKeeps ==
    ASSUME SetupInv,
           \/ \E step \in Steps : _wizard_page(step)
           \/ setup_recovery \/ setup_twofactor_enable \/ setup_twofactor_skip
           \/ setup_environment_save \/ \E o \in BOOLEAN : setup_features_save(o)
    PROVE  SetupInv'
<1>1. CASE \E step \in Steps : _wizard_page(step)
  <2>1. draft' = Drafted(draft) /\ up
    BY <1>1 DEF _wizard_page
  <2>2. UNCHANGED <<disk, accounts, up, connected, settings, tab>> /\ session' = session
    BY <1>1 DEF _wizard_page
  <2> QED
    BY <2>1, <2>2, Drafts, DraftFilled DEF SetupInv, StateOK
<1>2. ASSUME NEW step \in Steps, Fills(step, completed(step)), UNCHANGED settings
      PROVE  SetupInv'
  <2>1. /\ draft' = completed(step) /\ up
        /\ UNCHANGED <<disk, accounts, up, connected, tab>> /\ session' = session
    BY <1>2 DEF Fills
  <2>2. /\ draft' \in DraftType /\ draft'.on /\ draft'.database = draft.database
        /\ draft'.timezone = draft.timezone
    BY <2>1, Completes DEF SetupInv
  <2> QED
    BY <1>2, <2>1, <2>2, DraftFilled
<1>3. CASE setup_recovery \/ setup_twofactor_enable \/ setup_environment_save
  BY <1>2, <1>3 DEF setup_recovery, setup_twofactor_enable, setup_environment_save,
                    Steps, Later
<1>4. CASE setup_twofactor_skip
  <2>1. /\ draft' = [draft EXCEPT !.want_2fa = FALSE] /\ up /\ draft.on
        /\ UNCHANGED <<disk, accounts, up, connected, settings, tab>> /\ session' = session
    BY <1>4 DEF setup_twofactor_skip, Fills, _wizard_step, in_progress, Early
  <2>2. /\ draft' \in DraftType /\ draft'.on /\ draft'.database = draft.database
        /\ draft'.timezone = draft.timezone
    BY <2>1 DEF SetupInv, StateOK, DraftType
  <2> QED
    BY <2>1, <2>2, DraftFilled
<1>5. ASSUME NEW o \in BOOLEAN, setup_features_save(o) PROVE SetupInv'
  <2> DEFINE c == completed("features")
  <2>1. /\ draft' = [c EXCEPT !.off = o] /\ up
        /\ UNCHANGED <<disk, accounts, up, connected, settings, tab>> /\ session' = session
    BY <1>5 DEF setup_features_save, Fills
  <2>2. c \in DraftType /\ c.on /\ c.database = draft.database /\ c.timezone = draft.timezone
    BY Completes DEF SetupInv, Steps, Later
  <2> HIDE DEF c
  <2>3. /\ draft' \in DraftType /\ draft'.on /\ draft'.database = draft.database
        /\ draft'.timezone = draft.timezone
    BY <2>1, <2>2 DEF DraftType
  <2> QED
    BY <2>1, <2>3, DraftFilled
<1> QED
  BY <1>1, <1>3, <1>4, <1>5

LEMMA TabKeeps ==
    ASSUME SetupInv, OnePage, NEW t \in Tabs, TabStep(t)
    PROVE  SetupInv'
<1>1. CASE setup_welcome_next(t)
  <2>1. tab[t].pc = "welcome" /\ Ends(t, completed("welcome"))
        /\ UNCHANGED accounts /\ session' = session
    BY <1>1 DEF setup_welcome_next
  <2>2. up
    BY <2>1, OnlyUp
  <2> DEFINE d == completed("welcome")
  <2>3. d \in DraftType /\ d.on /\ d.database = draft.database /\ d.timezone = draft.timezone
    BY Completes DEF SetupInv, Steps, Early
  <2> HIDE DEF d
  <2>4. Ends(t, d)
    BY <2>1 DEF d
  <2> QED
    BY <2>1, <2>2, <2>3, <2>4, FormEnds
<1>2. CASE setup_database_test(t)
  <2>1. tab[t].pc = "database" /\ Ends(t, Drafted(draft))
        /\ UNCHANGED accounts /\ session' = session
    BY <1>2 DEF setup_database_test
  <2>2. up
    BY <2>1, OnlyUp
  <2> DEFINE d == Drafted(draft)
  <2>3. d \in DraftType /\ d.on /\ d.database = draft.database /\ d.timezone = draft.timezone
    BY Drafts DEF SetupInv, StateOK
  <2> HIDE DEF d
  <2>4. Ends(t, d)
    BY <2>1 DEF d
  <2> QED
    BY <2>1, <2>2, <2>3, <2>4, FormEnds
<1> QED
  BY <1>1, <1>2, PressKeeps, ConnectKeeps, SaveKeeps, AccountKeeps DEF TabStep

\* Every step keeps the invariant.
LEMMA SetupKeeps ==
    ASSUME OnePage, SetupInv, [SetupNext]_SetupVars
    PROVE  SetupInv'
<1>1. CASE UNCHANGED SetupVars
  <2> USE <1>1 DEF SetupVars, disk, settings
  <2>1. StateOK' /\ FileOK' /\ StopOK'
    BY DEF SetupInv, StateOK, FileOK, StopOK
  <2>2. FormsOK' /\ DraftOK'
    BY DEF SetupInv, FormsOK, FormOK, is_ready, _accounts_exist, DraftOK, Connecting
  <2>3. Served' /\ ZoneOK'
    BY DEF SetupInv, Served, ZoneOK, Connecting, Loaded
  <2> QED
    BY <2>1, <2>2, <2>3 DEF SetupInv
<1>2. CASE SetupNext
  BY <1>2, TabKeeps, WizardKeeps, PortfolioKeeps, FinishKeeps, SettingsKeep, SessionKeeps,
     StopKeeps, StartKeeps DEF SetupNext, Steps
<1> QED
  BY <1>1, <1>2

-----------------------------------------------------------------------------
(***************************************************************************)
(* What follows.                                                           *)
(***************************************************************************)
\* With the wizard open in one page, whatever the environment names and whichever database
\* a form connects to instead (setup_database_save asks for neither): a served database
\* that neither the environment nor the file names is the draft's choice, a form under way
\* is of the one served, and the timezone in use is the draft's or the file's.
THEOREM SetupInvariant ==
    ASSUME OnePage
    PROVE  SetupSpec => []SetupInv
<1>1. SetupInit => SetupInv
  BY SetupStarts
<1>2. SetupInv /\ [SetupNext]_SetupVars => SetupInv'
  BY SetupKeeps
<1> QED
  BY <1>1, <1>2, PTL DEF SetupSpec

\* The invariant does not need these to be what they are.
Flags == writable \in BOOLEAN /\ up \in BOOLEAN /\ stopping \in BOOLEAN

LEMMA FlagsKeep ==
    ASSUME Flags, [SetupNext]_SetupVars
    PROVE  Flags'
<1> USE DEF disk, settings
<1>1. CASE UNCHANGED SetupVars
  BY <1>1, Zenon DEF SetupVars, Flags
<1>2. ASSUME NEW t \in Tabs, TabStep(t) PROVE Flags'
  <2>1. writable' = writable /\ up' = up /\ stopping' = stopping
    BY <1>2, Zenon DEF TabStep, Press, setup_welcome_next, setup_database_test, connect,
                setup_database_save, setup_account_create, Ends
  <2> QED
    BY <2>1, Zenon DEF Flags
<1>3. ASSUME NEW step, _wizard_page(step) PROVE Flags'
  BY <1>3, Zenon DEF _wizard_page, Flags
<1>4. CASE \/ setup_recovery \/ setup_twofactor_enable \/ setup_twofactor_skip
           \/ setup_environment_save \/ \E z \in Zones : setup_portfolio_save(z)
           \/ \E o \in BOOLEAN : setup_features_save(o)
  BY <1>4, Zenon DEF setup_recovery, setup_twofactor_enable, setup_twofactor_skip,
     setup_environment_save, setup_portfolio_save, setup_features_save, Fills, Flags
<1>5. CASE setup_finish_save \/ \E z \in Zones, o, restart \in BOOLEAN : settings_save(z, o, restart)
  <2>1. PICK more : writable' = writable /\ up' = up /\ stopping' = (stopping \/ more)
    BY <1>5, Zenon DEF setup_finish_save, settings_save
  <2> QED
    BY <2>1, Zenon DEF Flags
<1>6. CASE login_submit \/ logout
  BY <1>6, Zenon DEF login_submit, logout, Flags
<1>7. CASE Stops \/ start
  BY <1>7, Zenon DEF Stops, start, Flags
<1> QED
  BY <1>1, <1>2, <1>3, <1>4, <1>5, <1>6, <1>7 DEF SetupNext

\* The variables are of their types, whatever is tested, saved, finished, changed in the
\* settings, stopped or started.
THEOREM SetupTypeCorrect ==
    ASSUME OnePage
    PROVE  SetupSpec => []SetupTypeOK
<1>1. SetupInit => Flags
  BY Zenon DEF SetupInit, Flags
<1>2. Flags /\ [SetupNext]_SetupVars => Flags'
  BY FlagsKeep
<1>3. SetupInv /\ Flags => SetupTypeOK
  <2> SUFFICES ASSUME SetupInv, Flags PROVE SetupTypeOK
    OBVIOUS
  <2>1. StateOK /\ StopOK /\ FormsOK
    BY DEF SetupInv
  <2>2. \A t \in Tabs : /\ tab[t].pc \in {"idle", "connected"} \cup Early
                        /\ tab[t].pc = "account" => tab[t].db \in DBs
    BY <2>1 DEF StateOK, TabType, FormsOK, FormOK, is_ready
  <2>3. /\ env \in DBs \cup {Unset} /\ writable \in BOOLEAN /\ up \in BOOLEAN
        /\ file \in [there: BOOLEAN, db: DBs \cup {Unset}, zone: Zones \cup {Unset},
                     off: BOOLEAN]
        /\ connected \in DBs \cup {Unset} /\ session \in DBs \cup {Unset}
        /\ zone \in Zones /\ off \in BOOLEAN /\ stopping \in BOOLEAN
    BY <2>1, Zenon DEF StateOK, FileType, Flags
  <2>4. /\ DOMAIN accounts = DBs /\ \A d \in DBs : accounts[d] \in Nat
        /\ draft.database \in DBs \cup {Unset} /\ draft.done \subseteq Early \cup Later
        /\ draft.timezone \in Zones \cup {Unset} /\ {draft.on, draft.want_2fa} \subseteq BOOLEAN
    BY <2>1 DEF StateOK, DraftType, Steps
  <2>5. ~up => connected = Unset /\ ~in_progress /\ ~stopping
    BY <2>1 DEF StopOK, in_progress
  <2> QED
    BY <2>2, <2>3, <2>4, <2>5, Zenon DEF SetupTypeOK
<1> QED
  BY <1>1, <1>2, <1>3, SetupInvariant, PTL DEF SetupSpec

\* With no form and no draft under way a restart finds the timezone in use and, unless the
\* environment names a database, the one being served: connecting, the draft and the finish
\* (write_tree) have written them.  Where the environment names one, the database served
\* is that or the file's.
THEOREM RestartIsHarmless ==
    ASSUME OnePage
    PROVE  SetupSpec => []RestartFindsTheSame
<1>1. SetupInv => RestartFindsTheSame
  <2> SUFFICES ASSUME SetupInv, Quiet, ~draft.on, is_ready, writable
               PROVE  /\ env = Unset => Source = connected
                      /\ env # Unset => connected \in {env, file.db}
                      /\ Loaded = zone
    BY DEF RestartFindsTheSame, in_progress
  <2>1. up /\ ~Connecting
    BY DEF Quiet, Connecting, Idle
  <2>2. draft.database = Unset /\ draft.timezone = Unset
    BY DEF SetupInv, DraftOK
  <2>3. Loaded = zone
    BY <2>1, <2>2 DEF SetupInv, ZoneOK
  <2>4. connected \in {env, file.db} /\ connected # Unset
    BY <2>1, <2>2 DEF SetupInv, Served, is_ready
  <2> QED
    BY <2>3, <2>4 DEF Source
<1> QED
  BY <1>1, SetupInvariant, PTL

\* Nothing completes where the first steps are shut.
LEMMA EarlyIsShut ==
    ASSUME _accounts_exist, NEW step \in Steps, _wizard_step(step) = "page"
    PROVE  step \notin Early /\ draft.on
BY DEF _wizard_step, in_progress

\* What the account's page answers with is the wizard's own gate.
LEMMA OnlyPagesAnswer ==
    ASSUME NEW step \in Steps, Answer(step) = "page"
    PROVE  _wizard_step(step) = "page"
BY DEF Answer, Steps, Early, Later

\* What SetupOnce says of one step.
ServedStays ==
    /\ _accounts_exist /\ up' =>
         /\ connected' = connected /\ accounts'[connected] = accounts[connected]
         /\ Quiet /\ ~draft.on => ~draft'.on

LEMMA TabStays ==
    ASSUME SetupInv, OnePage, _accounts_exist, NEW t \in Tabs, TabStep(t)
    PROVE  /\ connected' = connected /\ accounts' = accounts
           /\ Quiet => draft' = draft
<1> USE DEF disk, settings
<1>1. tab[t].pc \notin Early
  BY DEF SetupInv, FormsOK, FormOK
<1>2. CASE Press(t)
  BY <1>2 DEF Press
<1>3. CASE setup_database_save(t)
  BY <1>3 DEF setup_database_save, Ends, Quiet, Idle
<1>4. CASE setup_welcome_next(t) \/ setup_database_test(t) \/ connect(t)
             \/ setup_account_create(t)
  BY <1>1, <1>4 DEF setup_welcome_next, setup_database_test, connect,
                    setup_account_create, Early
<1> QED
  BY <1>2, <1>3, <1>4 DEF TabStep

LEMMA StepStays ==
    ASSUME OnePage, SetupInv, SetupNext
    PROVE  ServedStays
<1> USE DEF disk, settings
<1> SUFFICES ASSUME _accounts_exist, up'
             PROVE  /\ connected' = connected /\ accounts' = accounts
                    /\ Quiet /\ ~draft.on => ~draft'.on
  BY DEF ServedStays
<1>1. ASSUME NEW t \in Tabs, TabStep(t)
      PROVE  /\ connected' = connected /\ accounts' = accounts
             /\ Quiet => draft' = draft
  BY <1>1, TabStays
<1>2. ASSUME NEW step \in Steps, _wizard_page(step)
      PROVE  connected' = connected /\ accounts' = accounts /\ draft.on
  BY <1>2, OnlyPagesAnswer, EarlyIsShut DEF _wizard_page
<1>3. ASSUME NEW step \in Steps, NEW d, Fills(step, d)
      PROVE  connected' = connected /\ accounts' = accounts /\ draft.on
  BY <1>3, EarlyIsShut DEF Fills
<1>4. CASE \/ setup_recovery \/ setup_twofactor_enable \/ setup_twofactor_skip
           \/ setup_environment_save \/ \E z \in Zones : setup_portfolio_save(z)
           \/ \E o \in BOOLEAN : setup_features_save(o)
  BY <1>3, <1>4, Zenon DEF setup_recovery, setup_twofactor_enable, setup_twofactor_skip,
     setup_environment_save, setup_portfolio_save, setup_features_save, Steps, Later
<1>5. CASE setup_finish_save
  BY <1>5 DEF setup_finish_save, NoDraft
<1>6. CASE \E z \in Zones, o, restart \in BOOLEAN : settings_save(z, o, restart)
  BY <1>6 DEF settings_save
<1>7. CASE login_submit \/ logout
  BY <1>7 DEF login_submit, logout
<1>8. ~Stops /\ ~start
  BY DEF Stops, start, SetupInv, StopOK, _accounts_exist, is_ready
<1> QED
  BY <1>1, <1>2, <1>4, <1>5, <1>6, <1>7, <1>8 DEF SetupNext, Steps

\* Once there are accounts, nothing short of a stop changes the database served or its
\* accounts, and no new draft is begun: _accounts_exist shuts every form that could.
THEOREM SetUpOnce ==
    ASSUME OnePage
    PROVE  SetupSpec => SetupOnce
<1>1. SetupInv /\ [SetupNext]_SetupVars => [ServedStays]_SetupVars
  BY StepStays
<1>2. [ServedStays]_SetupVars
        <=> [_accounts_exist /\ up' =>
               /\ connected' = connected
               /\ accounts'[connected] = accounts[connected]
               /\ Quiet /\ ~in_progress => ~draft'.on]_SetupVars
  BY DEF ServedStays, in_progress
<1> QED
  BY <1>1, <1>2, SetupInvariant, PTL DEF SetupSpec, SetupOnce

-----------------------------------------------------------------------------
(***************************************************************************)
(* Importer.  Numbers first: the least of a set, and counting up.          *)
(***************************************************************************)
\* A set of numbers has a least.
LEMMA LeastNat ==
    ASSUME NEW S \in SUBSET Nat, S # {}
    PROVE  \E m \in S : \A n \in S : m <= n
<1> DEFINE R == OpToRel(<, Nat)
<1>1. IsWellFoundedOn(R, Nat)
  BY NatLessThanWellFounded
<1>2. \A a, b \in Nat : a < b => <<a, b>> \in R
  BY DEF OpToRel
<1> HIDE DEF R
<1>3. PICK m \in S : \A y \in S : ~ (<<y, m>> \in R)
  BY <1>1, WFMin
<1>4. ASSUME NEW n \in S PROVE m <= n
  <2>1. m \in Nat /\ n \in Nat
    OBVIOUS
  <2>2. ~(n < m)
    BY <1>2, <1>3, <2>1
  <2> QED  BY <2>1, <2>2
<1> QED  BY <1>4

\* Every number up to n is good, if nought is and the next after a good one is.
LEMMA UpTo ==
    ASSUME NEW n \in Nat, NEW G, 0 \in G, \A k \in 0 .. n - 1 : k \in G => k + 1 \in G
    PROVE  \A k \in 0 .. n : k \in G
<1> SUFFICES ASSUME NEW k \in 0 .. n, k \notin G PROVE FALSE
  OBVIOUS
<1> DEFINE bad == {i \in 0 .. n : i \notin G}
<1>1. bad \in SUBSET Nat /\ bad # {}
  OBVIOUS
<1>2. PICK m \in bad : \A i \in bad : m <= i
  BY <1>1, LeastNat
<1>3. m \in 0 .. n /\ m \notin G /\ m # 0
  OBVIOUS
<1>4. m - 1 \in 0 .. n - 1 /\ m - 1 \notin bad
  BY <1>2, <1>3
<1> QED  BY <1>3, <1>4

-----------------------------------------------------------------------------
(***************************************************************************)
(* A finite set in order.                                                  *)
(***************************************************************************)
\* What R puts before x.
Prior(S, R, x) == {y \in S : <<y, x>> \in R}

Orders(S, R) ==
    /\ IsFiniteSet(S)
    /\ \A x \in S : <<x, x>> \notin R
    /\ \A x, y, z \in S : <<x, y>> \in R /\ <<y, z>> \in R => <<x, z>> \in R
    /\ \A x, y \in S : x = y \/ <<x, y>> \in R \/ <<y, x>> \in R

\* What is before x is less than everything.
LEMMA PriorSize ==
    ASSUME NEW S, NEW R, Orders(S, R), NEW x \in S
    PROVE  /\ IsFiniteSet(Prior(S, R, x)) /\ Cardinality(S) \in Nat
           /\ Cardinality(Prior(S, R, x)) \in 0 .. Cardinality(S) - 1
<1>1. Prior(S, R, x) \in SUBSET S /\ x \notin Prior(S, R, x) /\ IsFiniteSet(S)
  BY DEF Prior, Orders
<1>2. /\ IsFiniteSet(Prior(S, R, x)) /\ Cardinality(Prior(S, R, x)) <= Cardinality(S)
      /\ (Cardinality(S) = Cardinality(Prior(S, R, x)) => S = Prior(S, R, x))
  BY <1>1, FS_Subset
<1>3. Cardinality(Prior(S, R, x)) \in Nat /\ Cardinality(S) \in Nat
  BY <1>1, <1>2, FS_CardinalityType
<1>4. S # Prior(S, R, x)
  BY <1>1
<1> QED  BY <1>2, <1>3, <1>4

\* More is before what comes later.
LEMMA PriorLess ==
    ASSUME NEW S, NEW R, Orders(S, R), NEW x \in S, NEW y \in S, <<x, y>> \in R
    PROVE  Cardinality(Prior(S, R, x)) < Cardinality(Prior(S, R, y))
<1>1. Prior(S, R, x) \in SUBSET Prior(S, R, y)
  BY DEF Prior, Orders
<1>2. x \in Prior(S, R, y) /\ x \notin Prior(S, R, x)
  BY DEF Prior, Orders
<1>3. IsFiniteSet(Prior(S, R, y)) /\ Cardinality(Prior(S, R, y)) \in Nat
      /\ Cardinality(Prior(S, R, x)) \in Nat
  BY PriorSize
<1>4. /\ Cardinality(Prior(S, R, x)) <= Cardinality(Prior(S, R, y))
      /\ (Cardinality(Prior(S, R, y)) = Cardinality(Prior(S, R, x))
            => Prior(S, R, y) = Prior(S, R, x))
  BY <1>1, <1>3, FS_Subset
<1>5. Prior(S, R, y) # Prior(S, R, x)
  BY <1>2
<1> QED  BY <1>3, <1>4, <1>5

\* Each rank is somebody's.
LEMMA RankExists ==
    ASSUME NEW S, NEW R, Orders(S, R), NEW n \in 1 .. Cardinality(S)
    PROVE  \E x \in S : Cardinality(Prior(S, R, x)) = n - 1
<1> DEFINE c == Cardinality(S)
           T == 0 .. c - 1
           f == [x \in S |-> Cardinality(Prior(S, R, x))]
<1>1. IsFiniteSet(S) /\ c \in Nat
  BY FS_CardinalityType DEF Orders
<1>2. \A x \in S : Cardinality(Prior(S, R, x)) \in T
  BY PriorSize
<1>3. f \in [S -> T]
  BY <1>2
<1>4. ASSUME NEW x \in S, NEW y \in S, f[x] = f[y] PROVE x = y
  <2>1. Cardinality(Prior(S, R, x)) = Cardinality(Prior(S, R, y))
    BY <1>4
  <2>2. Cardinality(Prior(S, R, x)) \in Int
    BY <1>2
  <2>3. ~(<<x, y>> \in R)
    <3>1. SUFFICES ASSUME <<x, y>> \in R PROVE FALSE
      OBVIOUS
    <3>2. Cardinality(Prior(S, R, x)) < Cardinality(Prior(S, R, y))
      BY <3>1, PriorLess
    <3> QED  BY <2>1, <2>2, <3>2
  <2>4. ~(<<y, x>> \in R)
    <3>1. SUFFICES ASSUME <<y, x>> \in R PROVE FALSE
      OBVIOUS
    <3>2. Cardinality(Prior(S, R, y)) < Cardinality(Prior(S, R, x))
      BY <3>1, PriorLess
    <3> QED  BY <2>1, <2>2, <3>2
  <2> QED  BY <2>3, <2>4 DEF Orders
<1>5. f \in Injection(S, T)
  BY <1>3, <1>4 DEF Injection, IsInjective
<1>6. IsFiniteSet(T) /\ Cardinality(T) = c
  <2>1. 0 \in Int /\ c - 1 \in Int
    BY <1>1
  <2>2. IsFiniteSet(0 .. c - 1) /\ Cardinality(0 .. c - 1) = IF 0 > c - 1 THEN 0 ELSE c - 1 - 0 + 1
    BY <2>1, FS_Interval, Zenon
  <2>3. (IF 0 > c - 1 THEN 0 ELSE c - 1 - 0 + 1) = c
    BY <1>1
  <2> QED  BY <2>2, <2>3
<1>7. f \in Surjection(S, T)
  BY <1>5, <1>6, FS_Injection
<1>8. n - 1 \in T
  BY <1>1
<1>9. PICK x \in S : f[x] = n - 1
  BY <1>7, <1>8 DEF Surjection
<1> QED  BY <1>9

\* InOrder lists the set in its order, each element once.
Picks(order, S, R) ==
    /\ order = [n \in 1 .. Cardinality(S) |-> order[n]]
    /\ \A n \in 1 .. Cardinality(S) :
          (\E x \in S : Cardinality(Prior(S, R, x)) = n - 1)
             => order[n] \in S /\ Cardinality(Prior(S, R, order[n])) = n - 1

\* What picks each rank lists the set in its order, and leaves nothing out.
LEMMA Ranked ==
    ASSUME NEW S, NEW R, NEW order, Orders(S, R), Picks(order, S, R)
    PROVE  /\ Cardinality(S) \in Nat
           /\ order \in [1 .. Cardinality(S) -> S]
           /\ \A i, j \in 1 .. Cardinality(S) : i < j => <<order[i], order[j]>> \in R
           /\ \A x \in S : \E n \in 1 .. Cardinality(S) : order[n] = x
<1>1. Cardinality(S) \in Nat
  BY FS_CardinalityType DEF Orders
<1>2. ASSUME NEW n \in 1 .. Cardinality(S)
      PROVE  order[n] \in S /\ Cardinality(Prior(S, R, order[n])) = n - 1
  <2>1. \E x \in S : Cardinality(Prior(S, R, x)) = n - 1
    BY RankExists
  <2> QED  BY <2>1 DEF Picks
<1>3. order \in [1 .. Cardinality(S) -> S]
  BY <1>2 DEF Picks
<1>4. ASSUME NEW i \in 1 .. Cardinality(S), NEW j \in 1 .. Cardinality(S), i < j
      PROVE  <<order[i], order[j]>> \in R
  <2>1. order[i] \in S /\ order[j] \in S
    BY <1>2
  <2>2. Cardinality(Prior(S, R, order[i])) = i - 1 /\ Cardinality(Prior(S, R, order[j])) = j - 1
    BY <1>2
  <2>3. order[i] # order[j]
    <3>1. SUFFICES ASSUME order[i] = order[j] PROVE FALSE
      OBVIOUS
    <3>2. i - 1 = j - 1
      BY <2>2, <3>1, Zenon
    <3> QED  BY <1>1, <1>4, <3>2
  <2>4. ~(<<order[j], order[i]>> \in R)
    <3>1. SUFFICES ASSUME <<order[j], order[i]>> \in R PROVE FALSE
      OBVIOUS
    <3>2. Cardinality(Prior(S, R, order[j])) < Cardinality(Prior(S, R, order[i]))
      BY <2>1, <3>1, PriorLess
    <3> QED  BY <1>1, <1>4, <2>2, <3>2
  <2> QED  BY <2>1, <2>3, <2>4 DEF Orders
<1>5. ASSUME NEW x \in S
      PROVE  \E n \in 1 .. Cardinality(S) : order[n] = x
  <2> DEFINE n == Cardinality(Prior(S, R, x)) + 1
  <2>1. Cardinality(Prior(S, R, x)) \in 0 .. Cardinality(S) - 1
    BY PriorSize
  <2>2. n \in 1 .. Cardinality(S) /\ n - 1 = Cardinality(Prior(S, R, x))
    BY <1>1, <2>1
  <2> HIDE DEF n
  <2>3. order[n] \in S /\ Cardinality(Prior(S, R, order[n])) = n - 1
    BY <1>2, <2>2
  <2>4. ~(<<x, order[n]>> \in R)
    <3>1. SUFFICES ASSUME <<x, order[n]>> \in R PROVE FALSE
      OBVIOUS
    <3>2. Cardinality(Prior(S, R, x)) < Cardinality(Prior(S, R, order[n]))
      BY <2>3, <3>1, PriorLess
    <3> QED  BY <2>1, <2>2, <2>3, <3>2
  <2>5. ~(<<order[n], x>> \in R)
    <3>1. SUFFICES ASSUME <<order[n], x>> \in R PROVE FALSE
      OBVIOUS
    <3>2. Cardinality(Prior(S, R, order[n])) < Cardinality(Prior(S, R, x))
      BY <2>3, <3>1, PriorLess
    <3> QED  BY <2>1, <2>2, <2>3, <3>2
  <2>6. order[n] = x
    BY <2>3, <2>4, <2>5 DEF Orders
  <2> QED  BY <2>2, <2>6
<1> QED  BY <1>1, <1>3, <1>4, <1>5

-----------------------------------------------------------------------------
(***************************************************************************)
(* Tuples of integers, the first difference deciding.                      *)
(***************************************************************************)
\* Less, spelled out.
LEMMA Less3 ==
    ASSUME NEW a \in Int \X Int \X Int, NEW b \in Int \X Int \X Int
    PROVE  Less(a, b) <=> \/ a[1] < b[1]
                          \/ a[1] = b[1] /\ a[2] < b[2]
                          \/ a[1] = b[1] /\ a[2] = b[2] /\ a[3] < b[3]
<1>1. DOMAIN a = 1 .. 3
  OBVIOUS
<1>2. 1 .. 0 = {} /\ 1 .. 1 = {1} /\ 1 .. 2 = {1, 2} /\ 1 .. 3 = {1, 2, 3}
  OBVIOUS
<1>3. Less(a, b) <=> \E i \in {1, 2, 3} : a[i] < b[i] /\ \A j \in 1 .. i - 1 : a[j] = b[j]
  BY <1>1, <1>2 DEF Less
<1>4. 1 - 1 = 0 /\ 2 - 1 = 1 /\ 3 - 1 = 2
  OBVIOUS
<1> QED  BY <1>2, <1>3, <1>4

\* The first of four differences decides.
Ahead(a, b) ==
    \/ a[1] < b[1]
    \/ a[1] = b[1] /\ a[2] < b[2]
    \/ a[1] = b[1] /\ a[2] = b[2] /\ a[3] < b[3]
    \/ a[1] = b[1] /\ a[2] = b[2] /\ a[3] = b[3] /\ a[4] < b[4]

LEMMA Less4 ==
    ASSUME NEW a \in Int \X Int \X Int \X Int, NEW b \in Int \X Int \X Int \X Int
    PROVE  Less(a, b) <=> Ahead(a, b)
<1>1. DOMAIN a = 1 .. 4
  OBVIOUS
<1>2. 1 .. 0 = {} /\ 1 .. 1 = {1} /\ 1 .. 2 = {1, 2} /\ 1 .. 3 = {1, 2, 3} /\ 1 .. 4 = {1, 2, 3, 4}
  OBVIOUS
<1>3. Less(a, b) <=> \E i \in {1, 2, 3, 4} : a[i] < b[i] /\ \A j \in 1 .. i - 1 : a[j] = b[j]
  BY <1>1, <1>2 DEF Less
<1>4. 1 - 1 = 0 /\ 2 - 1 = 1 /\ 3 - 1 = 2 /\ 4 - 1 = 3
  OBVIOUS
<1> QED  BY <1>2, <1>3, <1>4 DEF Ahead

-----------------------------------------------------------------------------
(***************************************************************************)
(* The rows read from a file.                                              *)
(***************************************************************************)
\* A line that can be read makes a candidate.
LEMMA CandidateTyped ==
    ASSUME NEW line \in Lines, line.type # NULL
    PROVE  Candidate(line) \in CandidateRows
<1>1. MarketOpen \in Nat /\ MarketClose \in Nat
  BY DEF MarketOpen, MarketClose
<1>2. TradingTime(line.clock, line.listing) \in Nat \cup {NULL}
  BY <1>1 DEF TradingTime, Lines
<1> QED  BY <1>2 DEF Candidate, CandidateRows, Lines

\* The places of a file's lines, in the order of integers or of a key.
LEMMA PlacesOrder ==
    ASSUME NEW n \in Nat, NEW read \in SUBSET (1 .. n)
    PROVE  Orders(read, {p \in read \X read : p[1] < p[2]})
<1>1. IsFiniteSet(1 .. n)
  BY FS_Interval
<1>2. IsFiniteSet(read)
  BY <1>1, FS_Subset
<1> DEFINE R == {p \in read \X read : p[1] < p[2]}
<1>3. \A x, y \in read : <<x, y>> \in R <=> x < y
  OBVIOUS
<1>4. \A x \in read : x \in Nat
  OBVIOUS
<1> HIDE DEF R
<1>5. Orders(read, R)
  BY <1>2, <1>3, <1>4 DEF Orders
<1> QED  BY <1>5 DEF R

LEMMA KeysOrder ==
    ASSUME NEW read, IsFiniteSet(read), NEW key \in [read -> Int \X Int \X Int],
           \A i \in read : key[i][3] = i
    PROVE  Orders(read, {p \in read \X read : Less(key[p[1]], key[p[2]])})
<1> DEFINE R == {p \in read \X read : Less(key[p[1]], key[p[2]])}
<1>1. \A x, y \in read : <<x, y>> \in R <=> Less(key[x], key[y])
  OBVIOUS
<1> HIDE DEF R
<1>2. \A x, y \in read : Less(key[x], key[y]) <=>
          \/ key[x][1] < key[y][1]
          \/ key[x][1] = key[y][1] /\ key[x][2] < key[y][2]
          \/ key[x][1] = key[y][1] /\ key[x][2] = key[y][2] /\ key[x][3] < key[y][3]
  BY Less3
<1>3. \A x \in read : key[x][1] \in Int /\ key[x][2] \in Int /\ key[x][3] \in Int /\ key[x][3] = x
  OBVIOUS
<1>4. \A x \in read : <<x, x>> \notin R
  BY <1>1, <1>2, <1>3
<1>5. \A x, y, z \in read : <<x, y>> \in R /\ <<y, z>> \in R => <<x, z>> \in R
  <2> SUFFICES ASSUME NEW x \in read, NEW y \in read, NEW z \in read,
                      Less(key[x], key[y]), Less(key[y], key[z])
               PROVE  Less(key[x], key[z])
    BY <1>1
  <2>1. /\ key[x][1] \in Int /\ key[x][2] \in Int /\ key[x][3] \in Int
        /\ key[y][1] \in Int /\ key[y][2] \in Int /\ key[y][3] \in Int
        /\ key[z][1] \in Int /\ key[z][2] \in Int /\ key[z][3] \in Int
    BY <1>3
  <2> QED  BY <1>2, <2>1
<1>6. \A x, y \in read : x = y \/ <<x, y>> \in R \/ <<y, x>> \in R
  <2> SUFFICES ASSUME NEW x \in read, NEW y \in read, x # y
               PROVE  Less(key[x], key[y]) \/ Less(key[y], key[x])
    BY <1>1
  <2>1. /\ key[x][1] \in Int /\ key[x][2] \in Int /\ key[x][3] \in Int
        /\ key[y][1] \in Int /\ key[y][2] \in Int /\ key[y][3] \in Int
        /\ key[x][3] # key[y][3]
    BY <1>3
  <2> QED  BY <1>2, <2>1
<1>7. Orders(read, R)
  BY <1>4, <1>5, <1>6 DEF Orders
<1> QED  BY <1>7 DEF R

\* Each format, and so every file, gives a sequence of candidates.
LEMMA CsvTyped ==
    ASSUME NEW lines \in Seq(Lines)
    PROVE  CsvCandidates(lines) \in Seq(CandidateRows)
<1> DEFINE read == {i \in DOMAIN lines : CsvOutcome(lines[i]) = "candidate"}
           R == {p \in read \X read : p[1] < p[2]}
           order == InOrder(read, LAMBDA i, j : i < j)
           n == Cardinality(read)
<1>1. Len(lines) \in Nat /\ DOMAIN lines = 1 .. Len(lines) /\ \A i \in DOMAIN lines : lines[i] \in Lines
  OBVIOUS
<1>2. Orders(read, R)
  BY <1>1, PlacesOrder
<1>3. Picks(order, read, R)
  <2> DEFINE before(x) == {y \in read : y < x}
  <2>1. \A x \in read : before(x) = Prior(read, R, x)
    BY DEF Prior
  <2>2. order = [k \in 1 .. n |-> CHOOSE x \in read : Cardinality(before(x)) = k - 1]
    BY DEF InOrder
  <2> HIDE DEF read, R, order, before
  <2>3. \A k \in 1 .. n : order[k] = CHOOSE x \in read : Cardinality(before(x)) = k - 1
    BY <2>2
  <2>4. ASSUME NEW k \in 1 .. n, NEW x \in read, Cardinality(Prior(read, R, x)) = k - 1
        PROVE  order[k] \in read /\ Cardinality(Prior(read, R, order[k])) = k - 1
    <3>1. Cardinality(before(x)) = k - 1
      BY <2>1, <2>4
    <3>2. order[k] \in read /\ Cardinality(before(order[k])) = k - 1
      BY <2>3, <3>1
    <3> QED  BY <2>1, <3>2
  <2>5. order = [k \in 1 .. n |-> order[k]]
    BY <2>2
  <2>6. \A k \in 1 .. n : (\E x \in read : Cardinality(Prior(read, R, x)) = k - 1)
           => order[k] \in read /\ Cardinality(Prior(read, R, order[k])) = k - 1
    BY <2>4
  <2> QED  BY <2>5, <2>6 DEF Picks, n
<1>4. CsvCandidates(lines) = [k \in DOMAIN order |-> Candidate(lines[order[k]])]
  BY DEF CsvCandidates
<1> HIDE DEF order, R
<1>5. n \in Nat /\ order \in [1 .. n -> read]
  BY <1>2, <1>3, Ranked
<1>6. ASSUME NEW k \in 1 .. n PROVE Candidate(lines[order[k]]) \in CandidateRows
  <2>1. order[k] \in DOMAIN lines /\ CsvOutcome(lines[order[k]]) = "candidate"
    BY <1>5
  <2>2. lines[order[k]] \in Lines /\ lines[order[k]].type # NULL
    BY <1>1, <2>1 DEF CsvOutcome
  <2> QED  BY <2>2, CandidateTyped
<1> HIDE DEF n, read
<1>7. DOMAIN order = 1 .. n
  BY <1>5
<1> QED  BY <1>4, <1>5, <1>6, <1>7

LEMMA OfxTyped ==
    ASSUME NEW lines \in Seq(Lines)
    PROVE  OfxCandidates(lines) \in Seq(CandidateRows)
<1> DEFINE turn == [buy |-> 1, sell |-> 2, drp |-> 3]
           read == {i \in DOMAIN lines : OfxOutcome(lines[i]) = "candidate"}
           key == [i \in read |-> <<lines[i].day, turn[lines[i].type], i>>]
           R == {p \in read \X read : Less(key[p[1]], key[p[2]])}
           order == InOrder(read, LAMBDA i, j : Less(<<lines[i].day, turn[lines[i].type], i>>,
                                                     <<lines[j].day, turn[lines[j].type], j>>))
           n == Cardinality(read)
<1>1. Len(lines) \in Nat /\ DOMAIN lines = 1 .. Len(lines) /\ \A i \in DOMAIN lines : lines[i] \in Lines
  OBVIOUS
<1>2. ASSUME NEW i \in read
      PROVE  i \in DOMAIN lines /\ i \in Int /\ lines[i] \in Lines /\ lines[i].type \in Types
  BY <1>1 DEF OfxOutcome, Lines
<1>3. key \in [read -> Int \X Int \X Int] /\ \A i \in read : key[i][3] = i
  <2>1. \A i \in read : lines[i].day \in Int /\ turn[lines[i].type] \in Int
    BY <1>2 DEF Lines, Types
  <2> HIDE DEF turn, read
  <2> QED  BY <1>2, <2>1
<1>4. IsFiniteSet(read)
  <2>1. IsFiniteSet(1 .. Len(lines))
    BY <1>1, FS_Interval
  <2> QED  BY <1>1, <2>1, FS_Subset
<1>5. Orders(read, R)
  <2> HIDE DEF read, key
  <2> QED  BY <1>3, <1>4, KeysOrder
<1>6. Picks(order, read, R)
  <2> DEFINE before(x) == {y \in read : Less(<<lines[y].day, turn[lines[y].type], y>>,
                                          <<lines[x].day, turn[lines[x].type], x>>)}
  <2>1. \A x \in read : before(x) = Prior(read, R, x)
    <3> HIDE DEF turn, read
    <3> QED  BY DEF Prior
  <2>2. order = [k \in 1 .. n |-> CHOOSE x \in read : Cardinality(before(x)) = k - 1]
    BY DEF InOrder
  <2> HIDE DEF read, R, order, before
  <2>3. \A k \in 1 .. n : order[k] = CHOOSE x \in read : Cardinality(before(x)) = k - 1
    BY <2>2
  <2>4. ASSUME NEW k \in 1 .. n, NEW x \in read, Cardinality(Prior(read, R, x)) = k - 1
        PROVE  order[k] \in read /\ Cardinality(Prior(read, R, order[k])) = k - 1
    <3>1. Cardinality(before(x)) = k - 1
      BY <2>1, <2>4
    <3>2. order[k] \in read /\ Cardinality(before(order[k])) = k - 1
      BY <2>3, <3>1
    <3> QED  BY <2>1, <3>2
  <2>5. order = [k \in 1 .. n |-> order[k]]
    BY <2>2
  <2>6. \A k \in 1 .. n : (\E x \in read : Cardinality(Prior(read, R, x)) = k - 1)
           => order[k] \in read /\ Cardinality(Prior(read, R, order[k])) = k - 1
    BY <2>4
  <2> QED  BY <2>5, <2>6 DEF Picks, n
<1>7. OfxCandidates(lines) =
          [k \in DOMAIN order |-> [Candidate(lines[order[k]]) EXCEPT !.time = NULL]]
  BY DEF OfxCandidates
<1> HIDE DEF order, R
<1>8. n \in Nat /\ order \in [1 .. n -> read]
  BY <1>5, <1>6, Ranked
<1>9. ASSUME NEW k \in 1 .. n
      PROVE  [Candidate(lines[order[k]]) EXCEPT !.time = NULL] \in CandidateRows
  <2>1. order[k] \in read
    BY <1>8
  <2>2. lines[order[k]] \in Lines /\ lines[order[k]].type # NULL
    BY <1>2, <2>1, ImporterAssumption
  <2>3. Candidate(lines[order[k]]) \in CandidateRows
    BY <2>2, CandidateTyped
  <2> QED  BY <2>3 DEF CandidateRows
<1> HIDE DEF n, read
<1>10. DOMAIN order = 1 .. n
  BY <1>8
<1> DEFINE got == [k \in 1 .. n |-> [Candidate(lines[order[k]]) EXCEPT !.time = NULL]]
<1>11. got \in Seq(CandidateRows)
  BY <1>8, <1>9
<1> HIDE DEF turn, key
<1> QED  BY <1>7, <1>10, <1>11

LEMMA ParsedTyped ==
    ASSUME NEW doc \in Files PROVE Parsed(doc) \in Seq(CandidateRows)
<1>1. doc.lines \in Seq(Lines)
  BY ImporterAssumption
<1>2. <<>> \in Seq(CandidateRows)
  OBVIOUS
<1> QED  BY <1>1, <1>2, CsvTyped, OfxTyped DEF Parsed

-----------------------------------------------------------------------------
(***************************************************************************)
(* The ids of new rows.                                                    *)
(***************************************************************************)
\* The places of F up to r.
Through(F, r) == {x \in F : x <= r}

\* A bounded set of numbers has a greatest, which Max finds.
LEMMA GreatestNat ==
    ASSUME NEW S \in SUBSET Nat, S # {}, NEW n \in Nat, \A x \in S : x <= n
    PROVE  Max(S) \in S /\ \A x \in S : x <= Max(S)
<1> DEFINE above == {k \in Nat : \A x \in S : x <= k}
<1>1. above \in SUBSET Nat /\ above # {}
  OBVIOUS
<1>2. PICK m \in above : \A k \in above : m <= k
  BY <1>1, LeastNat
<1>3. m \in Nat /\ \A x \in S : x <= m
  OBVIOUS
<1>4. m \in S
  <2>1. SUFFICES ASSUME m \notin S PROVE FALSE
    OBVIOUS
  <2>2. \A x \in S : x \in Nat /\ x < m
    BY <1>3, <2>1
  <2>3. m - 1 \in Nat /\ \A x \in S : x <= m - 1
    <3>1. PICK x \in S : TRUE
      OBVIOUS
    <3>2. x \in Nat /\ x < m
      BY <2>2
    <3> QED  BY <1>3, <2>2, <3>2
  <2>4. m - 1 \in above
    BY <2>3
  <2>5. m <= m - 1
    BY <1>2, <2>4
  <2> QED  BY <1>3, <2>5
<1>5. \E x \in S : \A y \in S : x >= y
  BY <1>3, <1>4
<1>6. Max(S) \in S /\ \A y \in S : Max(S) >= y
  BY <1>5 DEF Max
<1> QED  BY <1>6

\* How many places there are up to r: more for a later r.
LEMMA ThroughIs ==
    ASSUME NEW n \in Nat, NEW F \in SUBSET (1 .. n), NEW r \in F
    PROVE  /\ IsFiniteSet(F) /\ Cardinality(F) \in Nat
           /\ Cardinality(Through(F, r)) \in 1 .. Cardinality(F)
           /\ \A q \in F : r < q => Cardinality(Through(F, r)) < Cardinality(Through(F, q))
<1>1. IsFiniteSet(F) /\ Cardinality(F) \in Nat
  <2>1. IsFiniteSet(1 .. n)
    BY FS_Interval
  <2> QED  BY <2>1, FS_Subset, FS_CardinalityType
<1>2. \A q : Through(F, q) \in SUBSET F
  BY DEF Through
<1>3. \A q : IsFiniteSet(Through(F, q)) /\ Cardinality(Through(F, q)) \in Nat
             /\ Cardinality(Through(F, q)) <= Cardinality(F)
  BY <1>1, <1>2, FS_Subset, FS_CardinalityType
<1>4. Cardinality(Through(F, r)) # 0
  <2>1. r \in Through(F, r)
    BY DEF Through
  <2> QED  BY <1>3, <2>1, FS_EmptySet
<1>5. ASSUME NEW q \in F, r < q
      PROVE  Cardinality(Through(F, r)) < Cardinality(Through(F, q))
  <2>1. Through(F, r) \in SUBSET Through(F, q)
    <3>1. ASSUME NEW x \in F, x <= r PROVE x <= q
      <4>1. r \in Int /\ q \in Int /\ x \in Int
        OBVIOUS
      <4> QED  BY <1>5, <3>1, <4>1
    <3> QED  BY <3>1 DEF Through
  <2>2. Through(F, r) # Through(F, q)
    BY <1>5 DEF Through
  <2>3. /\ Cardinality(Through(F, r)) <= Cardinality(Through(F, q))
        /\ Cardinality(Through(F, q)) = Cardinality(Through(F, r)) => Through(F, q) = Through(F, r)
    BY <1>3, <2>1, FS_Subset
  <2> QED  BY <1>3, <2>2, <2>3
<1> QED  BY <1>1, <1>3, <1>4, <1>5

\* A portfolio's trades: rows, each with its own id.
Ledger(ts) == ts \subseteq TradeRows /\ \A t, u \in ts : t.id = u.id => t = u

\* Rows numbered on from top, in the order of their places F.
NewRows == [id : Nat, listing : Listings, day : Int, time : Nat, type : Types, quantity : Nat]

Numbers(F, top, row) ==
    \A r \in F : row[r] \in NewRows /\ row[r].id = top + Cardinality(Through(F, r))

\* The rows so numbered are rows of the table, with ids that grow with their places.
LEMMA NumbersAre ==
    ASSUME NEW n \in Nat, NEW F \in SUBSET (1 .. n), NEW top \in Nat, NEW row,
           Numbers(F, top, row), top + Cardinality(F) <= MaxTrades
    PROVE  /\ \A r \in F : row[r].id \in top + 1 .. MaxTrades /\ row[r] \in TradeRows
           /\ \A r, q \in F : r < q => row[r].id < row[q].id
<1>1. ASSUME NEW r \in F
      PROVE  /\ Cardinality(Through(F, r)) \in 1 .. Cardinality(F) /\ Cardinality(F) \in Nat
             /\ \A q \in F : r < q => Cardinality(Through(F, r)) < Cardinality(Through(F, q))
  BY ThroughIs
<1>2. MaxTrades \in Nat
  BY ImporterAssumption
<1>3. ASSUME NEW r \in F
      PROVE  row[r] \in NewRows /\ row[r].id = top + Cardinality(Through(F, r))
  BY DEF Numbers
<1>4. ASSUME NEW r \in F
      PROVE  row[r].id \in top + 1 .. MaxTrades /\ row[r].id \in 1 .. MaxTrades
  <2>1. row[r].id = top + Cardinality(Through(F, r))
    BY <1>3
  <2>2. Cardinality(Through(F, r)) \in 1 .. Cardinality(F) /\ Cardinality(F) \in Nat
    BY <1>1
  <2> QED  BY <1>2, <2>1, <2>2
<1>5. ASSUME NEW r \in F, NEW q \in F, r < q
      PROVE  row[r].id < row[q].id
  <2>1. Cardinality(Through(F, r)) < Cardinality(Through(F, q))
    BY <1>1, <1>5
  <2>2. Cardinality(Through(F, r)) \in Int /\ Cardinality(Through(F, q)) \in Int
    BY <1>1
  <2>3. row[r].id = top + Cardinality(Through(F, r)) /\ row[q].id = top + Cardinality(Through(F, q))
    BY <1>3
  <2> QED  BY <2>1, <2>2, <2>3
<1>6. ASSUME NEW r \in F
      PROVE  row[r] \in TradeRows
  <2>1. row[r] \in NewRows /\ row[r].id \in 1 .. MaxTrades
    BY <1>3, <1>4
  <2> QED  BY <2>1 DEF TradeRows, NewRows
<1> QED  BY <1>4, <1>5, <1>6

\* Numbered on from the largest id, they keep the ids apart.
LEMMA NumberedOn ==
    ASSUME NEW ts, NEW n \in Nat, NEW F \in SUBSET (1 .. n), NEW top \in Nat, NEW row, NEW new,
           Ledger(ts), \A t \in ts : t.id <= top, new = {row[r] : r \in F},
           Numbers(F, top, row), top + Cardinality(F) <= MaxTrades
    PROVE  Ledger(ts \cup new)
<1>3. ASSUME NEW r \in F
      PROVE  row[r].id \in top + 1 .. MaxTrades
  BY NumbersAre
<1>4. ASSUME NEW r \in F, NEW q \in F, r < q
      PROVE  row[r].id < row[q].id
  BY <1>4, NumbersAre
<1>5. ASSUME NEW r \in F
      PROVE  row[r] \in TradeRows
  BY NumbersAre
<1>6. \A t \in new : \E r \in F : t = row[r]
  OBVIOUS
<1>7. ts \cup new \subseteq TradeRows
  BY <1>5, <1>6 DEF Ledger
<1>8. ASSUME NEW t \in new, NEW u \in new, t.id = u.id
      PROVE  t = u
  <2>1. PICK r \in F : t = row[r]
    BY <1>6
  <2>2. PICK q \in F : u = row[q]
    BY <1>6
  <2>3. row[r].id = row[q].id /\ row[r].id \in Int
    BY <1>3, <1>8, <2>1, <2>2
  <2>4. ~(r < q) /\ ~(q < r)
    <3>1. r < q => row[r].id < row[q].id
      BY <1>4
    <3>2. q < r => row[q].id < row[r].id
      BY <1>4
    <3> QED  BY <2>3, <3>1, <3>2
  <2>5. r \in Int /\ q \in Int
    OBVIOUS
  <2>6. r = q
    BY <2>4, <2>5
  <2> QED  BY <2>1, <2>2, <2>6
<1>9. ASSUME NEW t \in ts, NEW u \in new
      PROVE  t.id # u.id
  <2>1. PICK q \in F : u = row[q]
    BY <1>6
  <2>2. t.id \in Int
    <3>1. t \in TradeRows
      BY DEF Ledger
    <3> QED  BY <3>1 DEF TradeRows
  <2>3. t.id <= top /\ row[q].id \in top + 1 .. MaxTrades
    BY <1>3
  <2> QED  BY <2>1, <2>2, <2>3
<1>10. \A t, u \in ts \cup new : t.id = u.id => t = u
  BY <1>8, <1>9 DEF Ledger
<1> QED  BY <1>7, <1>10 DEF Ledger

\* No trade has an id above Largest.
LEMMA LargestIs ==
    ASSUME Ledger(trades)
    PROVE  Largest \in Nat /\ \A t \in trades : t.id <= Largest
<1> DEFINE S == {0} \cup {t.id : t \in trades}
<1>1. \A t \in trades : t.id \in 1 .. MaxTrades
  BY DEF Ledger, TradeRows
<1>2. S \in SUBSET Nat /\ S # {} /\ \A x \in S : x <= MaxTrades
  BY <1>1, ImporterAssumption
<1>3. MaxTrades \in Nat
  BY ImporterAssumption
<1>4. Max(S) \in S /\ \A x \in S : x <= Max(S)
  BY <1>2, <1>3, GreatestNat
<1> QED  BY <1>2, <1>4 DEF Largest

-----------------------------------------------------------------------------
(***************************************************************************)
(* The shape of the state, and that an advice is recorded once.            *)
(***************************************************************************)
Staged == [user : Range(UserOf), rows : Seq(CandidateRows)]

Asked == [op : {"resolve", "commit", "unlink"}, upload : Uploads, rows : Seq(CandidateRows)]

LEMMA UserIs == \A s \in SignIns : UserOf[s] \in Range(UserOf)
  BY ImporterAssumption DEF Range

\* Staging and the requests, which the two writers of trades leave alone.
WaitingOK == staged \in [Uploads -> {NULL} \cup Staged] /\ request \in [SignIns -> {NULL} \cup Asked]

\* The type invariant, by what the actions disturb.
LEMMA TypeIs ==
    ImportTypeOK <=> Ledger(trades) /\ dividends \in Seq(DistributionRows) /\ WaitingOK
  BY DEF ImportTypeOK, Ledger, WaitingOK, Staged, Asked

\* A request under way.
LEMMA RequestIs ==
    ASSUME WaitingOK, NEW s \in SignIns, ~AtRest(s)
    PROVE  /\ request[s].op \in {"resolve", "commit", "unlink"} /\ request[s].upload \in Uploads
           /\ request[s].rows \in Seq(CandidateRows)
<1>1. request[s] \in Asked
  BY DEF WaitingOK, AtRest
<1> QED  BY <1>1 DEF Asked

\* What the handlers of the staged file leave as it was: the tables, and the shape of the rest.
LEMMA PreviewKeeps ==
    ASSUME WaitingOK, NEW s \in SignIns, NEW u \in Uploads, NEW doc \in Files, CsvPreview(s, u, doc)
    PROVE  WaitingOK' /\ UNCHANGED <<trades, dividends>>
<1>1. [user |-> UserOf[s], rows |-> Parsed(doc)] \in Staged
  BY UserIs, ParsedTyped DEF Staged
<1> QED  BY <1>1 DEF WaitingOK, CsvPreview

LEMMA ReadKeeps ==
    ASSUME WaitingOK, NEW s \in SignIns, NEW u \in Uploads, NEW op \in {"resolve", "commit"},
           ReadStaged(s, u, op)
    PROVE  WaitingOK' /\ UNCHANGED <<trades, dividends>>
<1>1. staged[u] \in Staged
  BY DEF WaitingOK, ReadStaged
<1>2. [op |-> op, upload |-> u, rows |-> staged[u].rows] \in Asked
  BY <1>1 DEF Asked, Staged
<1> QED  BY <1>2 DEF WaitingOK, ReadStaged

LEMMA ResolveKeeps ==
    ASSUME WaitingOK, NEW s \in SignIns, NEW from \in Listings, NEW to \in Listings,
           CsvResolve(s, from, to)
    PROVE  WaitingOK' /\ UNCHANGED <<trades, dividends>>
<1> DEFINE rows == request[s].rows
<1>1. ~AtRest(s)
  BY DEF CsvResolve
<1>2. rows \in Seq(CandidateRows) /\ request[s].upload \in Uploads
  BY <1>1, RequestIs
<1>3. Relabel(rows, from, to) \in Seq(CandidateRows)
  <2>1. ASSUME NEW r \in DOMAIN rows
        PROVE  [rows[r] EXCEPT !.listing = to] \in CandidateRows /\ rows[r] \in CandidateRows
    <3> HIDE DEF rows
    <3>1. rows[r] \in CandidateRows
      BY <1>2
    <3> QED  BY <3>1 DEF CandidateRows
  <2> HIDE DEF rows
  <2> QED  BY <1>2, <2>1 DEF Relabel
<1>4. [user |-> UserOf[s], rows |-> Relabel(rows, from, to)] \in Staged
  BY <1>3, UserIs DEF Staged
<1> QED  BY <1>2, <1>4 DEF WaitingOK, CsvResolve

LEMMA ClearedKeeps ==
    ASSUME WaitingOK
    PROVE  /\ \A s \in SignIns : Unlink(s) => WaitingOK' /\ UNCHANGED <<trades, dividends>>
           /\ \A u \in Uploads : Sweep(u) => WaitingOK' /\ UNCHANGED <<trades, dividends>>
           /\ Restart => WaitingOK' /\ UNCHANGED <<trades, dividends>>
<1>1. ASSUME NEW s \in SignIns, Unlink(s)
      PROVE  WaitingOK' /\ UNCHANGED <<trades, dividends>>
  BY <1>1 DEF WaitingOK, Unlink
<1>2. ASSUME NEW u \in Uploads, Sweep(u)
      PROVE  WaitingOK' /\ UNCHANGED <<trades, dividends>>
  BY <1>2 DEF WaitingOK, Sweep
<1>3. ASSUME Restart
      PROVE  WaitingOK' /\ UNCHANGED <<trades, dividends>>
  BY <1>3 DEF WaitingOK, Restart
<1> QED  BY <1>1, <1>2, <1>3

\* A candidate as it is recorded.
LEMMA RecordedIs ==
    ASSUME NEW c \in CandidateRows, NEW id \in Nat
    PROVE  Recorded(c, id) \in NewRows /\ Recorded(c, id).id = id
<1>1. (IF c.time = NULL THEN MarketOpen ELSE c.time) \in Nat
  BY DEF CandidateRows, MarketOpen
<1> QED  BY <1>1 DEF Recorded, NewRows, CandidateRows

\* The trades a commit inserts, by the row each is of.
Insert(rows) == [r \in Fresh(rows) |-> Recorded(rows[r], Largest + Cardinality(Through(Fresh(rows), r)))]

\* They are numbered on from the largest id, and are what the model inserts.
LEMMA InsertedAre ==
    ASSUME Ledger(trades), NEW rows \in Seq(CandidateRows)
    PROVE  /\ Len(rows) \in Nat /\ Fresh(rows) \in SUBSET (1 .. Len(rows)) /\ Largest \in Nat
           /\ Numbers(Fresh(rows), Largest, Insert(rows))
           /\ Inserted(rows) = {Insert(rows)[r] : r \in Fresh(rows)}
<1>1. Len(rows) \in Nat /\ DOMAIN rows = 1 .. Len(rows) /\ \A r \in DOMAIN rows : rows[r] \in CandidateRows
  OBVIOUS
<1>2. Fresh(rows) \in SUBSET (1 .. Len(rows))
  BY <1>1 DEF Fresh
<1>3. Largest \in Nat
  BY LargestIs
<1>4. ASSUME NEW r \in Fresh(rows)
      PROVE  Insert(rows)[r] \in NewRows
             /\ Insert(rows)[r].id = Largest + Cardinality(Through(Fresh(rows), r))
  <2>1. Cardinality(Through(Fresh(rows), r)) \in 1 .. Cardinality(Fresh(rows))
        /\ Cardinality(Fresh(rows)) \in Nat
    BY <1>1, <1>2, ThroughIs
  <2>2. Largest + Cardinality(Through(Fresh(rows), r)) \in Nat
    BY <1>3, <2>1
  <2>3. rows[r] \in CandidateRows
    BY <1>1, <1>2
  <2>4. Insert(rows)[r] = Recorded(rows[r], Largest + Cardinality(Through(Fresh(rows), r)))
    BY DEF Insert
  <2> QED  BY <2>2, <2>3, <2>4, RecordedIs
<1>5. Inserted(rows) = {Insert(rows)[r] : r \in Fresh(rows)}
  <2>1. \A r \in Fresh(rows) : {x \in Fresh(rows) : x <= r} = Through(Fresh(rows), r)
    BY DEF Through
  <2>2. \A r \in Fresh(rows) : Insert(rows)[r]
            = Recorded(rows[r], Largest + Cardinality({x \in Fresh(rows) : x <= r}))
    BY <2>1 DEF Insert
  <2> QED  BY <2>2 DEF Inserted
<1> QED  BY <1>1, <1>2, <1>3, <1>4, <1>5 DEF Numbers

\* A commit keeps the tables well formed.
LEMMA CommitKeeps ==
    ASSUME Ledger(trades), WaitingOK, NEW s \in SignIns, CsvCommit(s)
    PROVE  Ledger(trades') /\ WaitingOK' /\ UNCHANGED dividends
<1> DEFINE rows == request[s].rows
<1>1. ~AtRest(s) /\ UNCHANGED <<dividends, staged>>
  BY DEF CsvCommit
<1>2. rows \in Seq(CandidateRows) /\ request[s] \in Asked
  BY <1>1, RequestIs DEF WaitingOK, AtRest
<1>3. CASE /\ Largest + Cardinality(Fresh(rows)) <= MaxTrades
           /\ trades' = trades \cup Inserted(rows)
           /\ request' = [request EXCEPT ![s].op = "unlink"]
  <2>1. Ledger(trades')
    <3> HIDE DEF rows
    <3>1. \A t \in trades : t.id <= Largest
      BY LargestIs
    <3> QED  BY <1>2, <1>3, <3>1, InsertedAre, NumberedOn
  <2>2. [request[s] EXCEPT !.op = "unlink"] \in Asked
    BY <1>2 DEF Asked
  <2> QED  BY <1>1, <1>3, <2>1, <2>2 DEF WaitingOK
<1>4. CASE request' = [request EXCEPT ![s] = NULL] /\ UNCHANGED trades
  BY <1>1, <1>4 DEF WaitingOK, Ledger
<1> QED  BY <1>3, <1>4 DEF CsvCommit

\* The listings of a portfolio are listings, and so is what an advice is resolved to.
LEMMA OwnIs ==
    ASSUME Ledger(trades), dividends \in Seq(DistributionRows)
    PROVE  Own \subseteq Listings
<1>1. \A t \in trades : t.listing \in Listings
  BY DEF Ledger, TradeRows
<1>2. ASSUME NEW d \in Range(dividends) PROVE d.listing \in Listings
  <2>1. PICK i \in DOMAIN dividends : d = dividends[i]
    BY DEF Range
  <2>2. dividends[i] \in DistributionRows
    OBVIOUS
  <2> QED  BY <2>1, <2>2 DEF DistributionRows
<1> QED  BY <1>1, <1>2 DEF Own

LEMMA DistributionIs ==
    ASSUME Ledger(trades), dividends \in Seq(DistributionRows), NEW row \in AdviceRows, Savable(row)
    PROVE  Distribution(row) \in DistributionRows
<1>1. HeldAs(row) # {}
  <2>1. SUFFICES ASSUME HeldAs(row) = {} PROVE FALSE
    OBVIOUS
  <2>2. Cardinality(HeldAs(row)) = 0 /\ Cardinality(HeldAs(row)) = 1
    BY <2>1, FS_EmptySet DEF Savable
  <2> QED  BY <2>2
<1>2. HeldAs(row) \subseteq Listings
  BY OwnIs DEF HeldAs
<1>3. (CHOOSE l \in HeldAs(row) : TRUE) \in Listings
  BY <1>1, <1>2
<1> QED  BY <1>3 DEF Distribution, DistributionRows, AdviceRows

\* Every row of an advice is savable, and no two are the same distribution.
Acceptable(rows) ==
    /\ \A i \in DOMAIN rows : Savable(rows[i])
    /\ \A i, j \in DOMAIN rows :
          i # j => Key(Distribution(rows[i])) # Key(Distribution(rows[j]))

\* AdvicesOnce of a sequence.
Apart(ds) == \A i, j \in DOMAIN ds : i # j => Key(ds[i]) # Key(ds[j])

\* Distributions that differ from one another and from those there are stay apart.
LEMMA ApartOn ==
    ASSUME NEW ds \in Seq(DistributionRows), NEW es \in Seq(DistributionRows),
           Apart(ds), Apart(es), \A e \in Range(es) : \A d \in Range(ds) : Key(d) # Key(e)
    PROVE  ds \o es \in Seq(DistributionRows) /\ Apart(ds \o es)
<1> DEFINE n == Len(ds)
           m == Len(es)
           all == ds \o es
<1>1. n \in Nat /\ m \in Nat /\ DOMAIN ds = 1 .. n /\ DOMAIN es = 1 .. m
  OBVIOUS
<1>2. /\ all \in Seq(DistributionRows) /\ DOMAIN all = 1 .. n + m
      /\ \A i \in 1 .. n : all[i] = ds[i]
      /\ \A i \in n + 1 .. n + m : all[i] = es[i - n]
  OBVIOUS
<1> HIDE DEF n, m, all
<1>3. ASSUME NEW i \in 1 .. n + m, NEW j \in 1 .. n + m, i < j
      PROVE  Key(all[i]) # Key(all[j])
  <2>1. CASE j <= n
    <3>1. i \in 1 .. n /\ j \in 1 .. n /\ i # j
      BY <1>1, <1>3, <2>1
    <3> QED  BY <1>1, <1>2, <3>1 DEF Apart
  <2>2. CASE n < i
    <3>1. i \in n + 1 .. n + m /\ j \in n + 1 .. n + m /\ i - n \in 1 .. m /\ j - n \in 1 .. m
          /\ i - n # j - n
      BY <1>1, <1>3, <2>2
    <3>2. all[i] = es[i - n] /\ all[j] = es[j - n]
      BY <1>2, <3>1
    <3>3. Key(es[i - n]) # Key(es[j - n])
      BY <1>1, <3>1 DEF Apart
    <3> QED  BY <3>2, <3>3
  <2>3. CASE i <= n /\ n < j
    <3>1. i \in 1 .. n /\ j \in n + 1 .. n + m /\ j - n \in 1 .. m
      BY <1>1, <1>3, <2>3
    <3>2. all[i] = ds[i] /\ all[j] = es[j - n]
      BY <1>2, <3>1
    <3>3. ds[i] \in Range(ds) /\ es[j - n] \in Range(es)
      BY <1>1, <3>1 DEF Range
    <3> QED  BY <3>2, <3>3
  <2> QED  BY <1>1, <1>3, <2>1, <2>2, <2>3
<1>4. ASSUME NEW i \in 1 .. n + m, NEW j \in 1 .. n + m, i # j
      PROVE  Key(all[i]) # Key(all[j])
  <2>1. i < j \/ j < i
    BY <1>1, <1>4
  <2> QED  BY <1>3, <2>1
<1>5. Apart(all)
  BY <1>2, <1>4 DEF Apart
<1> QED  BY <1>2, <1>5 DEF all

\* The trades an advice's reinvested rows buy.
Reinvest(rows, bought) ==
    [i \in bought |-> [id |-> Largest + Cardinality(Through(bought, i)),
                       listing |-> Distribution(rows[i]).listing, day |-> rows[i].day,
                       time |-> MarketOpen, type |-> "drp", quantity |-> rows[i].units]]

Bought(rows) == {i \in DOMAIN rows : rows[i].units > 0}

\* The trades that an advice adds are numbered on as well.
LEMMA RecordIs ==
    ASSUME Ledger(trades), dividends \in Seq(DistributionRows), NEW rows \in Seq(AdviceRows),
           \A i \in DOMAIN rows : Savable(rows[i])
    PROVE  /\ Len(rows) \in Nat /\ Bought(rows) \in SUBSET (1 .. Len(rows)) /\ Largest \in Nat
           /\ Numbers(Bought(rows), Largest, Reinvest(rows, Bought(rows)))
           /\ Record(rows) =>
                 /\ Largest + Cardinality(Bought(rows)) <= MaxTrades
                 /\ trades' = trades \cup {Reinvest(rows, Bought(rows))[i] : i \in Bought(rows)}
<1> DEFINE B == Bought(rows)
<1>1. Len(rows) \in Nat /\ DOMAIN rows = 1 .. Len(rows) /\ \A i \in DOMAIN rows : rows[i] \in AdviceRows
  OBVIOUS
<1>2. B \in SUBSET (1 .. Len(rows)) /\ \A i \in B : i \in DOMAIN rows /\ rows[i].units > 0
  BY <1>1 DEF Bought
<1>3. Largest \in Nat
  BY LargestIs
<1> HIDE DEF B
<1>4. ASSUME NEW i \in B
      PROVE  Reinvest(rows, B)[i] \in NewRows
             /\ Reinvest(rows, B)[i].id = Largest + Cardinality(Through(B, i))
  <2>1. Cardinality(Through(B, i)) \in 1 .. Cardinality(B) /\ Cardinality(B) \in Nat
    BY <1>1, <1>2, ThroughIs
  <2>2. Largest + Cardinality(Through(B, i)) \in Nat
    BY <1>3, <2>1
  <2>3. rows[i] \in AdviceRows /\ rows[i].units > 0 /\ Savable(rows[i])
    BY <1>1, <1>2
  <2>4. Distribution(rows[i]).listing \in Listings
    BY <2>3, DistributionIs DEF DistributionRows
  <2>5. rows[i].day \in Int /\ rows[i].units \in Nat /\ MarketOpen \in Nat /\ "drp" \in Types
    BY <2>3 DEF AdviceRows, MarketOpen, Types
  <2>6. Reinvest(rows, B)[i] = [id |-> Largest + Cardinality(Through(B, i)),
                       listing |-> Distribution(rows[i]).listing, day |-> rows[i].day,
                       time |-> MarketOpen, type |-> "drp", quantity |-> rows[i].units]
    BY DEF Reinvest
  <2> QED  BY <2>2, <2>4, <2>5, <2>6 DEF NewRows
<1>5. ASSUME Record(rows)
      PROVE  /\ Largest + Cardinality(B) <= MaxTrades
             /\ trades' = trades \cup {Reinvest(rows, B)[i] : i \in B}
  <2> DEFINE new(i) == [id |-> Largest + Cardinality({j \in B : j <= i}),
                       listing |-> Distribution(rows[i]).listing, day |-> rows[i].day,
                       time |-> MarketOpen, type |-> "drp", quantity |-> rows[i].units]
  <2>1. Largest + Cardinality(B) <= MaxTrades /\ trades' = trades \cup {new(i) : i \in B}
    BY <1>5 DEF Record, B, Bought
  <2>2. \A i \in B : Reinvest(rows, B)[i] = new(i)
    BY DEF Reinvest, Through
  <2> HIDE DEF new
  <2> QED  BY <2>1, <2>2
<1> QED  BY <1>1, <1>2, <1>3, <1>4, <1>5 DEF Numbers, B

\* An advice keeps the tables well formed and its distributions apart.
LEMMA RecordKeeps ==
    ASSUME Ledger(trades), dividends \in Seq(DistributionRows), WaitingOK, Apart(dividends),
           NEW rows \in Seq(AdviceRows), Acceptable(rows), Record(rows)
    PROVE  Ledger(trades') /\ dividends' \in Seq(DistributionRows) /\ WaitingOK' /\ Apart(dividends')
<1> DEFINE ds == [i \in DOMAIN rows |-> Distribution(rows[i])]
<1>1. Len(rows) \in Nat /\ DOMAIN rows = 1 .. Len(rows) /\ \A i \in DOMAIN rows : rows[i] \in AdviceRows
  OBVIOUS
<1>2. \A i \in DOMAIN rows : Savable(rows[i])
  BY DEF Acceptable
<1>3. Ledger(trades')
  <2> DEFINE B == Bought(rows)
             row == Reinvest(rows, B)
             new == {row[i] : i \in B}
  <2>1. \A t \in trades : t.id <= Largest
    BY LargestIs
  <2>2. Len(rows) \in Nat /\ B \in SUBSET (1 .. Len(rows)) /\ Largest \in Nat
        /\ Numbers(B, Largest, row) /\ Largest + Cardinality(B) <= MaxTrades
        /\ trades' = trades \cup new
    BY <1>2, RecordIs
  <2>3. new = {row[i] : i \in B}
    OBVIOUS
  <2> HIDE DEF B, row, new
  <2>4. Ledger(trades \cup new)
    BY <2>1, <2>2, <2>3, NumberedOn
  <2> QED  BY <2>2, <2>4
<1>4. \A i \in DOMAIN rows : Distribution(rows[i]) \in DistributionRows
  BY <1>1, <1>2, DistributionIs
<1>5. dividends' = dividends \o ds
  BY DEF Record
<1>6. ds \in Seq(DistributionRows) /\ DOMAIN ds = DOMAIN rows
  BY <1>1, <1>4
<1>7. Apart(ds)
  BY DEF Apart, Acceptable
<1>8. \A e \in Range(ds) : \A d \in Range(dividends) : Key(d) # Key(e)
  BY <1>2 DEF Range, Savable
<1> HIDE DEF ds
<1>9. dividends' \in Seq(DistributionRows) /\ Apart(dividends')
  BY <1>5, <1>6, <1>7, <1>8, ApartOn
<1>10. WaitingOK'
  BY DEF Record, WaitingOK
<1> QED  BY <1>3, <1>9, <1>10

LEMMA AdviceKeeps ==
    ASSUME Ledger(trades), dividends \in Seq(DistributionRows), WaitingOK, Apart(dividends),
           NEW s \in SignIns, NEW rows \in Advices, SaveAdvice(s, rows) \/ SaveStatement(s, rows[1])
    PROVE  Ledger(trades') /\ dividends' \in Seq(DistributionRows) /\ WaitingOK' /\ Apart(dividends')
<1>1. rows \in Seq(AdviceRows) /\ rows # <<>>
  BY ImporterAssumption
<1>2. CASE SaveAdvice(s, rows)
  BY <1>1, <1>2, RecordKeeps DEF SaveAdvice, Acceptable
<1>3. CASE SaveStatement(s, rows[1])
  <2>1. rows[1] \in AdviceRows
    BY <1>1
  <2>2. <<rows[1]>> \in Seq(AdviceRows) /\ DOMAIN <<rows[1]>> = {1} /\ <<rows[1]>>[1] = rows[1]
    BY <2>1
  <2>3. Acceptable(<<rows[1]>>) /\ Record(<<rows[1]>>)
    BY <1>3, <2>2 DEF Acceptable, SaveStatement
  <2> QED  BY <2>2, <2>3, RecordKeeps
<1> QED  BY <1>2, <1>3

LEMMA DeleteKeeps ==
    ASSUME Ledger(trades), WaitingOK, NEW s \in SignIns, NEW t \in trades, TradeDelete(s, t)
    PROVE  Ledger(trades') /\ WaitingOK' /\ UNCHANGED dividends
  BY DEF Ledger, WaitingOK, TradeDelete

-----------------------------------------------------------------------------
ImportInv == ImportTypeOK /\ AdvicesOnce

\* The invariant holds at the start, and each step keeps it.
LEMMA ImportInitInv == ImportInit => ImportInv
<1> SUFFICES ASSUME ImportInit PROVE ImportInv
  OBVIOUS
<1>1. Ledger(trades)
  BY ImporterAssumption DEF ImportInit, Ledger
<1>2. dividends \in Seq(DistributionRows) /\ AdvicesOnce
  BY DEF ImportInit, AdvicesOnce
<1>3. WaitingOK
  BY DEF ImportInit, WaitingOK
<1> QED  BY <1>1, <1>2, <1>3, TypeIs DEF ImportInv

LEMMA ImportNextInv == ImportInv /\ [ImportNext]_ImportVars => ImportInv'
<1> SUFFICES ASSUME ImportInv, [ImportNext]_ImportVars PROVE ImportInv'
  OBVIOUS
<1>1. Ledger(trades) /\ dividends \in Seq(DistributionRows) /\ WaitingOK /\ Apart(dividends)
  BY TypeIs DEF ImportInv, AdvicesOnce, Apart
<1> DEFINE Good == Ledger(trades') /\ dividends' \in Seq(DistributionRows) /\ WaitingOK' /\ Apart(dividends')
<1>2. ASSUME UNCHANGED <<trades, dividends>>, WaitingOK' PROVE Good
  BY <1>1, <1>2
<1>3. ASSUME NEW s \in SignIns, NEW u \in Uploads, NEW doc \in Files, CsvPreview(s, u, doc)
      PROVE  Good
  BY <1>1, <1>2, <1>3, PreviewKeeps
<1>4. ASSUME NEW s \in SignIns, NEW u \in Uploads, NEW op \in {"resolve", "commit"},
             ReadStaged(s, u, op)
      PROVE  Good
  BY <1>1, <1>2, <1>4, ReadKeeps
<1>5. ASSUME NEW s \in SignIns, NEW from \in Listings, NEW to \in Listings, CsvResolve(s, from, to)
      PROVE  Good
  BY <1>1, <1>2, <1>5, ResolveKeeps
<1>6. ASSUME NEW s \in SignIns, CsvCommit(s)
      PROVE  Good
  BY <1>1, <1>6, CommitKeeps
<1>7. ASSUME NEW s \in SignIns, Unlink(s)
      PROVE  Good
  BY <1>1, <1>2, <1>7, ClearedKeeps
<1>8. ASSUME NEW s \in SignIns, NEW rows \in Advices, SaveAdvice(s, rows) \/ SaveStatement(s, rows[1])
      PROVE  Good
  BY <1>1, <1>8, AdviceKeeps
<1>9. ASSUME NEW s \in SignIns, NEW t \in trades, TradeDelete(s, t)
      PROVE  Good
  BY <1>1, <1>9, DeleteKeeps
<1>10. ASSUME NEW u \in Uploads, Sweep(u)
      PROVE  Good
  BY <1>1, <1>2, <1>10, ClearedKeeps
<1>11. ASSUME Restart
      PROVE  Good
  BY <1>1, <1>2, <1>11, ClearedKeeps
<1>12. ASSUME UNCHANGED ImportVars
      PROVE  Good
  <2>1. UNCHANGED <<trades, dividends>> /\ WaitingOK'
    BY <1>1, <1>12 DEF ImportVars, WaitingOK
  <2> QED  BY <1>2, <2>1
<1> HIDE DEF Good
<1>13. Good
  BY <1>3, <1>4, <1>5, <1>6, <1>7, <1>8, <1>9, <1>10, <1>11, <1>12 DEF ImportNext
<1>14. ImportTypeOK' <=> Ledger(trades') /\ dividends' \in Seq(DistributionRows) /\ WaitingOK'
  BY DEF ImportTypeOK, Ledger, WaitingOK, Staged, Asked
<1>15. AdvicesOnce' <=> Apart(dividends')
  BY DEF AdvicesOnce, Apart, Key
<1> QED  BY <1>13, <1>14, <1>15 DEF Good, ImportInv

\* In every history the tables, the staged files and the requests are well formed, each trade
\* has its own id, and no two distributions are the same: what a handler read before its form
\* arrived was typed when it was staged.
THEOREM ImportInvariant == ImportSpec => []ImportInv
<1>1. ImportInit => ImportInv
  BY ImportInitInv
<1>2. ImportInv /\ [ImportNext]_ImportVars => ImportInv'
  BY ImportNextInv
<1> QED  BY <1>1, <1>2, PTL DEF ImportSpec

\* The variables are of their types, whatever is previewed, corrected, committed or swept.
THEOREM ImportTypeCorrect == ImportSpec => []ImportTypeOK
<1>1. ImportInv => ImportTypeOK
  BY DEF ImportInv
<1> QED  BY <1>1, ImportInvariant, PTL

\* No distribution is recorded twice, by one advice or by several: duplicate_of compares a
\* row with the table, and _distributions the ticked rows with one another.
THEOREM AdvicesRecordedOnce == ImportSpec => []AdvicesOnce
<1>1. ImportInv => AdvicesOnce
  BY DEF ImportInv
<1> QED  BY <1>1, ImportInvariant, PTL

-----------------------------------------------------------------------------
(***************************************************************************)
(* A recursive function over 0 .. n exists when each step has a value.     *)
(***************************************************************************)
Walks(f, n, V, v, G) ==
    f \in [0 .. n -> V] /\ f[0] = v /\ \A i \in 1 .. n : f[i] = G[<<i, f[i - 1]>>]

LEMMA WalkExists ==
    ASSUME NEW n \in Nat, NEW V, NEW v \in V, NEW G \in [(1 .. n) \X V -> V]
    PROVE  \E f : Walks(f, n, V, v, G)
<1> DEFINE D == {k \in 0 .. n : \E f : Walks(f, k, V, v, G)}
<1>1. 0 \in D
  <2> DEFINE f == [i \in 0 .. 0 |-> v]
  <2>1. f \in [0 .. 0 -> V] /\ f[0] = v /\ 1 .. 0 = {}
    OBVIOUS
  <2>2. Walks(f, 0, V, v, G)
    BY <2>1 DEF Walks
  <2> HIDE DEF f
  <2> QED  BY <2>2
<1>2. ASSUME NEW k \in 0 .. n - 1, k \in D
      PROVE  k + 1 \in D
  <2>1. PICK f : Walks(f, k, V, v, G)
    BY <1>2
  <2>2. k \in Nat /\ k + 1 \in 1 .. n /\ k + 1 \in 0 .. n /\ k \in 0 .. k
    OBVIOUS
  <2>3. f \in [0 .. k -> V] /\ f[0] = v /\ \A i \in 1 .. k : f[i] = G[<<i, f[i - 1]>>]
    BY <2>1 DEF Walks
  <2>4. f[k] \in V
    BY <2>2, <2>3
  <2> DEFINE last == G[<<k + 1, f[k]>>]
             g == [i \in 0 .. k + 1 |-> IF i = k + 1 THEN last ELSE f[i]]
  <2>5. last \in V
    BY <2>2, <2>4
  <2> HIDE DEF last
  <2>6. \A i \in 0 .. k : g[i] = f[i]
    BY <2>2
  <2>7. \A i \in 0 .. k : f[i] \in V
    BY <2>3
  <2>8. \A i \in 0 .. k + 1 : i = k + 1 \/ i \in 0 .. k
    BY <2>2
  <2>9. g \in [0 .. k + 1 -> V]
    BY <2>5, <2>7, <2>8
  <2>10. g[k + 1] = last
    BY <2>2
  <2>11. g[0] = v
    BY <2>2, <2>3, <2>6
  <2> HIDE DEF g
  <2>12. ASSUME NEW i \in 1 .. k + 1 PROVE g[i] = G[<<i, g[i - 1]>>]
    <3>1. CASE i = k + 1
      <4>1. i - 1 = k /\ g[k] = f[k]
        BY <2>2, <2>6, <3>1
      <4> QED  BY <2>10, <3>1, <4>1 DEF last
    <3>2. CASE i # k + 1
      <4>1. i \in 1 .. k /\ i \in 0 .. k /\ i - 1 \in 0 .. k
        BY <2>2, <3>2
      <4>2. g[i] = f[i] /\ g[i - 1] = f[i - 1]
        BY <2>6, <4>1
      <4> QED  BY <2>3, <4>1, <4>2
    <3> QED  BY <3>1, <3>2
  <2>13. Walks(g, k + 1, V, v, G)
    BY <2>9, <2>11, <2>12 DEF Walks
  <2> QED  BY <2>2, <2>13
<1> HIDE DEF D
<1>3. \A k \in 0 .. n : k \in D
  BY <1>1, <1>2, UpTo
<1>4. n \in D
  BY <1>3
<1> QED  BY <1>4 DEF D

-----------------------------------------------------------------------------
(***************************************************************************)
(* annotate's claims.                                                      *)
(***************************************************************************)
\* One step of the two passes: the row looked at, the trades free for it, and what is claimed then.
RowAt(rows, k) == IF k <= Len(rows) THEN k ELSE k - Len(rows)

FreeFor(rows, k, c) ==
    {t.id : t \in {t \in trades : /\ SameTrade(t, rows[RowAt(rows, k)])
                                  /\ k <= Len(rows) => t.time = rows[RowAt(rows, k)].time}} \ c.trades

ClaimStep(rows, k, c) ==
    IF RowAt(rows, k) \in c.rows \/ FreeFor(rows, k, c) = {} THEN c
    ELSE [rows |-> c.rows \cup {RowAt(rows, k)}, trades |-> c.trades \cup {Min(FreeFor(rows, k, c))}]

Claiming(f, rows) ==
    f = [k \in 0 .. 2 * Len(rows) |->
            IF k = 0 THEN [rows |-> {}, trades |-> {}] ELSE ClaimStep(rows, k, f[k - 1])]

\* The model's claims are the last of a walk of 2n steps.
LEMMA ClaimsIs ==
    ASSUME NEW rows PROVE Claims(rows) = (CHOOSE f : Claiming(f, rows))[2 * Len(rows)].rows
  BY DEF Claims, Claiming, ClaimStep, FreeFor, RowAt

\* Min finds the least.
LEMMA LeastIs ==
    ASSUME NEW S \in SUBSET Nat, S # {} PROVE Min(S) \in S
<1>1. \E x \in S : \A y \in S : x <= y
  BY LeastNat
<1> QED  BY <1>1 DEF Min

Claimed == [rows : SUBSET Nat, trades : SUBSET Nat]

\* The trades a row may claim, by id, and the rows alike.
FillIds(c) == {t.id : t \in {t \in trades : SameTrade(t, c)}}
Alike(rows, c) == {x \in DOMAIN rows : SameTrade(rows[x], c)}

\* A step claims one row, and one trade free for it, or nothing.
LEMMA StepIs ==
    ASSUME Ledger(trades), NEW rows \in Seq(CandidateRows), NEW k \in 1 .. 2 * Len(rows),
           NEW c \in Claimed
    PROVE  /\ ClaimStep(rows, k, c) \in Claimed
           /\ RowAt(rows, k) \in DOMAIN rows
           /\ FreeFor(rows, k, c) \subseteq FillIds(rows[RowAt(rows, k)]) \ c.trades
           /\ FreeFor(rows, k, c) # {} => Min(FreeFor(rows, k, c)) \in FreeFor(rows, k, c)
<1> DEFINE r == RowAt(rows, k)
           free == FreeFor(rows, k, c)
<1>1. Len(rows) \in Nat /\ DOMAIN rows = 1 .. Len(rows)
  OBVIOUS
<1>2. r \in DOMAIN rows /\ r \in Nat
  BY <1>1 DEF RowAt
<1>3. \A t \in trades : t.id \in Nat
  BY DEF Ledger, TradeRows
<1>4. free \in SUBSET Nat
  BY <1>3 DEF FreeFor
<1>5. free \subseteq FillIds(rows[r]) \ c.trades
  BY DEF FreeFor, FillIds
<1>6. free # {} => Min(free) \in free
  BY <1>4, LeastIs
<1>7. ClaimStep(rows, k, c) \in Claimed
  <2>1. ClaimStep(rows, k, c) = IF r \in c.rows \/ free = {} THEN c
                                ELSE [rows |-> c.rows \cup {r}, trades |-> c.trades \cup {Min(free)}]
    BY DEF ClaimStep
  <2> HIDE DEF r, free
  <2>2. c.rows \in SUBSET Nat /\ c.trades \in SUBSET Nat
    BY DEF Claimed
  <2>3. ASSUME free # {} PROVE Min(free) \in Nat
    BY <1>4, <1>6, <2>3
  <2> QED  BY <1>2, <2>1, <2>2, <2>3 DEF Claimed
<1> QED  BY <1>2, <1>5, <1>6, <1>7

\* The walk exists, is typed at each step, and ends with the claims.
LEMMA ClaimWalk ==
    ASSUME Ledger(trades), NEW rows \in Seq(CandidateRows)
    PROVE  \E f \in [0 .. 2 * Len(rows) -> Claimed] :
              /\ f[0] = [rows |-> {}, trades |-> {}]
              /\ \A k \in 1 .. 2 * Len(rows) : f[k] = ClaimStep(rows, k, f[k - 1])
              /\ Claims(rows) = f[2 * Len(rows)].rows
<1> DEFINE n == 2 * Len(rows)
           none == [rows |-> {}, trades |-> {}]
           G == [p \in (1 .. n) \X Claimed |-> ClaimStep(rows, p[1], p[2])]
<1>1. n \in Nat
  OBVIOUS
<1>2. none \in Claimed
  BY DEF Claimed
<1>3. G \in [(1 .. n) \X Claimed -> Claimed]
  <2>1. \A p \in (1 .. n) \X Claimed : ClaimStep(rows, p[1], p[2]) \in Claimed
    BY StepIs
  <2> QED  BY <2>1
<1>4. \A k \in 1 .. n, c \in Claimed : G[<<k, c>>] = ClaimStep(rows, k, c)
  OBVIOUS
<1> HIDE DEF n, none, G
<1>5. PICK g : Walks(g, n, Claimed, none, G)
  BY <1>1, <1>2, <1>3, WalkExists
<1>6. ASSUME NEW f, Walks(f, n, Claimed, none, G)
      PROVE  f \in [0 .. n -> Claimed] /\ f[0] = none
             /\ \A k \in 1 .. n : f[k] = ClaimStep(rows, k, f[k - 1])
  <2>1. f \in [0 .. n -> Claimed] /\ f[0] = none /\ \A k \in 1 .. n : f[k] = G[<<k, f[k - 1]>>]
    BY <1>6 DEF Walks
  <2>2. \A k \in 1 .. n : f[k - 1] \in Claimed
    BY <1>1, <2>1
  <2> QED  BY <1>4, <2>1, <2>2
<1>7. Claiming(g, rows)
  <2>1. g \in [0 .. n -> Claimed] /\ g[0] = none
         /\ \A k \in 1 .. n : g[k] = ClaimStep(rows, k, g[k - 1])
    BY <1>5, <1>6
  <2>2. \A k \in 0 .. n : g[k] = IF k = 0 THEN none ELSE ClaimStep(rows, k, g[k - 1])
    <3>1. \A k \in 0 .. n : k = 0 \/ k \in 1 .. n
      BY <1>1
    <3> QED  BY <2>1, <3>1
  <2>3. g = [k \in 0 .. n |-> g[k]]
    BY <2>1
  <2> QED  BY <2>2, <2>3 DEF Claiming, n, none
<1> DEFINE f == CHOOSE h : Claiming(h, rows)
<1>8. Claiming(f, rows)
  BY <1>7
<1> HIDE DEF f
<1>9. f = [k \in 0 .. n |-> IF k = 0 THEN none ELSE ClaimStep(rows, k, f[k - 1])]
  BY <1>8 DEF Claiming, n, none
<1>10. f[0] = none /\ DOMAIN f = 0 .. n /\ \A k \in 1 .. n : f[k] = ClaimStep(rows, k, f[k - 1])
  <2>1. 0 \in 0 .. n /\ \A k \in 1 .. n : k \in 0 .. n /\ k # 0
    BY <1>1
  <2> QED  BY <1>9, <2>1
<1>11. \A k \in 0 .. n : k \in {i \in 0 .. n : f[i] \in Claimed}
  <2> DEFINE D == {i \in 0 .. n : f[i] \in Claimed}
  <2>1. 0 \in D
    BY <1>1, <1>2, <1>10
  <2>2. ASSUME NEW k \in 0 .. n - 1, k \in D PROVE k + 1 \in D
    <3>1. k + 1 \in 1 .. n /\ k + 1 \in 0 .. n /\ k + 1 - 1 = k /\ f[k] \in Claimed
      BY <1>1, <2>2
    <3>2. f[k + 1] = ClaimStep(rows, k + 1, f[k])
      BY <1>10, <3>1
    <3>3. ClaimStep(rows, k + 1, f[k]) \in Claimed
      BY <3>1, StepIs DEF n
    <3> QED  BY <3>1, <3>2, <3>3
  <2> HIDE DEF D
  <2>3. \A k \in 0 .. n : k \in D
    BY <1>1, <2>1, <2>2, UpTo
  <2> QED  BY <2>3 DEF D
<1>12. f \in [0 .. n -> Claimed]
  <2>1. f = [k \in 0 .. n |-> f[k]]
    BY <1>9, <1>10
  <2> QED  BY <1>11, <2>1
<1>13. Claims(rows) = f[n].rows
  BY ClaimsIs DEF f, n
<1> QED  BY <1>10, <1>12, <1>13 DEF n, none

\* A claim so far: of rows and trades there are, and for each kind of trade as many of one
\* as of the other.
Balanced(rows, c) ==
    /\ c.rows \subseteq DOMAIN rows /\ c.trades \subseteq {t.id : t \in trades}
    /\ \A x \in DOMAIN rows :
          Cardinality(c.rows \cap Alike(rows, rows[x])) = Cardinality(c.trades \cap FillIds(rows[x]))

LEMMA IdsFinite ==
    ASSUME Ledger(trades)
    PROVE  IsFiniteSet({t.id : t \in trades}) /\ \A c : FillIds(c) \subseteq {t.id : t \in trades}
<1>1. {t.id : t \in trades} \in SUBSET (1 .. MaxTrades)
  BY DEF Ledger, TradeRows
<1>2. IsFiniteSet(1 .. MaxTrades)
  BY FS_Interval, ImporterAssumption
<1>3. \A c : FillIds(c) \subseteq {t.id : t \in trades}
  BY DEF FillIds
<1> QED  BY <1>1, <1>2, <1>3, FS_Subset

LEMMA RowsFinite ==
    ASSUME NEW rows \in Seq(CandidateRows) PROVE IsFiniteSet(DOMAIN rows)
<1>1. DOMAIN rows = 1 .. Len(rows) /\ 1 \in Int /\ Len(rows) \in Int
  OBVIOUS
<1> QED  BY <1>1, FS_Interval

\* One more of a set, in what the set has in common with another.
LEMMA OneMore ==
    ASSUME NEW S, NEW T, NEW x, IsFiniteSet(S), x \notin S
    PROVE  /\ Cardinality(S \cap T) \in Nat
           /\ Cardinality((S \cup {x}) \cap T) = Cardinality(S \cap T) + (IF x \in T THEN 1 ELSE 0)
<1>1. IsFiniteSet(S \cap T)
  BY FS_Intersection
<1>2. Cardinality(S \cap T) \in Nat
  BY <1>1, FS_CardinalityType
<1>3. CASE x \in T
  <2>1. (S \cup {x}) \cap T = (S \cap T) \cup {x} /\ x \notin S \cap T
    BY <1>3
  <2> QED  BY <1>1, <1>2, <1>3, <2>1, FS_AddElement
<1>4. CASE x \notin T
  <2>1. (S \cup {x}) \cap T = S \cap T
    BY <1>4
  <2>2. Cardinality((S \cup {x}) \cap T) = Cardinality(S \cap T)
    BY <2>1
  <2> QED  BY <1>2, <1>4, <2>2
<1> QED  BY <1>2, <1>3, <1>4

\* A step keeps the balance, row for trade.
LEMMA StepBalanced ==
    ASSUME Ledger(trades), NEW rows \in Seq(CandidateRows), NEW k \in 1 .. 2 * Len(rows),
           NEW c \in Claimed, Balanced(rows, c)
    PROVE  Balanced(rows, ClaimStep(rows, k, c))
<1> DEFINE r == RowAt(rows, k)
           free == FreeFor(rows, k, c)
           id == Min(free)
<1>1. CASE r \in c.rows \/ free = {}
  <2>1. ClaimStep(rows, k, c) = c
    BY <1>1 DEF ClaimStep
  <2> QED  BY <2>1
<1>2. CASE ~(r \in c.rows \/ free = {})
  <2>1. ClaimStep(rows, k, c) = [rows |-> c.rows \cup {r}, trades |-> c.trades \cup {id}]
    BY <1>2 DEF ClaimStep
  <2>2. r \in DOMAIN rows /\ id \in FillIds(rows[r]) /\ id \notin c.trades /\ r \notin c.rows
    BY <1>2, StepIs
  <2> DEFINE d == ClaimStep(rows, k, c)
  <2> HIDE DEF r, free, id
  <2>3. d.rows = c.rows \cup {r} /\ d.trades = c.trades \cup {id}
    BY <2>1
  <2>4. PICK t \in trades : t.id = id /\ SameTrade(t, rows[r])
    BY <2>2 DEF FillIds
  <2>5. IsFiniteSet(c.rows) /\ IsFiniteSet(c.trades)
    BY RowsFinite, IdsFinite, FS_Subset DEF Balanced
  <2>6. ASSUME NEW x \in DOMAIN rows
        PROVE  Cardinality(d.rows \cap Alike(rows, rows[x])) = Cardinality(d.trades \cap FillIds(rows[x]))
    <3> DEFINE A == Alike(rows, rows[x])
               B == FillIds(rows[x])
    <3>1. r \in A <=> SameTrade(rows[r], rows[x])
      BY <2>2 DEF Alike
    <3>2. id \in B <=> SameTrade(t, rows[x])
      <4>1. id \in B <=> \E u \in trades : SameTrade(u, rows[x]) /\ u.id = id
        BY DEF FillIds
      <4>2. \A u \in trades : u.id = id => u = t
        BY <2>4 DEF Ledger
      <4> QED  BY <2>4, <4>1, <4>2
    <3>3. SameTrade(t, rows[x]) <=> SameTrade(rows[r], rows[x])
      BY <2>4 DEF SameTrade
    <3>4. Cardinality(c.rows \cap A) = Cardinality(c.trades \cap B)
      BY DEF Balanced
    <3> HIDE DEF A, B
    <3>5. Cardinality((c.rows \cup {r}) \cap A) = Cardinality(c.rows \cap A) + (IF r \in A THEN 1 ELSE 0)
      BY <2>2, <2>5, OneMore
    <3>6. Cardinality((c.trades \cup {id}) \cap B) = Cardinality(c.trades \cap B) + (IF id \in B THEN 1 ELSE 0)
      BY <2>2, <2>5, OneMore
    <3>7. r \in A <=> id \in B
      BY <3>1, <3>2, <3>3
    <3>8. Cardinality((c.rows \cup {r}) \cap A) = Cardinality((c.trades \cup {id}) \cap B)
      BY <3>4, <3>5, <3>6, <3>7
    <3> QED  BY <2>3, <3>8 DEF A, B
  <2>7. d.rows \subseteq DOMAIN rows /\ d.trades \subseteq {u.id : u \in trades}
    BY <2>2, <2>3, <2>4 DEF Balanced
  <2> QED  BY <2>6, <2>7 DEF Balanced
<1> QED  BY <1>1, <1>2

\* After both passes, a row is claimed or every trade like it answers for another.
LEMMA StepClaims ==
    ASSUME Ledger(trades), NEW rows \in Seq(CandidateRows), NEW r \in DOMAIN rows, NEW c \in Claimed
    PROVE  \/ r \in ClaimStep(rows, Len(rows) + r, c).rows
           \/ FillIds(rows[r]) \subseteq ClaimStep(rows, Len(rows) + r, c).trades
<1> DEFINE k == Len(rows) + r
           d == ClaimStep(rows, k, c)
<1>1. Len(rows) \in Nat /\ r \in 1 .. Len(rows)
  OBVIOUS
<1>2. RowAt(rows, k) = r /\ ~(k <= Len(rows)) /\ k \in 1 .. 2 * Len(rows)
  BY <1>1 DEF RowAt
<1>3. FreeFor(rows, k, c) = FillIds(rows[r]) \ c.trades
  BY <1>2 DEF FreeFor, FillIds
<1>4. CASE r \in c.rows \/ FreeFor(rows, k, c) = {}
  <2>1. d = c
    BY <1>2, <1>4 DEF ClaimStep
  <2> HIDE DEF k
  <2>2. r \in c.rows \/ FillIds(rows[r]) \subseteq c.trades
    BY <1>3, <1>4
  <2> QED  BY <2>1, <2>2 DEF k
<1>5. CASE ~(r \in c.rows \/ FreeFor(rows, k, c) = {})
  <2>1. d.rows = c.rows \cup {r}
    BY <1>2, <1>5 DEF ClaimStep
  <2> QED  BY <2>1
<1> QED  BY <1>4, <1>5

\* What is claimed stays claimed.
LEMMA StepGrows ==
    ASSUME NEW rows, NEW k, NEW c
    PROVE  c.rows \subseteq ClaimStep(rows, k, c).rows /\ c.trades \subseteq ClaimStep(rows, k, c).trades
  BY DEF ClaimStep

\* annotate: for each row, as many of the rows alike are claimed as there are trades alike,
\* or all of them.
LEMMA ClaimsAre ==
    ASSUME Ledger(trades), NEW rows \in Seq(CandidateRows)
    PROVE  /\ Claims(rows) \subseteq DOMAIN rows
           /\ \A x \in DOMAIN rows :
                 LET claimed == Cardinality(Claims(rows) \cap Alike(rows, rows[x]))
                 IN  \/ claimed = Cardinality(Alike(rows, rows[x])) /\ claimed <= Cardinality(FillIds(rows[x]))
                     \/ claimed = Cardinality(FillIds(rows[x])) /\ claimed <= Cardinality(Alike(rows, rows[x]))
<1> DEFINE n == Len(rows)
<1>1. n \in Nat /\ DOMAIN rows = 1 .. n
  OBVIOUS
<1>2. PICK f \in [0 .. 2 * n -> Claimed] :
              /\ f[0] = [rows |-> {}, trades |-> {}]
              /\ \A k \in 1 .. 2 * n : f[k] = ClaimStep(rows, k, f[k - 1])
              /\ Claims(rows) = f[2 * n].rows
  BY ClaimWalk
<1> HIDE DEF n
<1>3. \A k \in 0 .. 2 * n : Balanced(rows, f[k])
  <2> DEFINE D == {k \in 0 .. 2 * n : Balanced(rows, f[k])}
  <2>1. 0 \in D
    <3>1. Balanced(rows, f[0])
      <4>1. f[0].rows = {} /\ f[0].trades = {}
        BY <1>2
      <4>2. \A S : {} \cap S = {}
        OBVIOUS
      <4> QED  BY <4>1, <4>2 DEF Balanced
    <3> QED  BY <1>1, <3>1
  <2>2. ASSUME NEW k \in 0 .. 2 * n - 1, k \in D PROVE k + 1 \in D
    <3>1. k + 1 \in 1 .. 2 * n /\ k + 1 \in 0 .. 2 * n /\ k + 1 - 1 = k /\ k \in 0 .. 2 * n
      BY <1>1
    <3>2. f[k] \in Claimed /\ Balanced(rows, f[k]) /\ f[k + 1] = ClaimStep(rows, k + 1, f[k])
      BY <1>2, <2>2, <3>1
    <3>3. Balanced(rows, ClaimStep(rows, k + 1, f[k]))
      BY <3>1, <3>2, StepBalanced DEF n
    <3> QED  BY <3>1, <3>2, <3>3
  <2> HIDE DEF D
  <2>3. 2 * n \in Nat
    BY <1>1
  <2>4. \A k \in 0 .. 2 * n : k \in D
    BY <2>1, <2>2, <2>3, UpTo
  <2> QED  BY <2>4 DEF D
<1>4. ASSUME NEW j \in 0 .. 2 * n
      PROVE  f[j].rows \subseteq f[2 * n].rows /\ f[j].trades \subseteq f[2 * n].trades
  <2> DEFINE D == {k \in 0 .. 2 * n : j <= k => f[j].rows \subseteq f[k].rows /\ f[j].trades \subseteq f[k].trades}
  <2>1. 0 \in D
    <3>1. j <= 0 => j = 0
      BY <1>1
    <3> QED  BY <1>1, <3>1
  <2>2. ASSUME NEW k \in 0 .. 2 * n - 1, k \in D PROVE k + 1 \in D
    <3>1. k + 1 \in 1 .. 2 * n /\ k + 1 \in 0 .. 2 * n /\ k + 1 - 1 = k /\ k \in 0 .. 2 * n
      BY <1>1
    <3>2. f[k + 1] = ClaimStep(rows, k + 1, f[k])
      BY <1>2, <3>1
    <3>3. f[k].rows \subseteq f[k + 1].rows /\ f[k].trades \subseteq f[k + 1].trades
      BY <3>2, StepGrows
    <3>4. j <= k + 1 => j <= k \/ j = k + 1
      BY <1>1, <3>1
    <3> QED  BY <2>2, <3>1, <3>3, <3>4
  <2> HIDE DEF D
  <2>3. 2 * n \in Nat
    BY <1>1
  <2>4. \A k \in 0 .. 2 * n : k \in D
    BY <2>1, <2>2, <2>3, UpTo
  <2>5. 2 * n \in D /\ j <= 2 * n
    BY <2>3, <2>4
  <2> QED  BY <2>5 DEF D
<1> DEFINE last == f[2 * n]
<1>5. 2 * n \in 0 .. 2 * n
  BY <1>1
<1>6. last \in Claimed /\ Balanced(rows, last) /\ Claims(rows) = last.rows
  BY <1>2, <1>3, <1>5
<1>7. ASSUME NEW r \in DOMAIN rows
      PROVE  r \in last.rows \/ FillIds(rows[r]) \subseteq last.trades
  <2>1. n + r \in 1 .. 2 * n /\ n + r \in 0 .. 2 * n /\ n + r - 1 \in 0 .. 2 * n
    BY <1>1
  <2> DEFINE q == n + r
  <2>2. q \in 1 .. 2 * n
    BY <2>1
  <2> HIDE DEF q
  <2>7. f[q] = ClaimStep(rows, q, f[q - 1])
    BY <1>2, <2>2
  <2> DEFINE k == n + r - 1
  <2>3. k \in 0 .. 2 * n
    BY <2>1
  <2> HIDE DEF k
  <2>4. f[k] \in Claimed
    BY <2>3
  <2>5. r \in f[n + r].rows \/ FillIds(rows[r]) \subseteq f[n + r].trades
    BY <2>4, <2>7, StepClaims DEF n, k, q
  <2>6. f[n + r].rows \subseteq last.rows /\ f[n + r].trades \subseteq last.trades
    BY <1>4, <2>1
  <2> QED  BY <2>5, <2>6
<1> HIDE DEF last
<1>8. Claims(rows) \subseteq DOMAIN rows
  BY <1>6 DEF Balanced
<1>9. ASSUME NEW x \in DOMAIN rows
      PROVE  LET claimed == Cardinality(Claims(rows) \cap Alike(rows, rows[x]))
             IN  \/ claimed = Cardinality(Alike(rows, rows[x])) /\ claimed <= Cardinality(FillIds(rows[x]))
                 \/ claimed = Cardinality(FillIds(rows[x])) /\ claimed <= Cardinality(Alike(rows, rows[x]))
  <2> DEFINE A == Alike(rows, rows[x])
             B == FillIds(rows[x])
  <2>1. Cardinality(last.rows \cap A) = Cardinality(last.trades \cap B)
    BY <1>6 DEF Balanced
  <2>2. A \subseteq DOMAIN rows /\ \A r \in A : FillIds(rows[r]) = B
    BY DEF Alike, FillIds, SameTrade
  <2>3. IsFiniteSet(A) /\ IsFiniteSet(B)
    BY <2>2, RowsFinite, IdsFinite, FS_Subset
  <2>4. A \subseteq last.rows \/ B \subseteq last.trades
    BY <1>7, <2>2
  <2> HIDE DEF A, B
  <2>5. Cardinality(last.rows \cap A) <= Cardinality(A) /\ Cardinality(last.trades \cap B) <= Cardinality(B)
    BY <2>3, FS_Intersection
  <2>6. CASE A \subseteq last.rows
    <3>1. last.rows \cap A = A
      BY <2>6
    <3> QED  BY <1>6, <2>1, <2>5, <3>1 DEF A, B
  <2>7. CASE B \subseteq last.trades
    <3>1. last.trades \cap B = B
      BY <2>7
    <3> QED  BY <1>6, <2>1, <2>5, <3>1 DEF A, B
  <2> QED  BY <2>4, <2>6, <2>7
<1> QED  BY <1>8, <1>9

-----------------------------------------------------------------------------
(***************************************************************************)
(* What a commit adds.                                                     *)
(***************************************************************************)
\* A set and its image, when no two are made one.
LEMMA SameSize ==
    ASSUME NEW S, NEW f, IsFiniteSet(S), \A x, y \in S : f[x] = f[y] => x = y
    PROVE  IsFiniteSet({f[x] : x \in S}) /\ Cardinality({f[x] : x \in S}) = Cardinality(S)
<1> DEFINE T == {f[x] : x \in S}
           g == [x \in S |-> f[x]]
<1>1. g \in [S -> T] /\ \A x \in S : g[x] = f[x]
  OBVIOUS
<1>2. \A y \in T : \E x \in S : g[x] = y
  OBVIOUS
<1> HIDE DEF T, g
<1>3. g \in Bijection(S, T)
  BY <1>1, <1>2 DEF Bijection, Injection, IsInjective, Surjection
<1>4. ExistsBijection(S, T)
  BY <1>3 DEF ExistsBijection
<1>5. IsFiniteSet(T) /\ Cardinality(T) = Cardinality(S)
  BY <1>4, FS_Bijection
<1> QED  BY <1>5 DEF T

\* A ledger is finite, having an id for each trade.
LEMMA LedgerFinite ==
    ASSUME NEW ts, Ledger(ts) PROVE IsFiniteSet(ts) /\ Cardinality(ts) \in Nat
<1> DEFINE f == [t \in ts |-> t.id]
<1>1. f \in Injection(ts, 1 .. MaxTrades)
  BY DEF Ledger, TradeRows, Injection, IsInjective
<1>2. IsFiniteSet(1 .. MaxTrades)
  BY FS_Interval, ImporterAssumption
<1> HIDE DEF f
<1>3. IsFiniteSet(ts)
  BY <1>1, <1>2, FS_Injection
<1> QED  BY <1>3, FS_CardinalityType

\* The trades like c, counted by their ids.
LEMMA FillsAre ==
    ASSUME Ledger(trades), NEW c
    PROVE  /\ IsFiniteSet({t \in trades : SameTrade(t, c)})
           /\ Cardinality(FillIds(c)) = FillsOf(trades, c) /\ FillsOf(trades, c) \in Nat
<1> DEFINE K == {t \in trades : SameTrade(t, c)}
           id == [t \in K |-> t.id]
<1>1. IsFiniteSet(K)
  BY LedgerFinite, FS_Subset
<1>2. \A t, u \in K : id[t] = id[u] => t = u
  BY DEF Ledger
<1>3. FillIds(c) = {id[t] : t \in K}
  BY DEF FillIds
<1>4. FillsOf(trades, c) = Cardinality(K)
  BY DEF FillsOf
<1> HIDE DEF K, id
<1>5. Cardinality(FillIds(c)) = Cardinality(K)
  BY <1>1, <1>2, <1>3, SameSize
<1> QED  BY <1>1, <1>4, <1>5, FS_CardinalityType DEF K

\* Max of two.
LEMMA GreaterOf ==
    ASSUME NEW a \in Int, NEW b \in Int
    PROVE  Max({a, b}) = IF a >= b THEN a ELSE b
<1>1. \E x \in {a, b} : \A y \in {a, b} : x >= y
  OBVIOUS
<1>2. Max({a, b}) \in {a, b} /\ \A y \in {a, b} : Max({a, b}) >= y
  BY <1>1 DEF Max
<1> QED  BY <1>2

\* The fills of each kind after a commit: as many as the file has, or the ledger had.
LEMMA CommitMerges ==
    ASSUME Ledger(trades), NEW rows \in Seq(CandidateRows), NEW r \in DOMAIN rows,
           Largest + Cardinality(Fresh(rows)) <= MaxTrades
    PROVE  FillsOf(trades \cup Inserted(rows), rows[r]) =
              Max({FillsOf(trades, rows[r]),
                   Cardinality({x \in DOMAIN rows : SameTrade(rows[x], rows[r])})})
<1> DEFINE c == rows[r]
           F == Fresh(rows)
           A == Alike(rows, c)
           row == Insert(rows)
           new == {row[x] : x \in F \cap A}
           K == {t \in trades : SameTrade(t, c)}
           taken == Cardinality(Claims(rows) \cap A)
<1>1. Len(rows) \in Nat /\ F \in SUBSET (1 .. Len(rows)) /\ Largest \in Nat
      /\ Numbers(F, Largest, row) /\ Inserted(rows) = {row[x] : x \in F}
  BY InsertedAre
<1>2. /\ \A x \in F : row[x].id \in Largest + 1 .. MaxTrades
      /\ \A x, y \in F : x < y => row[x].id < row[y].id
  <2> HIDE DEF F, row
  <2>1. Largest + Cardinality(F) <= MaxTrades
    BY DEF F
  <2> QED  BY <1>1, <2>1, NumbersAre
<1>3. ASSUME NEW x \in F, NEW y \in F, row[x] = row[y] PROVE x = y
  <2> HIDE DEF F, row
  <2>1. x \in Int /\ y \in Int /\ row[x].id \in Int /\ row[y].id = row[x].id
    BY <1>1, <1>2, <1>3
  <2>2. ~(x < y) /\ ~(y < x)
    <3>1. x < y => row[x].id < row[y].id
      BY <1>2
    <3>2. y < x => row[y].id < row[x].id
      BY <1>2
    <3> QED  BY <2>1, <3>1, <3>2
  <2> QED  BY <2>1, <2>2
<1>4. A \subseteq DOMAIN rows /\ IsFiniteSet(A) /\ IsFiniteSet(F)
  BY RowsFinite, FS_Subset DEF Alike, Fresh
<1>5. F \cap A = A \ Claims(rows)
  BY <1>4 DEF Fresh
<1>6. {t \in trades \cup Inserted(rows) : SameTrade(t, c)} = K \cup new
  <2>1. \A x \in F : SameTrade(row[x], c) <=> x \in A
    BY <1>4 DEF Insert, Recorded, SameTrade, Alike, Fresh
  <2> HIDE DEF F, A, row, c
  <2> QED  BY <1>1, <2>1
<1>7. K \cap new = {}
  <2>1. \A t \in trades : t.id <= Largest
    BY LargestIs
  <2> HIDE DEF F, row, A
  <2>2. \A x \in F : row[x].id > Largest
    BY <1>1, <1>2
  <2>3. \A t \in trades : t.id \in Int
    BY DEF Ledger, TradeRows
  <2>4. ASSUME NEW t \in trades, NEW x \in F, t = row[x] PROVE FALSE
    <3>1. row[x].id <= Largest /\ row[x].id \in Int
      BY <2>1, <2>3, <2>4
    <3> QED  BY <1>1, <2>2, <3>1
  <2> QED  BY <2>4
<1>8. IsFiniteSet(K) /\ Cardinality(K) \in Nat /\ Cardinality(FillIds(c)) = Cardinality(K)
      /\ FillsOf(trades, c) = Cardinality(K)
  BY FillsAre DEF FillsOf
<1>9. IsFiniteSet(new) /\ Cardinality(new) = Cardinality(F \cap A) /\ IsFiniteSet(F \cap A)
  <2> HIDE DEF F, A, row
  <2>1. IsFiniteSet(F \cap A)
    BY <1>4, FS_Intersection
  <2> QED  BY <1>3, <2>1, SameSize
<1>10. FillsOf(trades \cup Inserted(rows), c) = Cardinality(K) + Cardinality(F \cap A)
  <2> HIDE DEF F, A, K, new, c
  <2>1. Cardinality(K \cup new) = Cardinality(K) + Cardinality(new) - Cardinality(K \cap new)
    BY <1>8, <1>9, FS_Union
  <2>2. Cardinality(K \cap new) = 0
    BY <1>7, FS_EmptySet
  <2>3. Cardinality(new) \in Nat
    BY <1>9, FS_CardinalityType
  <2>4. FillsOf(trades \cup Inserted(rows), c) = Cardinality(K \cup new)
    BY <1>6 DEF FillsOf
  <2> QED  BY <1>8, <1>9, <2>1, <2>2, <2>3, <2>4
<1>11. Cardinality(F \cap A) = Cardinality(A) - taken /\ Cardinality(A) \in Nat /\ taken \in Nat
  <2>1. Cardinality(A \ Claims(rows)) = Cardinality(A) - Cardinality(A \cap Claims(rows))
    BY <1>4, FS_Difference
  <2>2. A \cap Claims(rows) = Claims(rows) \cap A
    OBVIOUS
  <2>3. Cardinality(A) \in Nat /\ taken \in Nat
    BY <1>4, FS_Intersection, FS_CardinalityType
  <2> HIDE DEF F, A
  <2> QED  BY <1>5, <2>1, <2>2, <2>3
<1>12. \/ taken = Cardinality(A) /\ taken <= Cardinality(FillIds(c))
       \/ taken = Cardinality(FillIds(c)) /\ taken <= Cardinality(A)
  BY ClaimsAre
<1>13. {x \in DOMAIN rows : SameTrade(rows[x], c)} = A
  BY DEF Alike
<1> HIDE DEF F, A, K, new, c, taken, row
<1>14. FillsOf(trades \cup Inserted(rows), c) = IF Cardinality(K) >= Cardinality(A)
                                               THEN Cardinality(K) ELSE Cardinality(A)
  BY <1>8, <1>10, <1>11, <1>12
<1>15. Max({Cardinality(K), Cardinality(A)}) = IF Cardinality(K) >= Cardinality(A)
                                               THEN Cardinality(K) ELSE Cardinality(A)
  BY <1>8, <1>11, GreaterOf
<1> QED  BY <1>8, <1>13, <1>14, <1>15 DEF c

\* What a step of ImportMerges asks.
Merges ==
    \A s \in SignIns : request[s] # NULL /\ request'[s] # NULL
            /\ request[s].op = "commit" /\ request'[s].op = "unlink" =>
       \A r \in DOMAIN request[s].rows :
          FillsOf(trades', request[s].rows[r]) =
             Max({FillsOf(trades, request[s].rows[r]),
                  Cardinality({x \in DOMAIN request[s].rows :
                                  SameTrade(request[s].rows[x], request[s].rows[r])})})

\* Only a commit takes a request from "commit" to "unlink".
LEMMA OnlyCommits ==
    ASSUME WaitingOK, [ImportNext]_ImportVars, NEW s \in SignIns, request[s] # NULL,
           request'[s] # NULL, request[s].op = "commit", request'[s].op = "unlink"
    PROVE  CsvCommit(s)
<1> SUFFICES ASSUME ~CsvCommit(s) PROVE FALSE
  OBVIOUS
<1>0. request'[s] # request[s]
  OBVIOUS
<1>1. DOMAIN request = SignIns
  BY DEF WaitingOK
<1>2. ~UNCHANGED request
  BY <1>0
<1>3. ~UNCHANGED ImportVars /\ ImportNext
  BY <1>2 DEF ImportVars
<1>4. \A q \in SignIns, u \in Uploads, doc \in Files : ~CsvPreview(q, u, doc)
  BY <1>2 DEF CsvPreview
<1>5. \A q \in SignIns, u \in Uploads : \A op \in {"resolve", "commit"} : ~ReadStaged(q, u, op)
  BY <1>0, <1>1 DEF ReadStaged, AtRest
<1>6. \A q \in SignIns : \A from, to \in Listings : ~CsvResolve(q, from, to)
  BY <1>0, <1>1 DEF CsvResolve
<1>7. \A q \in SignIns : ~CsvCommit(q)
  BY <1>0, <1>1 DEF CsvCommit
<1>8. \A q \in SignIns : ~Unlink(q)
  BY <1>0, <1>1 DEF Unlink
<1>9. \A q \in SignIns, rows \in Advices : ~SaveAdvice(q, rows) /\ ~SaveStatement(q, rows[1])
  BY <1>2 DEF SaveAdvice, SaveStatement, Record
<1>10. \A q \in SignIns, t \in trades : ~TradeDelete(q, t)
  BY <1>2 DEF TradeDelete
<1>11. \A u \in Uploads : ~Sweep(u)
  BY <1>2 DEF Sweep
<1>12. ~Restart
  BY <1>0, <1>1 DEF Restart
<1> QED  BY <1>3, <1>4, <1>5, <1>6, <1>7, <1>8, <1>9, <1>10, <1>11, <1>12 DEF ImportNext

LEMMA StepMerges == ImportInv /\ [ImportNext]_ImportVars => Merges
<1> SUFFICES ASSUME ImportInv, [ImportNext]_ImportVars, NEW s \in SignIns, request[s] # NULL,
                    request'[s] # NULL, request[s].op = "commit", request'[s].op = "unlink",
                    NEW r \in DOMAIN request[s].rows
             PROVE  FillsOf(trades', request[s].rows[r]) =
                       Max({FillsOf(trades, request[s].rows[r]),
                            Cardinality({x \in DOMAIN request[s].rows :
                                  SameTrade(request[s].rows[x], request[s].rows[r])})})
  BY Zenon DEF Merges
<1> DEFINE rows == request[s].rows
<1>1. Ledger(trades) /\ WaitingOK
  BY TypeIs DEF ImportInv
<1>2. CsvCommit(s)
  BY <1>1, OnlyCommits
<1>3. rows \in Seq(CandidateRows)
  BY <1>1, RequestIs DEF AtRest
<1>4. Largest + Cardinality(Fresh(rows)) <= MaxTrades /\ trades' = trades \cup Inserted(rows)
  <2>1. DOMAIN request = SignIns
    BY <1>1 DEF WaitingOK
  <2>2. ~(request' = [request EXCEPT ![s] = NULL])
    BY <2>1
  <2> QED  BY <1>2, <2>2 DEF CsvCommit
<1> HIDE DEF rows
<1>5. r \in DOMAIN rows
  BY DEF rows
<1>6. FillsOf(trades \cup Inserted(rows), rows[r]) =
              Max({FillsOf(trades, rows[r]),
                   Cardinality({x \in DOMAIN rows : SameTrade(rows[x], rows[r])})})
  BY <1>1, <1>3, <1>4, <1>5, CommitMerges
<1> QED  BY <1>4, <1>6 DEF rows

\* A commit leaves each trade as often as the file has it or the ledger had it, whichever is
\* more, whatever was recorded since the preview: annotate lets a trade answer for one row, so
\* for each kind of trade the rows claimed are as many as the trades, or all the rows.
THEOREM ImportsMerge == ImportSpec => ImportMerges
<1>1. ImportInv /\ [ImportNext]_ImportVars => Merges
  BY StepMerges
<1>2. Merges <=>
        \A s \in SignIns : request[s] # NULL /\ request'[s] # NULL
            /\ request[s].op = "commit" /\ request'[s].op = "unlink" =>
          LET rows == request[s].rows
          IN  \A r \in DOMAIN rows :
                 FillsOf(trades', rows[r]) =
                    Max({FillsOf(trades, rows[r]),
                         Cardinality({x \in DOMAIN rows : SameTrade(rows[x], rows[r])})})
  BY DEF Merges
<1> QED  BY <1>1, <1>2, ImportInvariant, PTL DEF ImportSpec, ImportMerges

-----------------------------------------------------------------------------
(***************************************************************************)
(* A listing's timeline, and the totals along it.                          *)
(***************************************************************************)
\* Entries, no two of one moment, and what comes before what.
Moments(E) == IsFiniteSet(E) /\ E \subseteq EntryRows /\ \A a, b \in E : a.at = b.at => a = b

Sooner(E) == {p \in E \X E : Less(p[1].at, p[2].at)}

\* A list of a set's elements, in their order.
Lists(f, E) ==
    /\ Cardinality(E) \in Nat /\ f \in [1 .. Cardinality(E) -> E]
    /\ \A i, j \in 1 .. Cardinality(E) : i < j => Less(f[i].at, f[j].at)
    /\ \A x \in E : \E i \in 1 .. Cardinality(E) : f[i] = x

\* A moment is four integers, the first difference deciding.
LEMMA AtIs ==
    ASSUME NEW a \in EntryRows, NEW b \in EntryRows
    PROVE  /\ a.at[1] \in Int /\ a.at[2] \in Int /\ a.at[3] \in Int /\ a.at[4] \in Int
           /\ a.at = <<a.at[1], a.at[2], a.at[3], a.at[4]>>
           /\ Less(a.at, b.at) <=> Ahead(a.at, b.at)
<1>1. a.at \in Int \X Int \X Int \X Int /\ b.at \in Int \X Int \X Int \X Int
  BY DEF EntryRows
<1>2. Less(a.at, b.at) <=> Ahead(a.at, b.at)
  BY <1>1, Less4
<1> QED  BY <1>1, <1>2

\* Moments are in order.
LEMMA MomentsOrder ==
    ASSUME NEW E, Moments(E)
    PROVE  Orders(E, Sooner(E))
<1>1. \A x, y \in E : <<x, y>> \in Sooner(E) <=> Less(x.at, y.at)
  BY DEF Sooner
<1>2. \A x \in E : x \in EntryRows
  BY DEF Moments
<1>3. \A x \in E : <<x, x>> \notin Sooner(E)
  <2> SUFFICES ASSUME NEW x \in E PROVE ~Less(x.at, x.at)
    BY <1>1
  <2>1. x \in EntryRows
    BY <1>2
  <2>2. /\ x.at[1] \in Int /\ x.at[2] \in Int /\ x.at[3] \in Int /\ x.at[4] \in Int
        /\ Less(x.at, x.at) <=> Ahead(x.at, x.at)
    BY <2>1, AtIs
  <2>3. ~Ahead(x.at, x.at)
    BY <2>2 DEF Ahead
  <2> QED  BY <2>2, <2>3
<1>4. ASSUME NEW x \in E, NEW y \in E, NEW z \in E, Less(x.at, y.at), Less(y.at, z.at)
      PROVE  Less(x.at, z.at)
  <2>1. /\ x.at[1] \in Int /\ x.at[2] \in Int /\ x.at[3] \in Int /\ x.at[4] \in Int
        /\ y.at[1] \in Int /\ y.at[2] \in Int /\ y.at[3] \in Int /\ y.at[4] \in Int
        /\ z.at[1] \in Int /\ z.at[2] \in Int /\ z.at[3] \in Int /\ z.at[4] \in Int
    BY <1>2, AtIs
  <2>2. Ahead(x.at, y.at) /\ Ahead(y.at, z.at)
    BY <1>2, <1>4, AtIs
  <2>3. Ahead(x.at, z.at)
    BY <2>1, <2>2 DEF Ahead
  <2>4. x \in EntryRows /\ z \in EntryRows
    BY <1>2
  <2>5. Less(x.at, z.at) <=> Ahead(x.at, z.at)
    BY <2>4, AtIs
  <2> QED  BY <2>3, <2>5
<1>5. ASSUME NEW x \in E, NEW y \in E, x # y
      PROVE  Less(x.at, y.at) \/ Less(y.at, x.at)
  <2>1. /\ x.at[1] \in Int /\ x.at[2] \in Int /\ x.at[3] \in Int /\ x.at[4] \in Int
        /\ y.at[1] \in Int /\ y.at[2] \in Int /\ y.at[3] \in Int /\ y.at[4] \in Int
    BY <1>2, AtIs
  <2>2. ~(x.at[1] = y.at[1] /\ x.at[2] = y.at[2] /\ x.at[3] = y.at[3] /\ x.at[4] = y.at[4])
    <3>1. x.at # y.at
      BY <1>5 DEF Moments
    <3>2. x.at = <<x.at[1], x.at[2], x.at[3], x.at[4]>> /\ y.at = <<y.at[1], y.at[2], y.at[3], y.at[4]>>
      BY <1>2, AtIs
    <3> QED  BY <3>1, <3>2
  <2>3. Ahead(x.at, y.at) \/ Ahead(y.at, x.at)
    BY <2>1, <2>2 DEF Ahead
  <2>4. x \in EntryRows /\ y \in EntryRows
    BY <1>2
  <2>5. (Less(x.at, y.at) <=> Ahead(x.at, y.at)) /\ (Less(y.at, x.at) <=> Ahead(y.at, x.at))
    BY <2>4, AtIs
  <2> QED  BY <2>3, <2>5
<1>6. IsFiniteSet(E)
  BY DEF Moments
<1> QED  BY <1>1, <1>3, <1>4, <1>5, <1>6 DEF Orders

\* The timeline lists them all, in that order.
LEMMA TimelineIs ==
    ASSUME NEW E, Moments(E)
    PROVE  Lists(Timeline(E), E) /\ Timeline(E) \in Seq(EntryRows) /\ Len(Timeline(E)) = Cardinality(E)
<1> DEFINE n == Cardinality(E)
           before(x) == {y \in E : Less(y.at, x.at)}
           f == Timeline(E)
<1>1. Orders(E, Sooner(E)) /\ n \in Nat
  BY MomentsOrder, FS_CardinalityType DEF Moments
<1>2. f = [k \in 1 .. n |-> CHOOSE x \in E : Cardinality(before(x)) = k - 1]
  BY DEF Timeline, InOrder
<1>3. \A x \in E : before(x) = Prior(E, Sooner(E), x)
  BY DEF Prior, Sooner
<1> HIDE DEF before, f, n
<1>4. \A k \in 1 .. n : f[k] = CHOOSE x \in E : Cardinality(before(x)) = k - 1
  BY <1>2
<1>5. ASSUME NEW k \in 1 .. n, NEW x \in E, Cardinality(Prior(E, Sooner(E), x)) = k - 1
      PROVE  f[k] \in E /\ Cardinality(Prior(E, Sooner(E), f[k])) = k - 1
  <2>1. Cardinality(before(x)) = k - 1
    BY <1>3, <1>5
  <2>2. f[k] \in E /\ Cardinality(before(f[k])) = k - 1
    BY <1>4, <2>1
  <2> QED  BY <1>3, <2>2
<1>6. f = [k \in 1 .. n |-> f[k]]
  BY <1>2
<1>7. /\ f \in [1 .. n -> E]
      /\ \A i, j \in 1 .. n : i < j => <<f[i], f[j]>> \in Sooner(E)
      /\ \A x \in E : \E k \in 1 .. n : f[k] = x
  <2>1. f = [k \in 1 .. Cardinality(E) |-> f[k]]
    BY <1>6 DEF n
  <2>2. \A k \in 1 .. Cardinality(E) :
           (\E x \in E : Cardinality(Prior(E, Sooner(E), x)) = k - 1)
               => f[k] \in E /\ Cardinality(Prior(E, Sooner(E), f[k])) = k - 1
    BY <1>5 DEF n
  <2>3. Orders(E, Sooner(E))
    BY <1>1
  <2>4. /\ f \in [1 .. Cardinality(E) -> E]
        /\ \A i, j \in 1 .. Cardinality(E) : i < j => <<f[i], f[j]>> \in Sooner(E)
        /\ \A x \in E : \E k \in 1 .. Cardinality(E) : f[k] = x
    <3>1. Picks(f, E, Sooner(E))
      BY <2>1, <2>2 DEF Picks
    <3> QED  BY <2>3, <3>1, Ranked
  <2> QED  BY <2>4 DEF n
<1>8. Lists(f, E)
  BY <1>1, <1>7 DEF Lists, n, Sooner
<1>9. f \in Seq(EntryRows) /\ Len(f) = n
  <2>1. E \subseteq EntryRows
    BY DEF Moments
  <2> QED  BY <1>1, <1>7, <2>1
<1> QED  BY <1>8, <1>9 DEF f, n

\* What `total` of Totals is.
Totalling(f, line) ==
    f = [i \in 0 .. Len(line) |-> IF i = 0 THEN 0 ELSE f[i - 1] + line[i].change]

LEMMA TotalsDef == ASSUME NEW line PROVE Totals(line) = CHOOSE f : Totalling(f, line)
  BY DEF Totals, Totalling

\* A recursive function stays in V when each step does.
LEMMA WalkTyped ==
    ASSUME NEW n \in Nat, NEW V, NEW v \in V, NEW G \in [(1 .. n) \X V -> V], NEW f,
           f = [i \in 0 .. n |-> f[i]], f[0] = v,
           \A i \in 1 .. n : f[i - 1] \in V => f[i] = G[<<i, f[i - 1]>>]
    PROVE  Walks(f, n, V, v, G)
<1> DEFINE D == {i \in 0 .. n : f[i] \in V}
<1>1. 0 \in D
  OBVIOUS
<1>2. ASSUME NEW k \in 0 .. n - 1, k \in D PROVE k + 1 \in D
  <2>1. k + 1 \in 1 .. n /\ k + 1 \in 0 .. n /\ k + 1 - 1 = k /\ f[k] \in V
    BY <1>2
  <2> DEFINE q == k + 1
  <2>2. q \in 1 .. n /\ f[q - 1] \in V
    BY <2>1
  <2> HIDE DEF q
  <2>3. f[q] = G[<<q, f[q - 1]>>]
    BY <2>2
  <2>4. f[q] \in V
    BY <2>2, <2>3
  <2> QED  BY <2>1, <2>4 DEF q
<1> HIDE DEF D
<1>3. \A k \in 0 .. n : k \in D
  BY <1>1, <1>2, UpTo
<1>4. \A i \in 0 .. n : f[i] \in V
  BY <1>3 DEF D
<1>5. f \in [0 .. n -> V]
  BY <1>4
<1>6. ASSUME NEW i \in 1 .. n PROVE f[i] = G[<<i, f[i - 1]>>]
  <2>1. i - 1 \in 0 .. n
    OBVIOUS
  <2>2. f[i - 1] \in V
    BY <1>4, <2>1
  <2> QED  BY <2>2
<1> QED  BY <1>5, <1>6 DEF Walks

\* The totals are the sums up to each place.
LEMMA TotalsIs ==
    ASSUME NEW line \in Seq(EntryRows)
    PROVE  /\ Totals(line) \in [0 .. Len(line) -> Int] /\ Totals(line)[0] = 0
           /\ \A i \in 1 .. Len(line) : Totals(line)[i] = Totals(line)[i - 1] + line[i].change
<1> DEFINE n == Len(line)
           G == [p \in (1 .. n) \X Int |-> p[2] + line[p[1]].change]
<1>1. n \in Nat /\ 0 \in Int /\ \A i \in 1 .. n : line[i].change \in Int
  <2> HIDE DEF G
  <2>1. n \in Nat /\ \A i \in 1 .. n : line[i] \in EntryRows
    OBVIOUS
  <2> HIDE DEF n
  <2>2. \A e \in EntryRows : e.change \in Int
    BY DEF EntryRows
  <2> QED  BY <2>1, <2>2
<1>2. G \in [(1 .. n) \X Int -> Int] /\ \A i \in 1 .. n, v \in Int : G[<<i, v>>] = v + line[i].change
  BY <1>1
<1> HIDE DEF n, G
<1>3. PICK g : Walks(g, n, Int, 0, G)
  BY <1>1, <1>2, WalkExists
<1>4. Totalling(g, line)
  <2>1. g \in [0 .. n -> Int] /\ g[0] = 0 /\ \A i \in 1 .. n : g[i] = G[<<i, g[i - 1]>>]
    BY <1>3 DEF Walks
  <2>2. ASSUME NEW i \in 0 .. n PROVE g[i] = IF i = 0 THEN 0 ELSE g[i - 1] + line[i].change
    <3>1. CASE i = 0
      BY <2>1, <3>1
    <3>2. CASE i # 0
      <4>1. i \in 1 .. n /\ i - 1 \in 0 .. n
        BY <1>1, <3>2
      <4>2. g[i - 1] \in Int
        BY <2>1, <4>1
      <4> QED  BY <1>2, <2>1, <3>2, <4>1, <4>2
    <3> QED  BY <3>1, <3>2
  <2>3. g = [i \in 0 .. n |-> g[i]]
    BY <2>1
  <2> QED  BY <2>2, <2>3 DEF Totalling, n
<1> DEFINE f == CHOOSE h : Totalling(h, line)
<1>5. Totalling(f, line)
  BY <1>4
<1>6. Totals(line) = f
  BY TotalsDef
<1> HIDE DEF f
<1>7. f = [i \in 0 .. n |-> IF i = 0 THEN 0 ELSE f[i - 1] + line[i].change]
  BY <1>5 DEF Totalling, n
<1>8. f[0] = 0 /\ f = [i \in 0 .. n |-> f[i]] /\ \A i \in 1 .. n : f[i] = f[i - 1] + line[i].change
  <2>1. 0 \in 0 .. n /\ \A i \in 1 .. n : i \in 0 .. n /\ i # 0
    BY <1>1
  <2> QED  BY <1>7, <2>1
<1>9. Walks(f, n, Int, 0, G)
  <2>1. \A i \in 1 .. n : f[i - 1] \in Int => f[i] = G[<<i, f[i - 1]>>]
    BY <1>2, <1>8
  <2>2. G \in [(1 .. n) \X Int -> Int] /\ n \in Nat /\ 0 \in Int
    BY <1>1, <1>2
  <2>3. f[0] = 0 /\ f = [i \in 0 .. n |-> f[i]]
    BY <1>8
  <2> QED  BY <2>1, <2>2, <2>3, WalkTyped
<1>10. f \in [0 .. n -> Int]
  BY <1>9 DEF Walks
<1> QED  BY <1>6, <1>8, <1>10 DEF n

\* Some of the entries are entries.
LEMMA PartMoments ==
    ASSUME NEW F, Moments(F), NEW E, E \subseteq F PROVE Moments(E)
<1>1. IsFiniteSet(E)
  BY FS_Subset DEF Moments
<1> QED  BY <1>1 DEF Moments

\* A list is in order, and nothing is on it twice.
LEMMA ListOrder ==
    ASSUME NEW E, Moments(E), NEW f, Lists(f, E),
           NEW i \in 1 .. Cardinality(E), NEW j \in 1 .. Cardinality(E)
    PROVE  /\ Less(f[i].at, f[j].at) <=> i < j
           /\ f[i] = f[j] => i = j
<1>1. f[i] \in E /\ f[j] \in E /\ i \in Int /\ j \in Int
  BY DEF Lists
<1>2. (i < j => Less(f[i].at, f[j].at)) /\ (j < i => Less(f[j].at, f[i].at))
  BY DEF Lists
<1>3. \A x \in E : ~Less(x.at, x.at)
  BY MomentsOrder DEF Orders, Sooner
<1>4. \A x, y, z \in E : Less(x.at, y.at) /\ Less(y.at, z.at) => Less(x.at, z.at)
  <2>1. \A x, y \in E : <<x, y>> \in Sooner(E) <=> Less(x.at, y.at)
    BY DEF Sooner
  <2>2. \A x, y, z \in E : <<x, y>> \in Sooner(E) /\ <<y, z>> \in Sooner(E) => <<x, z>> \in Sooner(E)
    BY MomentsOrder DEF Orders
  <2> QED  BY <2>1, <2>2
<1>5. f[i] = f[j] => ~(i < j) /\ ~(j < i)
  BY <1>1, <1>2, <1>3
<1>6. f[i] = f[j] => i = j
  BY <1>1, <1>5
<1>7. j < i => ~Less(f[i].at, f[j].at)
  BY <1>1, <1>2, <1>3, <1>4
<1>8. i = j => ~Less(f[i].at, f[j].at)
  BY <1>1, <1>3
<1> QED  BY <1>1, <1>2, <1>6, <1>7, <1>8

\* The place of each is one more than what is sooner.
LEMMA PlaceIs ==
    ASSUME NEW E, Moments(E), NEW f, Lists(f, E), NEW q \in 1 .. Cardinality(E)
    PROVE  Cardinality({y \in E : Less(y.at, f[q].at)}) = q - 1
<1> DEFINE n == Cardinality(E)
           P == {y \in E : Less(y.at, f[q].at)}
<1>1. n \in Nat /\ \A i \in 1 .. n : f[i] \in E
  BY DEF Lists
<1>2. \A i, j \in 1 .. n : (Less(f[i].at, f[j].at) <=> i < j) /\ (f[i] = f[j] => i = j)
  BY ListOrder
<1>3. q - 1 \in Nat /\ 1 .. q - 1 \subseteq 1 .. n /\ \A i \in 1 .. n : i < q <=> i \in 1 .. q - 1
  BY <1>1
<1>4. P = {f[i] : i \in 1 .. q - 1}
  <2>1. ASSUME NEW y \in P PROVE \E i \in 1 .. q - 1 : y = f[i]
    <3>1. PICK i \in 1 .. n : f[i] = y
      BY DEF Lists
    <3>2. i < q
      BY <1>2, <3>1
    <3> QED  BY <1>3, <3>1, <3>2
  <2>2. ASSUME NEW i \in 1 .. q - 1 PROVE f[i] \in P
    <3>1. i \in 1 .. n /\ i < q
      BY <1>3
    <3> QED  BY <1>1, <1>2, <3>1
  <2> QED  BY <2>1, <2>2
<1>5. IsFiniteSet(1 .. q - 1) /\ Cardinality(1 .. q - 1) = q - 1
  <2>1. 1 \in Int /\ q - 1 \in Int
    BY <1>3
  <2>2. IsFiniteSet(1 .. q - 1) /\ Cardinality(1 .. q - 1) = IF 1 > q - 1 THEN 0 ELSE q - 1 - 1 + 1
    BY <2>1, FS_Interval, Zenon
  <2>3. (IF 1 > q - 1 THEN 0 ELSE q - 1 - 1 + 1) = q - 1
    BY <1>3
  <2> QED  BY <2>2, <2>3
<1>6. \A i, j \in 1 .. q - 1 : f[i] = f[j] => i = j
  BY <1>2, <1>3
<1> DEFINE S == 1 .. q - 1
<1>7. P = {f[i] : i \in S} /\ IsFiniteSet(S) /\ Cardinality(S) = q - 1
  BY <1>4, <1>5
<1>8. \A x, y \in S : f[x] = f[y] => x = y
  BY <1>6
<1> HIDE DEF P, S
<1>9. Cardinality({f[i] : i \in S}) = Cardinality(S)
  BY <1>7, <1>8, SameSize
<1>10. Cardinality(P) = q - 1
  BY <1>7, <1>9
<1> QED  BY <1>10 DEF P

\* There is one list in order.
LEMMA OneList ==
    ASSUME NEW E, Moments(E), NEW f, NEW g, Lists(f, E), Lists(g, E)
    PROVE  f = g
<1> DEFINE n == Cardinality(E)
<1>1. f \in [1 .. n -> E] /\ g \in [1 .. n -> E] /\ n \in Nat
  BY DEF Lists
<1>2. ASSUME NEW i \in 1 .. n PROVE f[i] = g[i]
  <2>1. PICK q \in 1 .. n : g[q] = f[i]
    BY <1>1 DEF Lists
  <2>2. Cardinality({y \in E : Less(y.at, f[i].at)}) = i - 1
    BY PlaceIs
  <2>3. Cardinality({y \in E : Less(y.at, g[q].at)}) = q - 1
    BY PlaceIs
  <2>4. i - 1 = q - 1
    BY <2>1, <2>2, <2>3
  <2>5. i = q
    BY <2>4
  <2> QED  BY <2>1, <2>5
<1> QED  BY <1>1, <1>2

-----------------------------------------------------------------------------
(***************************************************************************)
(* A timeline is covered when no total on it is below nothing.             *)
(***************************************************************************)
Afloat(E) == \A i \in 1 .. Cardinality(E) : Totals(Timeline(E))[i] >= 0

\* balance_breach finds none when no total is below nothing.
LEMMA BreachIs ==
    ASSUME NEW E, Moments(E) PROVE Breach(E) = NULL <=> Afloat(E)
<1> DEFINE line == Timeline(E)
           total == Totals(line)
           n == Cardinality(E)
           short == {i \in DOMAIN line : total[i] < 0}
           least == CHOOSE i \in short : \A j \in short : i <= j
<1>1. n \in Nat /\ line \in Seq(EntryRows) /\ Len(line) = n /\ DOMAIN line = 1 .. n
  BY TimelineIs DEF Lists
<1>2. total \in [0 .. n -> Int]
  BY <1>1, TotalsIs
<1>3. Breach(E) = IF short = {} THEN NULL
                  ELSE [trade |-> line[least], balance |-> total[least], before |-> total[least - 1]]
  BY DEF Breach
<1> HIDE DEF total, line, n
<1>4. short = {} <=> \A i \in 1 .. n : total[i] >= 0
  <2>1. \A i \in 1 .. n : total[i] \in Int
    BY <1>1, <1>2
  <2> QED  BY <1>1, <2>1
<1>5. ASSUME short # {} PROVE Breach(E) # NULL
  <2>1. short \in SUBSET Nat
    BY <1>1
  <2>2. \E i \in short : \A j \in short : i <= j
    BY <1>5, <2>1, LeastNat
  <2>3. least \in short
    BY <2>2
  <2> HIDE DEF least
  <2>4. least \in 1 .. n
    BY <1>1, <2>3
  <2>5. line[least] \in EntryRows
    BY <1>1, <2>4
  <2>6. least \in 0 .. n /\ least - 1 \in 0 .. n
    BY <1>1, <2>4
  <2>7. total[least] \in Int /\ total[least - 1] \in Int
    BY <1>2, <2>6
  <2>8. [trade |-> line[least], balance |-> total[least], before |-> total[least - 1]] \in Breaches
    BY <2>5, <2>7 DEF Breaches
  <2> HIDE DEF short
  <2> QED  BY <1>3, <1>5, <2>8, ImporterAssumption
<1> HIDE DEF short, least
<1> QED  BY <1>3, <1>4, <1>5 DEF Afloat, total, line, n

\* The running totals of those entries of F that are in E.
Sums(m, E, F) ==
    /\ m[0] = 0
    /\ \A i \in 1 .. Cardinality(F) :
          m[i] = m[i - 1] + (IF Timeline(F)[i] \in E THEN Timeline(F)[i].change ELSE 0)

\* They are totals of E's own timeline: each entry of F that is not in E leaves them as they are.
LEMMA SumsAre ==
    ASSUME NEW F, Moments(F), NEW E, E \subseteq F, NEW m, Sums(m, E, F),
           NEW i \in 0 .. Cardinality(F)
    PROVE  \E j \in 0 .. Cardinality(E) : m[i] = Totals(Timeline(E))[j]
<1> DEFINE n == Cardinality(F)
           e == Cardinality(E)
           line == Timeline(F)
           own == Timeline(E)
           total == Totals(own)
           past(k) == {y \in E : \E h \in 1 .. k : line[h] = y}
           D == {k \in 0 .. n : Cardinality(past(k)) \in 0 .. e /\ m[k] = total[Cardinality(past(k))]}
<1>1. Moments(E) /\ IsFiniteSet(E)
  BY PartMoments DEF Moments
<1>2. /\ n \in Nat /\ Lists(line, F) /\ line \in Seq(EntryRows) /\ Len(line) = n
      /\ \A k \in 1 .. n : line[k] \in F /\ line[k] \in EntryRows
  BY TimelineIs DEF Lists, Moments
<1>3. e \in Nat /\ Lists(own, E) /\ own \in Seq(EntryRows) /\ Len(own) = e
  BY <1>1, TimelineIs DEF Lists
<1>4. total \in [0 .. e -> Int] /\ total[0] = 0
      /\ \A k \in 1 .. e : total[k] = total[k - 1] + own[k].change
  BY <1>3, TotalsIs
<1>5. m[0] = 0 /\ \A k \in 1 .. n : m[k] = m[k - 1] + (IF line[k] \in E THEN line[k].change ELSE 0)
  BY DEF Sums
<1> HIDE DEF n, e, line, own, total
<1>6. 0 \in D
  <2>1. past(0) = {}
    OBVIOUS
  <2>2. Cardinality(past(0)) = 0
    BY <2>1, FS_EmptySet
  <2> HIDE DEF past
  <2> QED  BY <1>2, <1>3, <1>4, <1>5, <2>2
<1>7. ASSUME NEW k \in 0 .. n - 1, k \in D PROVE k + 1 \in D
  <2> DEFINE q == k + 1
             x == line[q]
  <2>1. q \in 1 .. n /\ q \in 0 .. n /\ q - 1 = k /\ k \in 0 .. n /\ k \in Nat
        /\ \A h \in 1 .. q : h = q \/ h \in 1 .. k
    BY <1>2
  <2>2. Cardinality(past(k)) \in 0 .. e /\ m[k] = total[Cardinality(past(k))]
    BY <1>7
  <2>3. x \in F /\ x \in EntryRows /\ \A h \in 1 .. k : h \in 1 .. n /\ h < q
    BY <1>2, <2>1
  <2>4. m[q] = m[k] + (IF x \in E THEN x.change ELSE 0)
    BY <1>5, <2>1
  <2>5. x \notin past(k)
    <3>1. SUFFICES ASSUME NEW h \in 1 .. k, line[h] = x PROVE FALSE
      OBVIOUS
    <3>2. h \in 1 .. n /\ h < q
      BY <2>3
    <3>3. h = q
      BY <1>2, <2>1, <3>1, <3>2, ListOrder DEF n
    <3> QED  BY <2>1, <3>2, <3>3
  <2>6. 1 .. k \subseteq 1 .. q /\ q \in 1 .. q
    BY <2>1
  <2> HIDE DEF D, q
  <2>7. CASE x \notin E
    <3>1. past(q) = past(k)
      BY <2>1, <2>6, <2>7
    <3>2. m[q] = m[k]
      <4>1. total[Cardinality(past(k))] \in Int
        BY <1>4, <2>2
      <4> HIDE DEF past, x
      <4>2. m[q] = m[k] + 0 /\ m[k] \in Int
        BY <2>2, <2>4, <2>7, <4>1
      <4> QED  BY <4>2
    <3> HIDE DEF past
    <3> QED  BY <2>1, <2>2, <3>1, <3>2 DEF D, q
  <2>8. CASE x \in E
    <3>1. past(q) = past(k) \cup {x}
      BY <2>1, <2>6, <2>8
    <3>2. past(k) = {y \in E : Less(y.at, x.at)}
      <4>1. ASSUME NEW y \in past(k) PROVE Less(y.at, x.at)
        <5>1. PICK h \in 1 .. k : line[h] = y
          OBVIOUS
        <5>2. h \in 1 .. n /\ h < q
          BY <2>3, <5>1
        <5> QED  BY <1>2, <2>1, <5>1, <5>2, ListOrder DEF n
      <4>2. ASSUME NEW y \in E, Less(y.at, x.at) PROVE y \in past(k)
        <5>1. PICK h \in 1 .. n : line[h] = y
          BY <1>2 DEF Lists, n
        <5>2. h < q
          BY <1>2, <2>1, <4>2, <5>1, ListOrder DEF n
        <5>3. h \in 1 .. k
          BY <2>1, <5>2
        <5> QED  BY <5>1, <5>3
      <4> QED  BY <4>1, <4>2
    <3>3. PICK p \in 1 .. e : own[p] = x
      BY <1>3, <2>8 DEF Lists, e
    <3>4. Cardinality({y \in E : Less(y.at, own[p].at)}) = p - 1
      BY <1>1, <1>3, PlaceIs DEF e
    <3>5. Cardinality(past(k)) = p - 1 /\ p \in Int
      <4>1. p \in Int
        BY <1>3
      <4> HIDE DEF past, x
      <4>2. Cardinality({y \in E : Less(y.at, x.at)}) = p - 1
        BY <3>3, <3>4
      <4> QED  BY <3>2, <4>1, <4>2
    <3>6. Cardinality(past(q)) = p
      <4>1. IsFiniteSet(past(k))
        BY <1>1, FS_Subset
      <4> HIDE DEF past, x
      <4>2. Cardinality(past(q)) = Cardinality(past(k)) + 1
        BY <2>5, <3>1, <4>1, FS_AddElement
      <4> QED  BY <3>5, <4>2
    <3>7. m[k] = total[p - 1]
      BY <2>2, <3>5
    <3>8. m[q] = total[p - 1] + own[p].change
      BY <2>4, <2>8, <3>3, <3>7
    <3>9. total[p] = m[q]
      BY <1>4, <3>8
    <3>10. p \in 0 .. e
      BY <1>3
    <3> HIDE DEF past
    <3>11. q \in 0 .. n /\ Cardinality(past(q)) \in 0 .. e /\ m[q] = total[Cardinality(past(q))]
      BY <2>1, <3>6, <3>9, <3>10
    <3> QED  BY <3>11 DEF D, q
  <2> QED  BY <2>7, <2>8
<1> HIDE DEF D
<1>8. \A k \in 0 .. n : k \in D
  BY <1>2, <1>6, <1>7, UpTo
<1>9. i \in D
  BY <1>8 DEF n
<1>10. \E j \in 0 .. e : m[i] = total[j]
  <2> HIDE DEF past
  <2> QED  BY <1>9 DEF D
<1> QED  BY <1>10 DEF e, total, own

\* Along a longer timeline, the totals of a covered one are never below nothing.
LEMMA SumsAfloat ==
    ASSUME NEW F, Moments(F), NEW E, E \subseteq F, Afloat(E)
    PROVE  \E m \in [0 .. Cardinality(F) -> Int] : Sums(m, E, F) /\ \A k \in 0 .. Cardinality(F) : m[k] >= 0
<1> DEFINE n == Cardinality(F)
           line == Timeline(F)
           G == [p \in (1 .. n) \X Int |-> p[2] + (IF line[p[1]] \in E THEN line[p[1]].change ELSE 0)]
<1>1. n \in Nat /\ \A k \in 1 .. n : line[k] \in EntryRows
  BY TimelineIs DEF Lists, Moments
<1>2. \A k \in 1 .. n : line[k].change \in Int
  BY <1>1 DEF EntryRows
<1> HIDE DEF n, line
<1>3. G \in [(1 .. n) \X Int -> Int]
      /\ \A k \in 1 .. n, v \in Int : G[<<k, v>>] = v + (IF line[k] \in E THEN line[k].change ELSE 0)
  <2>1. \A k \in 1 .. n, v \in Int : v + (IF line[k] \in E THEN line[k].change ELSE 0) \in Int
    BY <1>2
  <2> QED  BY <2>1
<1> HIDE DEF G
<1>4. PICK m : Walks(m, n, Int, 0, G)
  <2>1. n \in Nat /\ 0 \in Int /\ G \in [(1 .. n) \X Int -> Int]
    BY <1>1, <1>3
  <2> QED  BY <2>1, WalkExists
<1>5. m \in [0 .. n -> Int] /\ m[0] = 0
      /\ \A k \in 1 .. n : m[k] = m[k - 1] + (IF line[k] \in E THEN line[k].change ELSE 0)
  <2>1. m \in [0 .. n -> Int] /\ m[0] = 0 /\ \A k \in 1 .. n : m[k] = G[<<k, m[k - 1]>>]
    BY <1>4 DEF Walks
  <2>2. ASSUME NEW k \in 1 .. n PROVE m[k - 1] \in Int
    <3>1. k - 1 \in 0 .. n
      BY <1>1
    <3> QED  BY <2>1, <3>1
  <2> QED  BY <1>3, <2>1, <2>2
<1>6. Sums(m, E, F)
  BY <1>5 DEF Sums, n, line
<1>7. \A k \in 0 .. n : m[k] >= 0
  <2> SUFFICES ASSUME NEW k \in 0 .. n PROVE m[k] >= 0
    OBVIOUS
  <2>1. PICK j \in 0 .. Cardinality(E) : m[k] = Totals(Timeline(E))[j]
    BY <1>6, SumsAre DEF n
  <2>2. Moments(E)
    BY PartMoments
  <2>3. Cardinality(E) \in Nat /\ Totals(Timeline(E))[0] = 0
    BY <2>2, TimelineIs, TotalsIs DEF Lists
  <2>4. CASE j = 0
    BY <2>1, <2>3, <2>4
  <2>5. CASE j # 0
    <3>1. j \in 1 .. Cardinality(E)
      BY <2>3, <2>5
    <3> QED  BY <2>1, <3>1 DEF Afloat
  <2> QED  BY <2>4, <2>5
<1>8. m \in [0 .. n -> Int]
  BY <1>5
<1> QED  BY <1>6, <1>7, <1>8 DEF n

\* A covered timeline stays covered when what is added only adds.
LEMMA GainAfloat ==
    ASSUME NEW F, Moments(F), NEW E, E \subseteq F, Afloat(E), \A x \in F \ E : x.change >= 0
    PROVE  Afloat(F)
<1> DEFINE n == Cardinality(F)
           line == Timeline(F)
           total == Totals(line)
<1>1. /\ n \in Nat /\ line \in Seq(EntryRows) /\ Len(line) = n
      /\ \A k \in 1 .. n : line[k] \in F /\ line[k] \in EntryRows
  BY TimelineIs DEF Lists, Moments
<1>2. total \in [0 .. n -> Int] /\ total[0] = 0
      /\ \A k \in 1 .. n : total[k] = total[k - 1] + line[k].change
  BY <1>1, TotalsIs
<1>3. \A k \in 1 .. n : line[k].change \in Int
  BY <1>1 DEF EntryRows
<1>5. PICK m \in [0 .. n -> Int] : Sums(m, E, F) /\ \A k \in 0 .. n : m[k] >= 0
  BY SumsAfloat
<1>6. m[0] = 0 /\ \A k \in 1 .. n : m[k] = m[k - 1] + (IF line[k] \in E THEN line[k].change ELSE 0)
  BY <1>5 DEF Sums
<1>8. \A k \in 0 .. n : m[k] >= 0
  BY <1>5
<1> HIDE DEF n, line, total
<1> DEFINE D == {k \in 0 .. n : total[k] >= m[k]}
<1>9. 0 \in D
  BY <1>1, <1>2, <1>6
<1>10. ASSUME NEW k \in 0 .. n - 1, k \in D PROVE k + 1 \in D
  <2> DEFINE q == k + 1
  <2>1. q \in 1 .. n /\ q \in 0 .. n /\ q - 1 = k /\ k \in 0 .. n
    BY <1>1
  <2> HIDE DEF q
  <2>2. total[k] >= m[k] /\ total[k] \in Int /\ m[k] \in Int
    BY <1>2, <1>6, <1>10, <2>1
  <2>3. total[q] = total[k] + line[q].change /\ line[q].change \in Int
    BY <1>2, <1>3, <2>1
  <2>4. m[q] = m[k] + (IF line[q] \in E THEN line[q].change ELSE 0)
    BY <1>6, <2>1
  <2>5. line[q] \notin E => line[q].change >= 0
    BY <1>1, <2>1
  <2>6. CASE line[q] \in E
    <3>1. m[q] = m[k] + line[q].change
      BY <2>4, <2>6
    <3>2. total[q] >= m[q]
      BY <2>2, <2>3, <3>1
    <3> QED  BY <2>1, <3>2 DEF q
  <2>7. CASE line[q] \notin E
    <3>1. m[q] = m[k] + 0 /\ line[q].change >= 0
      BY <2>4, <2>5, <2>7
    <3>2. total[q] >= m[q]
      BY <2>2, <2>3, <3>1
    <3> QED  BY <2>1, <3>2 DEF q
  <2> QED  BY <2>6, <2>7
<1> HIDE DEF D
<1>11. \A k \in 0 .. n : k \in D
  BY <1>1, <1>9, <1>10, UpTo
<1>12. ASSUME NEW k \in 1 .. n PROVE total[k] >= 0
  <2>1. k \in 0 .. n
    BY <1>1
  <2>2. total[k] >= m[k] /\ m[k] >= 0 /\ total[k] \in Int /\ m[k] \in Int
    BY <1>2, <1>6, <1>8, <1>11, <2>1 DEF D
  <2> QED  BY <2>2
<1> QED  BY <1>12 DEF Afloat, n, line, total

-----------------------------------------------------------------------------
(***************************************************************************)
(* The single pass of _shortfalls, on one timeline.                        *)
(***************************************************************************)
RecordedTotals(line) ==
    LET total == Totals([i \in 1 .. Len(line) |->
                            IF line[i].row = 0 THEN line[i] ELSE [line[i] EXCEPT !.change = 0]])
    IN  [i \in 1 .. Len(line) |-> total[i]]

\* What the recorded trades from a place on need there.
Needing(f, line) ==
    f = [i \in 1 .. Len(line) + 1 |->
            IF i = Len(line) + 1 THEN 0
            ELSE IF line[i].row # 0 THEN f[i + 1]
            ELSE Max({0, f[i + 1] - line[i].change})]

NeedOf(line) == CHOOSE f : Needing(f, line)

LaterBreach(line, i, after) ==
    LET k == FirstBelow(RecordedTotals(line), i + 1, RecordedTotals(line)[i] - after)
        spare == after + RecordedTotals(line)[k] - RecordedTotals(line)[i]
    IN  [trade |-> line[k], balance |-> spare, before |-> spare - line[k].change]

PassStep(line, i, w) ==
    LET after == w.units + line[i].change
        here == [trade |-> line[i], balance |-> after, before |-> w.units]
        refuse(breach) == [w EXCEPT !.refused = @ \cup {<<line[i].row, breach>>}]
    IN  CASE line[i].row = 0 ->
               [w EXCEPT !.units = after,
                         !.broken = IF after < 0 /\ @ = NULL THEN here ELSE @]
          [] line[i].row # 0 /\ w.broken # NULL -> refuse(w.broken)
          [] line[i].row # 0 /\ w.broken = NULL /\ after < 0 -> refuse(here)
          [] line[i].row # 0 /\ w.broken = NULL /\ after \in 0 .. NeedOf(line)[i + 1] - 1 ->
               refuse(LaterBreach(line, i, after))
          [] OTHER -> [w EXCEPT !.units = after]

Passing(f, line) ==
    f = [i \in 0 .. Len(line) |->
            IF i = 0 THEN [units |-> 0, broken |-> NULL, refused |-> {}]
            ELSE PassStep(line, i, f[i - 1])]

\* The model's refusals are those of the last step of the pass.
LEMMA ShortfallsAre ==
    ASSUME NEW had, NEW wanted, NEW line, line = Timeline(had \cup wanted)
    PROVE  Shortfalls(had, wanted) = (CHOOSE f : Passing(f, line))[Len(line)].refused
  BY DEF Shortfalls, Passing, PassStep, LaterBreach, NeedOf, Needing, RecordedTotals

\* What is needed is never less than nothing, and is found from the end backwards.
LEMMA NeedIs ==
    ASSUME NEW line \in Seq(EntryRows)
    PROVE  /\ NeedOf(line) \in [1 .. Len(line) + 1 -> Nat] /\ NeedOf(line)[Len(line) + 1] = 0
           /\ \A i \in 1 .. Len(line) :
                 /\ line[i].row # 0 => NeedOf(line)[i] = NeedOf(line)[i + 1]
                 /\ line[i].row = 0 => NeedOf(line)[i] =
                       IF NeedOf(line)[i + 1] > line[i].change
                       THEN NeedOf(line)[i + 1] - line[i].change ELSE 0
<1> DEFINE n == Len(line)
           step(i, v) == IF line[i].row # 0 THEN v ELSE Max({0, v - line[i].change})
           G == [p \in (1 .. n) \X Nat |-> step(n + 1 - p[1], p[2])]
<1>1. n \in Nat /\ \A i \in 1 .. n : line[i].change \in Int
  <2>1. n \in Nat /\ \A i \in 1 .. n : line[i] \in EntryRows
    OBVIOUS
  <2>2. \A e \in EntryRows : e.change \in Int
    BY DEF EntryRows
  <2> HIDE DEF n
  <2> QED  BY <2>1, <2>2
<1> HIDE DEF n
<1>2. ASSUME NEW i \in 1 .. n, NEW v \in Nat
      PROVE  /\ step(i, v) \in Nat
             /\ line[i].row # 0 => step(i, v) = v
             /\ line[i].row = 0 => step(i, v) = IF v > line[i].change THEN v - line[i].change ELSE 0
  <2>1. line[i].change \in Int /\ v - line[i].change \in Int /\ 0 \in Int
    BY <1>1
  <2>2. Max({0, v - line[i].change}) = IF 0 >= v - line[i].change THEN 0 ELSE v - line[i].change
    BY <2>1, GreaterOf
  <2>3. Max({0, v - line[i].change}) = IF v > line[i].change THEN v - line[i].change ELSE 0
    BY <2>1, <2>2
  <2> DEFINE c == line[i].change
             most == Max({0, v - line[i].change})
  <2>4. most \in Nat
    BY <2>1, <2>3
  <2> HIDE DEF most
  <2>5. step(i, v) = IF line[i].row # 0 THEN v ELSE most
    BY DEF most
  <2>6. step(i, v) \in Nat
    BY <2>4, <2>5
  <2> QED  BY <2>3, <2>5, <2>6 DEF most
<1> HIDE DEF step
<1>3. G \in [(1 .. n) \X Nat -> Nat] /\ \A k \in 1 .. n, v \in Nat : G[<<k, v>>] = step(n + 1 - k, v)
  <2>1. \A k \in 1 .. n, v \in Nat : step(n + 1 - k, v) \in Nat
    <3>1. \A k \in 1 .. n : n + 1 - k \in 1 .. n
      BY <1>1
    <3> QED  BY <1>2, <3>1
  <2> QED  BY <2>1
<1> HIDE DEF G
<1>4. PICK g : Walks(g, n, Nat, 0, G)
  BY <1>1, <1>3, WalkExists
<1>5. g \in [0 .. n -> Nat] /\ g[0] = 0 /\ \A k \in 1 .. n : g[k] = G[<<k, g[k - 1]>>]
  BY <1>4 DEF Walks
<1> DEFINE h == [i \in 1 .. n + 1 |-> g[n + 1 - i]]
<1>6. \A i \in 1 .. n + 1 : h[i] = IF i = n + 1 THEN 0 ELSE step(i, h[i + 1])
  <2> SUFFICES ASSUME NEW i \in 1 .. n + 1 PROVE h[i] = IF i = n + 1 THEN 0 ELSE step(i, h[i + 1])
    OBVIOUS
  <2>1. CASE i = n + 1
    <3>1. n + 1 - i = 0
      BY <1>1, <2>1
    <3> QED  BY <1>5, <2>1, <3>1
  <2>2. CASE i # n + 1
    <3> DEFINE k == n + 1 - i
    <3>1. k \in 1 .. n /\ n + 1 - k = i /\ i + 1 \in 1 .. n + 1 /\ n + 1 - (i + 1) = k - 1 /\ k - 1 \in 0 .. n
      BY <1>1, <2>2
    <3>2. h[i] = g[k] /\ h[i + 1] = g[k - 1]
      BY <3>1
    <3> HIDE DEF k, h
    <3>3. g[k - 1] \in Nat
      BY <1>5, <3>1
    <3>4. g[k] = G[<<k, g[k - 1]>>]
      BY <1>5, <3>1
    <3>5. g[k] = step(i, g[k - 1])
      BY <1>3, <3>1, <3>3, <3>4
    <3> QED  BY <2>2, <3>2, <3>5
  <2> QED  BY <2>1, <2>2
<1>7. h = [i \in 1 .. n + 1 |-> h[i]]
  OBVIOUS
<1> HIDE DEF h
<1>8. Needing(h, line)
  BY <1>6, <1>7 DEF Needing, step, n
<1> DEFINE f == NeedOf(line)
<1>9. Needing(f, line)
  BY <1>8 DEF NeedOf
<1> HIDE DEF f
<1>10. f = [i \in 1 .. n + 1 |-> IF i = n + 1 THEN 0 ELSE step(i, f[i + 1])]
  BY <1>9 DEF Needing, step, n
<1>11. f = [i \in 1 .. n + 1 |-> f[i]] /\ f[n + 1] = 0 /\ \A i \in 1 .. n : f[i] = step(i, f[i + 1])
  <2>1. n + 1 \in 1 .. n + 1 /\ \A i \in 1 .. n : i \in 1 .. n + 1 /\ i # n + 1
    BY <1>1
  <2> QED  BY <1>10, <2>1
<1> DEFINE D == {k \in 0 .. n : f[n + 1 - k] \in Nat}
<1>12. 0 \in D
  <2>1. n + 1 - 0 = n + 1
    BY <1>1
  <2> QED  BY <1>1, <1>11, <2>1
<1>13. ASSUME NEW k \in 0 .. n - 1, k \in D PROVE k + 1 \in D
  <2> DEFINE i == n + 1 - (k + 1)
  <2>1. i \in 1 .. n /\ i + 1 = n + 1 - k /\ k + 1 \in 0 .. n
    BY <1>1
  <2>2. f[n + 1 - k] \in Nat
    BY <1>13
  <2> HIDE DEF i
  <2>3. f[i + 1] \in Nat
    BY <2>1, <2>2
  <2>4. f[i] \in Nat
    BY <1>2, <1>11, <2>1, <2>3
  <2> QED  BY <2>1, <2>4 DEF i
<1> HIDE DEF D
<1>14. \A k \in 0 .. n : k \in D
  BY <1>1, <1>12, <1>13, UpTo
<1>15. \A i \in 1 .. n + 1 : f[i] \in Nat
  <2> SUFFICES ASSUME NEW i \in 1 .. n + 1 PROVE f[i] \in Nat
    OBVIOUS
  <2> DEFINE k == n + 1 - i
  <2>1. k \in 0 .. n /\ n + 1 - k = i
    BY <1>1
  <2> HIDE DEF k
  <2>2. k \in D
    BY <1>14, <2>1
  <2> QED  BY <2>1, <2>2 DEF D
<1>16. f \in [1 .. n + 1 -> Nat]
  BY <1>11, <1>15
<1>17. ASSUME NEW i \in 1 .. n
       PROVE  /\ line[i].row # 0 => f[i] = f[i + 1]
              /\ line[i].row = 0 => f[i] = IF f[i + 1] > line[i].change THEN f[i + 1] - line[i].change ELSE 0
  <2>1. i + 1 \in 1 .. n + 1
    BY <1>1
  <2>2. f[i + 1] \in Nat /\ f[i] = step(i, f[i + 1])
    BY <1>11, <1>15, <2>1
  <2> DEFINE v == f[i + 1]
  <2>3. v \in Nat
    BY <2>2
  <2> HIDE DEF v
  <2>4. /\ line[i].row # 0 => step(i, v) = v
        /\ line[i].row = 0 => step(i, v) = IF v > line[i].change THEN v - line[i].change ELSE 0
    BY <1>2, <2>3
  <2> QED  BY <2>2, <2>4 DEF v
<1> QED  BY <1>11, <1>16, <1>17 DEF f, n

\* The walk's state, with every breach the pass may name.
Walked(line) ==
    [units : Int, broken : {NULL} \cup Breaches,
     refused : SUBSET (Nat \X (Breaches \cup {LaterBreach(line, p[1], p[2]) : p \in (1 .. Len(line)) \X Int}))]

\* A step refuses a row or takes it; it takes it when what is left is enough for the rest.
LEMMA PassStepIs ==
    ASSUME NEW line \in Seq(EntryRows), NEW i \in 1 .. Len(line), NEW w \in Walked(line)
    PROVE  /\ PassStep(line, i, w) \in Walked(line)
           /\ w.refused \subseteq PassStep(line, i, w).refused
           /\ PassStep(line, i, w).refused = {} =>
                 /\ PassStep(line, i, w).units = w.units + line[i].change
                 /\ line[i].row # 0 => w.units + line[i].change >= NeedOf(line)[i + 1]
<1> DEFINE after == w.units + line[i].change
           here == [trade |-> line[i], balance |-> after, before |-> w.units]
           later == LaterBreach(line, i, after)
           all == Breaches \cup {LaterBreach(line, p[1], p[2]) : p \in (1 .. Len(line)) \X Int}
           need == NeedOf(line)[i + 1]
           row == line[i].row
           step == PassStep(line, i, w)
<1>1. line[i] \in EntryRows
  OBVIOUS
<1>2. line[i].change \in Int /\ row \in Nat
  BY <1>1 DEF EntryRows
<1>3. /\ w = [units |-> w.units, broken |-> w.broken, refused |-> w.refused]
      /\ w.units \in Int /\ w.broken \in {NULL} \cup Breaches /\ w.refused \in SUBSET (Nat \X all)
  BY DEF Walked
<1>4. after \in Int
  BY <1>2, <1>3
<1>5. here \in Breaches
  BY <1>1, <1>3, <1>4 DEF Breaches
<1>6. later \in all /\ Breaches \subseteq all
  <2>1. <<i, after>> \in (1 .. Len(line)) \X Int
    BY <1>4
  <2>2. LaterBreach(line, i, after) = LaterBreach(line, <<i, after>>[1], <<i, after>>[2])
    OBVIOUS
  <2> QED  BY <2>1, <2>2
<1>7. need \in Nat
  <2>1. i + 1 \in 1 .. Len(line) + 1
    OBVIOUS
  <2> QED  BY <2>1, NeedIs
<1>8. row = 0 => step = [w EXCEPT !.units = after,
                                  !.broken = IF after < 0 /\ @ = NULL THEN here ELSE @]
  BY DEF PassStep
<1>9. row # 0 /\ w.broken # NULL => step = [w EXCEPT !.refused = @ \cup {<<row, w.broken>>}]
  BY DEF PassStep
<1>10. row # 0 /\ w.broken = NULL /\ after < 0 => step = [w EXCEPT !.refused = @ \cup {<<row, here>>}]
  BY DEF PassStep
<1>11. row # 0 /\ w.broken = NULL /\ ~(after < 0) /\ after \in 0 .. need - 1
         => step = [w EXCEPT !.refused = @ \cup {<<row, later>>}]
  BY DEF PassStep
<1>12. row # 0 /\ w.broken = NULL /\ ~(after < 0) /\ ~(after \in 0 .. need - 1)
         => step = [w EXCEPT !.units = after]
  BY DEF PassStep
<1>13. Walked(line) = [units : Int, broken : {NULL} \cup Breaches, refused : SUBSET (Nat \X all)]
  BY DEF Walked
<1>14. w.refused \in SUBSET (Nat \X all) /\ row \in Nat
  BY <1>2, <1>3
<1> HIDE DEF after, here, later, all, need, row, step
<1>15. CASE row = 0
  <2>1. step = [w EXCEPT !.units = after, !.broken = IF after < 0 /\ w.broken = NULL THEN here ELSE w.broken]
    BY <1>8, <1>15
  <2> DEFINE broken == IF after < 0 /\ w.broken = NULL THEN here ELSE w.broken
  <2>2. broken \in {NULL} \cup Breaches
    BY <1>3, <1>5
  <2> HIDE DEF broken
  <2>3. step = [units |-> after, broken |-> broken, refused |-> w.refused]
    BY <1>3, <2>1 DEF broken
  <2>4. step \in Walked(line) /\ step.units = after /\ step.refused = w.refused
    BY <1>3, <1>4, <1>13, <2>2, <2>3
  <2> QED  BY <1>15, <2>4 DEF after, row, step
<1>16. ASSUME NEW b \in all, step = [w EXCEPT !.refused = @ \cup {<<row, b>>}]
       PROVE  step \in Walked(line) /\ w.refused \subseteq step.refused /\ step.refused # {}
  <2>1. step = [units |-> w.units, broken |-> w.broken, refused |-> w.refused \cup {<<row, b>>}]
    BY <1>3, <1>16
  <2>2. w.refused \cup {<<row, b>>} \in SUBSET (Nat \X all)
    BY <1>14
  <2> QED  BY <1>3, <1>13, <2>1, <2>2
<1>17. CASE row # 0 /\ w.broken # NULL
  <2>1. w.broken \in all
    BY <1>3, <1>6, <1>17
  <2> QED  BY <1>9, <1>16, <1>17, <2>1 DEF step
<1>18. CASE row # 0 /\ w.broken = NULL /\ after < 0
  <2>1. here \in all
    BY <1>5, <1>6
  <2> QED  BY <1>10, <1>16, <1>18, <2>1 DEF step
<1>19. CASE row # 0 /\ w.broken = NULL /\ ~(after < 0) /\ after \in 0 .. need - 1
  BY <1>6, <1>11, <1>16, <1>19 DEF step
<1>20. CASE row # 0 /\ w.broken = NULL /\ ~(after < 0) /\ ~(after \in 0 .. need - 1)
  <2>1. step = [units |-> after, broken |-> w.broken, refused |-> w.refused]
    BY <1>3, <1>12, <1>20
  <2>2. step \in Walked(line) /\ step.units = after /\ step.refused = w.refused
    BY <1>3, <1>4, <1>13, <2>1
  <2>3. after >= need
    BY <1>4, <1>7, <1>20
  <2> QED  BY <2>2, <2>3 DEF after, row, step, need
<1> QED  BY <1>15, <1>17, <1>18, <1>19, <1>20

\* The pass exists, and is typed at each step.
LEMMA PassIs ==
    ASSUME NEW line \in Seq(EntryRows)
    PROVE  \E f \in [0 .. Len(line) -> Walked(line)] :
              /\ f[0].units = 0 /\ f[0].broken = NULL /\ f[0].refused = {}
              /\ \A i \in 1 .. Len(line) : f[i] = PassStep(line, i, f[i - 1])
              /\ (CHOOSE h : Passing(h, line))[Len(line)] = f[Len(line)]
<1> DEFINE n == Len(line)
           V == Walked(line)
           first == [units |-> 0, broken |-> NULL, refused |-> {}]
           G == [p \in (1 .. n) \X V |-> PassStep(line, p[1], p[2])]
<1>1. n \in Nat
  OBVIOUS
<1>2. first \in V
  BY DEF Walked
<1>3. \A i \in 1 .. n, w \in V : PassStep(line, i, w) \in V
  BY PassStepIs
<1> HIDE DEF n, V, first
<1>4. G \in [(1 .. n) \X V -> V] /\ \A i \in 1 .. n, w \in V : G[<<i, w>>] = PassStep(line, i, w)
  BY <1>3
<1> HIDE DEF G
<1>5. PICK g : Walks(g, n, V, first, G)
  BY <1>1, <1>2, <1>4, WalkExists
<1>6. ASSUME NEW f, Walks(f, n, V, first, G)
      PROVE  f \in [0 .. n -> V] /\ f[0] = first /\ \A i \in 1 .. n : f[i] = PassStep(line, i, f[i - 1])
  <2>1. f \in [0 .. n -> V] /\ f[0] = first /\ \A i \in 1 .. n : f[i] = G[<<i, f[i - 1]>>]
    BY <1>6 DEF Walks
  <2>2. \A i \in 1 .. n : f[i - 1] \in V
    BY <1>1, <2>1
  <2> QED  BY <1>4, <2>1, <2>2
<1>7. Passing(g, line)
  <2>1. g \in [0 .. n -> V] /\ g[0] = first /\ \A i \in 1 .. n : g[i] = PassStep(line, i, g[i - 1])
    BY <1>5, <1>6
  <2>2. \A i \in 0 .. n : g[i] = IF i = 0 THEN first ELSE PassStep(line, i, g[i - 1])
    <3>1. \A i \in 0 .. n : i = 0 \/ i \in 1 .. n
      BY <1>1
    <3> QED  BY <2>1, <3>1
  <2>3. g = [i \in 0 .. n |-> g[i]]
    BY <2>1
  <2> QED  BY <2>2, <2>3 DEF Passing, n, first
<1> DEFINE f == CHOOSE h : Passing(h, line)
<1>8. Passing(f, line)
  BY <1>7
<1> HIDE DEF f
<1>9. f = [i \in 0 .. n |-> IF i = 0 THEN first ELSE PassStep(line, i, f[i - 1])]
  BY <1>8 DEF Passing, n, first
<1>10. f[0] = first /\ f = [i \in 0 .. n |-> f[i]] /\ \A i \in 1 .. n : f[i] = PassStep(line, i, f[i - 1])
  <2>1. 0 \in 0 .. n /\ \A i \in 1 .. n : i \in 0 .. n /\ i # 0
    BY <1>1
  <2> QED  BY <1>9, <2>1
<1>11. Walks(f, n, V, first, G)
  <2>1. \A i \in 1 .. n : f[i - 1] \in V => f[i] = G[<<i, f[i - 1]>>]
    BY <1>4, <1>10
  <2>2. f = [i \in 0 .. n |-> f[i]] /\ f[0] = first
    BY <1>10
  <2> QED  BY <1>1, <1>2, <1>4, <2>1, <2>2, WalkTyped
<1>12. f \in [0 .. n -> V] /\ f[0] = first /\ \A i \in 1 .. n : f[i] = PassStep(line, i, f[i - 1])
  BY <1>6, <1>11
<1>13. f[0].units = 0 /\ f[0].broken = NULL /\ f[0].refused = {}
  BY <1>12 DEF first
<1> QED  BY <1>12, <1>13 DEF f, n, V

\* The single pass refuses nothing only when, the holding covered before, it is covered
\* with the file's rows: what the later recorded trades need is there after each row.
LEMMA PassAfloat ==
    ASSUME NEW had, NEW wanted, Moments(had \cup wanted), Afloat(had),
           \A x \in had : x.row = 0, \A x \in wanted : x.row # 0, Shortfalls(had, wanted) = {}
    PROVE  Afloat(had \cup wanted)
<1> DEFINE F == had \cup wanted
           n == Cardinality(F)
           line == Timeline(F)
           total == Totals(line)
           need == NeedOf(line)
<1>1. /\ n \in Nat /\ line \in Seq(EntryRows) /\ Len(line) = n
      /\ \A k \in 1 .. n : line[k] \in F /\ line[k] \in EntryRows
  <2>1. Moments(F)
    OBVIOUS
  <2> HIDE DEF F
  <2> QED  BY <2>1, TimelineIs DEF Lists, Moments
<1>2. total \in [0 .. n -> Int] /\ total[0] = 0
      /\ \A k \in 1 .. n : total[k] = total[k - 1] + line[k].change
  BY <1>1, TotalsIs
<1>3. \A k \in 1 .. n : line[k].change \in Int
  BY <1>1 DEF EntryRows
<1>4. PICK m \in [0 .. n -> Int] : Sums(m, had, F) /\ \A k \in 0 .. n : m[k] >= 0
  BY SumsAfloat
<1>5. m[0] = 0 /\ \A k \in 1 .. n : m[k] = m[k - 1] + (IF line[k] \in had THEN line[k].change ELSE 0)
  BY <1>4 DEF Sums
<1>6. /\ need \in [1 .. n + 1 -> Nat] /\ need[n + 1] = 0
      /\ \A i \in 1 .. n :
            /\ line[i].row # 0 => need[i] = need[i + 1]
            /\ line[i].row = 0 => need[i] = IF need[i + 1] > line[i].change
                                            THEN need[i + 1] - line[i].change ELSE 0
  BY <1>1, NeedIs
<1>7. PICK f \in [0 .. n -> Walked(line)] :
              /\ f[0].units = 0
              /\ \A i \in 1 .. n : f[i] = PassStep(line, i, f[i - 1])
              /\ (CHOOSE h : Passing(h, line))[n] = f[n]
  <2>1. \E f \in [0 .. Len(line) -> Walked(line)] :
              /\ f[0].units = 0
              /\ \A i \in 1 .. Len(line) : f[i] = PassStep(line, i, f[i - 1])
              /\ (CHOOSE h : Passing(h, line))[Len(line)] = f[Len(line)]
    BY <1>1, PassIs
  <2> HIDE DEF line, n
  <2> QED  BY <1>1, <2>1
<1>8. f[n].refused = {}
  <2>1. Shortfalls(had, wanted) = (CHOOSE h : Passing(h, line))[Len(line)].refused
    BY ShortfallsAre
  <2> HIDE DEF line, n
  <2> QED  BY <1>1, <1>7, <2>1
<1>9. ASSUME NEW i \in 1 .. n
      PROVE  /\ f[i - 1].refused \subseteq f[i].refused
             /\ f[i].refused = {} =>
                   /\ f[i].units = f[i - 1].units + line[i].change
                   /\ line[i].row # 0 => f[i].units >= need[i + 1]
  <2> DEFINE w == f[i - 1]
  <2>1. i - 1 \in 0 .. n
    BY <1>1
  <2>2. w \in Walked(line) /\ f[i] = PassStep(line, i, w)
    BY <1>7, <2>1
  <2>3. line \in Seq(EntryRows) /\ i \in 1 .. Len(line)
    BY <1>1
  <2> HIDE DEF w, line, n
  <2>4. /\ w.refused \subseteq PassStep(line, i, w).refused
        /\ PassStep(line, i, w).refused = {} =>
              /\ PassStep(line, i, w).units = w.units + line[i].change
              /\ line[i].row # 0 => w.units + line[i].change >= NeedOf(line)[i + 1]
    BY <2>2, <2>3, PassStepIs
  <2> QED  BY <2>2, <2>4 DEF w
<1>10. \A i \in 0 .. n : f[i].units \in Int
  BY <1>7 DEF Walked
<1>11. \A x \in F : x \in had <=> x.row = 0
  OBVIOUS
<1>12. \A k \in 0 .. n : m[k] >= 0
  BY <1>4
<1>13. \A k \in 1 .. n : line[k] \in had <=> line[k].row = 0
  BY <1>1, <1>11
<1> HIDE DEF F, n, line, total, need
<1>14. \A i \in 0 .. n : f[i].refused = {}
  <2> DEFINE D == {k \in 0 .. n : f[n - k].refused = {}}
  <2>1. 0 \in D
    <3>1. n - 0 = n
      BY <1>1
    <3> QED  BY <1>1, <1>8, <3>1
  <2>2. ASSUME NEW k \in 0 .. n - 1, k \in D PROVE k + 1 \in D
    <3> DEFINE i == n - k
    <3>1. i \in 1 .. n /\ n - (k + 1) = i - 1 /\ k + 1 \in 0 .. n
      BY <1>1
    <3>2. f[i].refused = {}
      BY <2>2
    <3> HIDE DEF i
    <3>3. f[i - 1].refused = {}
      BY <1>9, <3>1, <3>2
    <3> QED  BY <3>1, <3>3
  <2> HIDE DEF D
  <2>3. \A k \in 0 .. n : k \in D
    BY <1>1, <2>1, <2>2, UpTo
  <2> SUFFICES ASSUME NEW i \in 0 .. n PROVE f[i].refused = {}
    OBVIOUS
  <2>4. n - i \in 0 .. n /\ n - (n - i) = i
    BY <1>1
  <2>5. n - i \in D
    BY <2>3, <2>4
  <2> QED  BY <2>4, <2>5 DEF D
<1>15. \A i \in 0 .. n : need[i + 1] <= m[i]
  <2> DEFINE D == {k \in 0 .. n : need[n - k + 1] <= m[n - k]}
  <2>1. 0 \in D
    <3>1. n - 0 = n /\ n \in 0 .. n
      BY <1>1
    <3>2. m[n] >= 0 /\ m[n] \in Int
      BY <1>4, <1>12, <3>1
    <3> QED  BY <1>1, <1>6, <3>1, <3>2
  <2>2. ASSUME NEW k \in 0 .. n - 1, k \in D PROVE k + 1 \in D
    <3> DEFINE i == n - k
               h == i - 1
    <3>1. /\ i \in 1 .. n /\ h \in 0 .. n /\ n - (k + 1) = h /\ k + 1 \in 0 .. n
          /\ i \in 0 .. n /\ i + 1 \in 1 .. n + 1 /\ i \in 1 .. n + 1 /\ h + 1 = i
      BY <1>1
    <3>2. need[i + 1] <= m[i]
      BY <2>2
    <3>3. m[i] = m[h] + (IF line[i] \in had THEN line[i].change ELSE 0)
      BY <1>5, <3>1
    <3> HIDE DEF i, h
    <3>4. need[i + 1] \in Nat /\ need[i] \in Nat /\ m[i] \in Int /\ m[h] \in Int /\ m[h] >= 0
          /\ line[i].change \in Int
      BY <1>3, <1>6, <1>12, <3>1
    <3>5. CASE line[i].row = 0
      <4>1. m[i] = m[h] + line[i].change
        BY <1>13, <3>1, <3>3, <3>5
      <4>2. need[i] = IF need[i + 1] > line[i].change THEN need[i + 1] - line[i].change ELSE 0
        BY <1>6, <3>1, <3>5
      <4>3. need[i] <= m[h]
        BY <3>2, <3>4, <4>1, <4>2
      <4> QED  BY <3>1, <4>3
    <3>6. CASE line[i].row # 0
      <4>1. m[i] = m[h] + 0
        BY <1>13, <3>1, <3>3, <3>6
      <4>2. need[i] = need[i + 1]
        BY <1>6, <3>1, <3>6
      <4>3. need[i] <= m[h]
        BY <3>2, <3>4, <4>1, <4>2
      <4> QED  BY <3>1, <4>3
    <3> QED  BY <3>5, <3>6
  <2> HIDE DEF D
  <2>3. \A k \in 0 .. n : k \in D
    BY <1>1, <2>1, <2>2, UpTo
  <2> SUFFICES ASSUME NEW i \in 0 .. n PROVE need[i + 1] <= m[i]
    OBVIOUS
  <2>4. n - i \in 0 .. n /\ n - (n - i) = i
    BY <1>1
  <2>5. n - i \in D
    BY <2>3, <2>4
  <2> QED  BY <2>4, <2>5 DEF D
<1>16. \A i \in 0 .. n : total[i] = f[i].units /\ total[i] >= need[i + 1]
  <2> DEFINE D == {i \in 0 .. n : total[i] = f[i].units /\ total[i] >= need[i + 1]}
  <2>1. 0 \in D
    <3>1. 0 \in 0 .. n /\ 0 + 1 = 1 /\ 1 \in 1 .. n + 1
      BY <1>1
    <3>2. need[0 + 1] <= m[0]
      BY <1>15, <3>1
    <3>3. need[1] \in Nat
      BY <1>6, <3>1
    <3> QED  BY <1>2, <1>5, <1>7, <3>1, <3>2, <3>3
  <2>2. ASSUME NEW k \in 0 .. n - 1, k \in D PROVE k + 1 \in D
    <3> DEFINE i == k + 1
    <3>1. /\ i \in 1 .. n /\ i \in 0 .. n /\ i - 1 = k /\ k \in 0 .. n
          /\ i \in 1 .. n + 1 /\ i + 1 \in 1 .. n + 1
      BY <1>1
    <3>2. total[k] = f[k].units /\ total[k] >= need[i]
      BY <2>2
    <3> HIDE DEF i
    <3>3. f[i].units = f[k].units + line[i].change /\ (line[i].row # 0 => f[i].units >= need[i + 1])
      BY <1>9, <1>14, <3>1
    <3>4. total[i] = total[k] + line[i].change
      BY <1>2, <3>1
    <3>5. total[k] \in Int /\ line[i].change \in Int /\ need[i] \in Nat /\ need[i + 1] \in Nat
      BY <1>2, <1>3, <1>6, <3>1
    <3>6. total[i] = f[i].units
      BY <3>2, <3>3, <3>4
    <3>7. total[i] >= need[i + 1]
      <4>1. CASE line[i].row = 0
        <5>1. need[i] = IF need[i + 1] > line[i].change THEN need[i + 1] - line[i].change ELSE 0
          BY <1>6, <3>1, <4>1
        <5> QED  BY <3>2, <3>4, <3>5, <5>1
      <4>2. CASE line[i].row # 0
        BY <3>3, <3>6, <4>2
      <4> QED  BY <4>1, <4>2
    <3> QED  BY <3>1, <3>6, <3>7 DEF i
  <2> HIDE DEF D
  <2>3. \A k \in 0 .. n : k \in D
    BY <1>1, <2>1, <2>2, UpTo
  <2> QED  BY <2>3 DEF D
<1>17. ASSUME NEW i \in 1 .. n PROVE total[i] >= 0
  <2>1. i \in 0 .. n /\ i + 1 \in 1 .. n + 1
    BY <1>1
  <2>2. total[i] >= need[i + 1] /\ need[i + 1] \in Nat /\ total[i] \in Int
    BY <1>2, <1>6, <1>16, <2>1
  <2> QED  BY <2>2
<1> QED  BY <1>17 DEF Afloat, F, n, line, total

-----------------------------------------------------------------------------
(***************************************************************************)
(* A listing's trades, and a file's rows among them.                       *)
(***************************************************************************)
\* A trade, a row and what they become on a timeline.
LEMMA ChangeIs ==
    ASSUME NEW t, t.type \in Types, t.quantity \in Nat
    PROVE  Change(t) \in Int
  BY DEF Change

LEMMA OfTradeIs ==
    ASSUME NEW t \in TradeRows
    PROVE  /\ OfTrade(t) \in EntryRows /\ OfTrade(t).row = 0 /\ OfTrade(t).change = Change(t)
           /\ OfTrade(t).at[1] = t.day /\ OfTrade(t).at[2] = t.time
           /\ OfTrade(t).at[3] = 0 /\ OfTrade(t).at[4] = t.id
           /\ t.day \in Int /\ t.time \in Int /\ t.id \in Int
<1>1. /\ t.day \in Int /\ t.time \in Nat /\ t.id \in Nat /\ t.type \in Types /\ t.quantity \in Nat
  BY ImporterAssumption DEF TradeRows
<1>2. Change(t) \in Int
  BY <1>1, ChangeIs
<1> DEFINE key == <<t.day, t.time, 0, t.id>>
<1>3. key \in Int \X Int \X Int \X Int /\ key[1] = t.day /\ key[2] = t.time /\ key[3] = 0 /\ key[4] = t.id
  BY <1>1
<1> HIDE DEF key
<1>4. OfTrade(t) = [at |-> key, change |-> Change(t), row |-> 0]
  BY DEF OfTrade, key
<1> QED  BY <1>1, <1>2, <1>3, <1>4 DEF EntryRows

\* The time a row is recorded with.
TimeOf(c) == IF c.time = NULL THEN MarketOpen ELSE c.time

LEMMA OfRowIs ==
    ASSUME NEW rows \in Seq(CandidateRows), NEW r \in DOMAIN rows
    PROVE  /\ OfRow(rows, r) \in EntryRows /\ OfRow(rows, r).row = r /\ r \in Nat /\ r # 0
           /\ OfRow(rows, r).change = Change(rows[r])
           /\ OfRow(rows, r).at[1] = rows[r].day /\ OfRow(rows, r).at[2] = TimeOf(rows[r])
           /\ OfRow(rows, r).at[3] = 1 /\ OfRow(rows, r).at[4] = r
           /\ rows[r].day \in Int /\ TimeOf(rows[r]) \in Int
<1> DEFINE c == rows[r]
<1>1. c \in CandidateRows /\ r \in Nat /\ r # 0
  OBVIOUS
<1> HIDE DEF c
<1>2. c.day \in Int /\ c.type \in Types /\ c.quantity \in Nat /\ TimeOf(c) \in Nat
  BY <1>1 DEF CandidateRows, TimeOf, MarketOpen
<1>3. Change(c) \in Int
  BY <1>2, ChangeIs
<1> DEFINE key == <<c.day, TimeOf(c), 1, r>>
<1>4. key \in Int \X Int \X Int \X Int /\ key[1] = c.day /\ key[2] = TimeOf(c) /\ key[3] = 1 /\ key[4] = r
  BY <1>1, <1>2
<1> HIDE DEF key
<1>5. OfRow(rows, r) = [at |-> key, change |-> Change(c), row |-> r]
  BY DEF OfRow, key, c, TimeOf
<1> QED  BY <1>1, <1>2, <1>3, <1>4, <1>5 DEF EntryRows, c

\* The trades of one listing.
Its(ts, l) == {t \in ts : t.listing = l}

\* A ledger's trades of one listing are moments, and so are a file's rows, and both together.
LEMMA EntriesAre ==
    ASSUME NEW ts, Ledger(ts), NEW l
    PROVE  /\ Moments(Entries(ts, l)) /\ \A x \in Entries(ts, l) : x.row = 0
           /\ \A x \in Entries(ts, l) : \E t \in ts : t.listing = l /\ x = OfTrade(t)
           /\ \A t \in ts : t.listing = l => OfTrade(t) \in Entries(ts, l)
<1> DEFINE f == [t \in Its(ts, l) |-> OfTrade(t)]
<1>1. Entries(ts, l) = {f[t] : t \in Its(ts, l)}
  BY DEF Entries, Its
<1>2. \A t \in Its(ts, l) : t \in ts /\ t \in TradeRows /\ f[t] = OfTrade(t)
  BY DEF Its, Ledger
<1> HIDE DEF f
<1>3. ASSUME NEW t \in Its(ts, l), NEW u \in Its(ts, l), f[t].at = f[u].at PROVE t = u
  <2>1. f[t].at[4] = t.id /\ f[u].at[4] = u.id
    BY <1>2, OfTradeIs
  <2>2. t.id = u.id
    BY <1>3, <2>1
  <2> QED  BY <1>2, <2>2 DEF Ledger
<1>4. IsFiniteSet(Its(ts, l))
  BY LedgerFinite, FS_Subset DEF Its
<1>5. \A t, u \in Its(ts, l) : f[t] = f[u] => t = u
  BY <1>3
<1>6. IsFiniteSet(Entries(ts, l))
  BY <1>1, <1>4, <1>5, SameSize
<1>7. \A t \in Its(ts, l) : f[t] \in EntryRows /\ f[t].row = 0
  BY <1>2, OfTradeIs
<1>8. Moments(Entries(ts, l)) /\ \A x \in Entries(ts, l) : x.row = 0
  BY <1>1, <1>3, <1>6, <1>7 DEF Moments
<1>9. \A x \in Entries(ts, l) : \E t \in ts : t.listing = l /\ x = OfTrade(t)
  BY DEF Entries
<1>10. \A t \in ts : t.listing = l => OfTrade(t) \in Entries(ts, l)
  BY DEF Entries
<1> QED  BY <1>8, <1>9, <1>10

LEMMA WantedAre ==
    ASSUME NEW rows \in Seq(CandidateRows), NEW l
    PROVE  /\ Moments(Wanted(rows, l))
           /\ \A x \in Wanted(rows, l) :
                 /\ x.row \in Fresh(rows) /\ x.row \in DOMAIN rows /\ x.row # 0
                 /\ rows[x.row].listing = l /\ x = OfRow(rows, x.row)
           /\ \A r \in Fresh(rows) : rows[r].listing = l => OfRow(rows, r) \in Wanted(rows, l)
<1> DEFINE R == {r \in Fresh(rows) : rows[r].listing = l}
           f == [r \in R |-> OfRow(rows, r)]
<1>1. Wanted(rows, l) = {f[r] : r \in R}
  BY DEF Wanted
<1>2. \A r \in R : r \in Fresh(rows) /\ r \in DOMAIN rows /\ rows[r].listing = l /\ f[r] = OfRow(rows, r)
  BY DEF Fresh
<1>3. IsFiniteSet(R)
  <2>1. IsFiniteSet(DOMAIN rows)
    <3>1. DOMAIN rows = 1 .. Len(rows) /\ Len(rows) \in Nat
      OBVIOUS
    <3> QED  BY <3>1, FS_Interval
  <2>2. R \in SUBSET DOMAIN rows
    BY <1>2
  <2> QED  BY <2>1, <2>2, FS_Subset
<1> HIDE DEF f, R
<1>4. \A r \in R : f[r] \in EntryRows /\ f[r].row = r /\ r # 0 /\ f[r].at[4] = r
  BY <1>2, OfRowIs
<1>5. \A r, q \in R : f[r].at = f[q].at => r = q
  BY <1>4
<1>6. \A r, q \in R : f[r] = f[q] => r = q
  BY <1>5
<1>7. IsFiniteSet(Wanted(rows, l))
  BY <1>1, <1>3, <1>6, SameSize
<1>8. Moments(Wanted(rows, l))
  BY <1>1, <1>4, <1>5, <1>7 DEF Moments
<1>9. ASSUME NEW x \in Wanted(rows, l)
      PROVE  /\ x.row \in Fresh(rows) /\ x.row \in DOMAIN rows /\ x.row # 0
             /\ rows[x.row].listing = l /\ x = OfRow(rows, x.row)
  <2>1. PICK r \in R : x = f[r]
    BY <1>1
  <2>2. x.row = r
    BY <1>4, <2>1
  <2> QED  BY <1>2, <1>4, <2>1, <2>2
<1>10. \A r \in Fresh(rows) : rows[r].listing = l => OfRow(rows, r) \in Wanted(rows, l)
  BY <1>1, <1>2 DEF Wanted
<1> QED  BY <1>8, <1>9, <1>10

LEMMA BothMoments ==
    ASSUME Ledger(trades), NEW rows \in Seq(CandidateRows), NEW l
    PROVE  Moments(Entries(trades, l) \cup Wanted(rows, l))
<1> DEFINE E == Entries(trades, l)
           W == Wanted(rows, l)
<1>1. Moments(E) /\ Moments(W)
  BY EntriesAre, WantedAre
<1>2. ASSUME NEW x \in E PROVE x.at[3] = 0
  <2>1. PICK t \in trades : x = OfTrade(t)
    BY EntriesAre
  <2>2. t \in TradeRows
    BY DEF Ledger
  <2> QED  BY <2>1, <2>2, OfTradeIs
<1>3. \A x \in W : x.at[3] = 1
  BY WantedAre, OfRowIs
<1> HIDE DEF E, W
<1>4. IsFiniteSet(E \cup W)
  BY <1>1, FS_Union DEF Moments
<1>5. ASSUME NEW x \in E \cup W, NEW y \in E \cup W, x.at = y.at PROVE x = y
  BY <1>1, <1>2, <1>3, <1>5 DEF Moments
<1>6. E \cup W \subseteq EntryRows
  BY <1>1 DEF Moments
<1>7. Moments(E \cup W)
  BY <1>4, <1>5, <1>6 DEF Moments
<1> QED  BY <1>7 DEF E, W

\* What keeps the order and the changes keeps the totals.
Matches(g, E, F) ==
    /\ \A x \in E : g[x] \in F /\ g[x].change = x.change
    /\ \A y \in F : \E x \in E : g[x] = y
    /\ \A x, y \in E : Less(x.at, y.at) => Less(g[x].at, g[y].at)

\* So nothing is short after it that was not short before.
LEMMA MatchAfloat ==
    ASSUME NEW E, NEW F, NEW g, Moments(E), Moments(F), Matches(g, E, F), Afloat(E)
    PROVE  Afloat(F)
<1> DEFINE n == Cardinality(E)
           line == Timeline(E)
           total == Totals(line)
           h == [i \in 1 .. n |-> g[line[i]]]
           sum == Totals(Timeline(F))
<1>1. Lists(line, E) /\ line \in Seq(EntryRows) /\ Len(line) = n /\ IsFiniteSet(E)
  BY TimelineIs DEF Moments
<1>2. n \in Nat /\ \A i \in 1 .. n : line[i] \in E
  BY <1>1 DEF Lists
<1>3. Cardinality(F) = n
  <2>1. \A x \in F : ~Less(x.at, x.at)
    BY MomentsOrder DEF Orders, Sooner
  <2>2. ASSUME NEW x \in E, NEW y \in E, g[x] = g[y] PROVE x = y
    <3>1. g[x] \in F /\ ~Less(g[x].at, g[y].at) /\ ~Less(g[y].at, g[x].at)
      BY <2>1, <2>2 DEF Matches
    <3>2. ~Less(x.at, y.at) /\ ~Less(y.at, x.at)
      BY <3>1 DEF Matches
    <3>3. x = y \/ <<x, y>> \in Sooner(E) \/ <<y, x>> \in Sooner(E)
      BY MomentsOrder DEF Orders
    <3>4. (<<x, y>> \in Sooner(E) => Less(x.at, y.at)) /\ (<<y, x>> \in Sooner(E) => Less(y.at, x.at))
      BY DEF Sooner
    <3> QED  BY <3>2, <3>3, <3>4
  <2>3. F = {g[x] : x \in E}
    BY DEF Matches
  <2>4. Cardinality({g[x] : x \in E}) = Cardinality(E)
    BY <1>1, <2>2, SameSize
  <2> QED  BY <2>3, <2>4
<1>4. \A i, j \in 1 .. n : i < j => Less(line[i].at, line[j].at)
  BY <1>1 DEF Lists
<1>5. \A x \in E : \E i \in 1 .. n : line[i] = x
  BY <1>1 DEF Lists
<1> HIDE DEF n, line
<1>6. Lists(h, F)
  <2>1. h \in [1 .. n -> F]
    BY <1>2 DEF Matches
  <2>2. \A i \in 1 .. n : h[i] = g[line[i]]
    OBVIOUS
  <2> HIDE DEF h
  <2>3. \A i, j \in 1 .. n : i < j => Less(h[i].at, h[j].at)
    BY <1>2, <1>4, <2>2 DEF Matches
  <2>4. \A y \in F : \E i \in 1 .. n : h[i] = y
    BY <1>5, <2>2 DEF Matches
  <2> QED  BY <1>2, <1>3, <2>1, <2>3, <2>4 DEF Lists
<1>7. Timeline(F) = h
  <2> HIDE DEF h
  <2>1. Lists(Timeline(F), F)
    BY TimelineIs
  <2> QED  BY <1>6, <2>1, OneList
<1>8. \A i \in 1 .. n : Timeline(F)[i].change = line[i].change
  <2>1. \A i \in 1 .. n : h[i] = g[line[i]]
    OBVIOUS
  <2> HIDE DEF h
  <2> QED  BY <1>2, <1>7, <2>1 DEF Matches
<1>9. sum \in [0 .. n -> Int] /\ sum[0] = 0
      /\ \A i \in 1 .. n : sum[i] = sum[i - 1] + Timeline(F)[i].change
  <2>1. Timeline(F) \in Seq(EntryRows) /\ Len(Timeline(F)) = n
    BY <1>3, TimelineIs
  <2> QED  BY <2>1, TotalsIs
<1>10. total \in [0 .. n -> Int] /\ total[0] = 0
       /\ \A i \in 1 .. n : total[i] = total[i - 1] + line[i].change
  BY <1>1, TotalsIs
<1> HIDE DEF h, sum, total
<1> DEFINE D == {i \in 0 .. n : sum[i] = total[i]}
<1>11. 0 \in D
  BY <1>2, <1>9, <1>10
<1>12. ASSUME NEW k \in 0 .. n - 1, k \in D PROVE k + 1 \in D
  <2> DEFINE q == k + 1
  <2>1. q \in 1 .. n /\ q \in 0 .. n /\ q - 1 = k
    BY <1>2
  <2>2. sum[k] = total[k]
    BY <1>12
  <2> HIDE DEF q
  <2>3. sum[q] = total[q]
    BY <1>8, <1>9, <1>10, <2>1, <2>2
  <2> QED  BY <2>1, <2>3 DEF q
<1> HIDE DEF D
<1>13. \A k \in 0 .. n : k \in D
  BY <1>2, <1>11, <1>12, UpTo
<1>14. ASSUME NEW i \in 1 .. n PROVE sum[i] >= 0
  <2>1. i \in 0 .. n
    BY <1>2
  <2>2. sum[i] = total[i]
    BY <1>13, <2>1 DEF D
  <2>3. total[i] >= 0
    BY DEF Afloat, n, line, total
  <2> QED  BY <2>2, <2>3
<1> QED  BY <1>3, <1>14 DEF Afloat, sum

\* The file's rows come after the trades of their moments, and so do the trades they become.
LEMMA CommitAfloat ==
    ASSUME Ledger(trades), NEW rows \in Seq(CandidateRows), NEW l,
           Largest + Cardinality(Fresh(rows)) <= MaxTrades,
           Afloat(Entries(trades, l) \cup Wanted(rows, l))
    PROVE  Afloat(Entries(trades \cup Inserted(rows), l))
<1> DEFINE E == Entries(trades, l)
           W == Wanted(rows, l)
           F == Entries(trades \cup Inserted(rows), l)
           row == Insert(rows)
           g == [x \in E \cup W |-> IF x.row = 0 THEN x ELSE OfTrade(row[x.row])]
<1>1. /\ Len(rows) \in Nat /\ Fresh(rows) \in SUBSET (1 .. Len(rows)) /\ Largest \in Nat
      /\ Numbers(Fresh(rows), Largest, row) /\ Inserted(rows) = {row[r] : r \in Fresh(rows)}
  BY InsertedAre
<1>2. \A t \in trades : t.id <= Largest
  BY LargestIs
<1>3. /\ \A r \in Fresh(rows) : row[r].id \in Largest + 1 .. MaxTrades /\ row[r] \in TradeRows
      /\ \A r, q \in Fresh(rows) : r < q => row[r].id < row[q].id
  <2> HIDE DEF row
  <2> QED  BY <1>1, NumbersAre
<1>4. Ledger(trades \cup Inserted(rows))
  <2> HIDE DEF row
  <2> QED  BY <1>1, <1>2, NumberedOn
<1>5. Moments(E \cup W) /\ Moments(F)
  BY <1>4, BothMoments, EntriesAre
<1>6. ASSUME NEW r \in Fresh(rows)
      PROVE  /\ row[r].listing = rows[r].listing /\ row[r].day = rows[r].day
             /\ row[r].time = TimeOf(rows[r]) /\ Change(row[r]) = Change(rows[r])
  BY DEF Insert, Recorded, TimeOf, Change
<1>7. ASSUME NEW x \in E
      PROVE  /\ g[x] = x /\ x \in F /\ x \in EntryRows /\ x.at[3] = 0 /\ x.at[4] <= Largest
             /\ x.at[4] \in Int
  <2>1. PICK t \in trades : t.listing = l /\ x = OfTrade(t)
    BY EntriesAre
  <2>2. t \in TradeRows /\ t.id <= Largest
    BY <1>2 DEF Ledger
  <2>3. x \in EntryRows /\ x.at[3] = 0 /\ x.at[4] = t.id /\ x.row = 0 /\ t.id \in Int
    BY <2>1, <2>2, OfTradeIs
  <2>4. g[x] = x
    BY <2>3
  <2>5. x \in F
    BY <1>4, <2>1, EntriesAre
  <2> HIDE DEF g, E, F
  <2> QED  BY <2>2, <2>3, <2>4, <2>5
<1>8. ASSUME NEW x \in W
      PROVE  /\ g[x] = OfTrade(row[x.row]) /\ g[x] \in F /\ g[x] \in EntryRows
             /\ x \in EntryRows /\ g[x].change = x.change
             /\ x.row \in Fresh(rows) /\ x.at[3] = 1 /\ x.at[4] = x.row /\ x.row \in Int
             /\ g[x].at[1] = x.at[1] /\ g[x].at[2] = x.at[2] /\ g[x].at[3] = 0
             /\ g[x].at[4] = row[x.row].id
  <2> DEFINE r == x.row
  <2>1. r \in Fresh(rows) /\ r \in DOMAIN rows /\ r # 0 /\ rows[r].listing = l /\ x = OfRow(rows, r)
    BY WantedAre
  <2>2. g[x] = OfTrade(row[r])
    BY <2>1
  <2> HIDE DEF r, g, row, W, E, F
  <2>3. row[r] \in TradeRows /\ row[r].listing = l
    BY <1>3, <1>6, <2>1
  <2>4. row[r] \in trades \cup Inserted(rows)
    BY <1>1, <2>1
  <2>5. g[x] \in F
    BY <1>4, <2>2, <2>3, <2>4, EntriesAre DEF F
  <2>6. /\ g[x] \in EntryRows /\ g[x].change = Change(row[r]) /\ g[x].at[1] = row[r].day
        /\ g[x].at[2] = row[r].time /\ g[x].at[3] = 0 /\ g[x].at[4] = row[r].id
    BY <2>2, <2>3, OfTradeIs
  <2>7. /\ x \in EntryRows /\ x.change = Change(rows[r]) /\ x.at[1] = rows[r].day
        /\ x.at[2] = TimeOf(rows[r]) /\ x.at[3] = 1 /\ x.at[4] = r /\ r \in Int
    BY <2>1, OfRowIs
  <2>8. row[r].day = rows[r].day /\ row[r].time = TimeOf(rows[r]) /\ Change(row[r]) = Change(rows[r])
    BY <1>6, <2>1
  <2> QED  BY <2>1, <2>2, <2>5, <2>6, <2>7, <2>8 DEF r
<1>9. ASSUME NEW y \in F PROVE \E x \in E \cup W : g[x] = y
  <2>1. PICK t \in trades \cup Inserted(rows) : t.listing = l /\ y = OfTrade(t)
    BY <1>4, EntriesAre
  <2>2. CASE t \in trades
    <3>1. y \in E
      BY <2>1, <2>2, EntriesAre
    <3> QED  BY <1>7, <3>1
  <2>3. CASE t \notin trades
    <3>1. PICK r \in Fresh(rows) : t = row[r]
      BY <1>1, <2>3
    <3>2. rows[r].listing = l /\ r \in DOMAIN rows
      BY <1>6, <2>1, <3>1 DEF Fresh
    <3> DEFINE x == OfRow(rows, r)
    <3>3. x \in W
      BY <3>2, WantedAre
    <3>4. x.row = r
      BY <3>2, OfRowIs
    <3> HIDE DEF x, g, row, W, E
    <3>5. g[x] = y
      BY <1>8, <2>1, <3>1, <3>3, <3>4
    <3> QED  BY <3>3, <3>5
  <2> QED  BY <2>2, <2>3
<1> HIDE DEF E, W, F, row, g
<1>10. ASSUME NEW x \in E \cup W, NEW y \in E \cup W, Less(x.at, y.at) PROVE Less(g[x].at, g[y].at)
  <2>1. /\ x.at[1] \in Int /\ x.at[2] \in Int /\ x.at[3] \in Int /\ x.at[4] \in Int
        /\ y.at[1] \in Int /\ y.at[2] \in Int /\ y.at[3] \in Int /\ y.at[4] \in Int
        /\ Ahead(x.at, y.at) /\ g[x] \in EntryRows /\ g[y] \in EntryRows
    BY <1>7, <1>8, <1>10, AtIs
  <2>2. Less(g[x].at, g[y].at) <=> Ahead(g[x].at, g[y].at)
    BY <2>1, AtIs
  <2>3. CASE x \in E /\ y \in E
    BY <1>7, <1>10, <2>3
  <2>4. CASE x \in E /\ y \in W
    <3>1. /\ g[x] = x /\ x.at[3] = 0 /\ x.at[4] <= Largest
          /\ g[y].at[1] = y.at[1] /\ g[y].at[2] = y.at[2] /\ g[y].at[3] = 0 /\ y.at[3] = 1
          /\ g[y].at[4] = row[y.row].id /\ row[y.row].id \in Largest + 1 .. MaxTrades
      BY <1>3, <1>7, <1>8, <2>4
    <3>2. Ahead(g[x].at, g[y].at)
      BY <1>1, <2>1, <3>1 DEF Ahead
    <3> QED  BY <2>2, <3>2
  <2>5. CASE x \in W /\ y \in E
    <3>1. /\ g[y] = y /\ y.at[3] = 0
          /\ g[x].at[1] = x.at[1] /\ g[x].at[2] = x.at[2] /\ x.at[3] = 1
      BY <1>7, <1>8, <2>5
    <3>2. Ahead(g[x].at, g[y].at)
      BY <2>1, <3>1 DEF Ahead
    <3> QED  BY <2>2, <3>2
  <2>6. CASE x \in W /\ y \in W
    <3>1. /\ x.row \in Fresh(rows) /\ y.row \in Fresh(rows) /\ x.at[4] = x.row /\ y.at[4] = y.row
          /\ g[x].at[1] = x.at[1] /\ g[x].at[2] = x.at[2] /\ x.at[3] = 1 /\ g[x].at[3] = 0
          /\ g[y].at[1] = y.at[1] /\ g[y].at[2] = y.at[2] /\ y.at[3] = 1 /\ g[y].at[3] = 0
          /\ g[x].at[4] = row[x.row].id /\ g[y].at[4] = row[y.row].id
      BY <1>8, <2>6
    <3>2. x.row < y.row => row[x.row].id < row[y.row].id
      BY <1>3, <3>1
    <3>3. Ahead(g[x].at, g[y].at)
      BY <2>1, <3>1, <3>2 DEF Ahead
    <3> QED  BY <2>2, <3>3
  <2> QED  BY <2>3, <2>4, <2>5, <2>6
<1>11. Matches(g, E \cup W, F)
  <2>1. \A x \in E \cup W : g[x] \in F /\ g[x].change = x.change
    BY <1>7, <1>8
  <2> QED  BY <1>9, <1>10, <2>1 DEF Matches
<1>12. Afloat(E \cup W)
  BY DEF E, W
<1>13. Afloat(F)
  BY <1>5, <1>11, <1>12, MatchAfloat
<1> QED  BY <1>13 DEF F

-----------------------------------------------------------------------------
(***************************************************************************)
(* No import leaves a holding short.                                       *)
(***************************************************************************)
\* A holding is covered when its timeline is.
LEMMA CoveredIs ==
    ASSUME NEW ts, Ledger(ts), NEW l PROVE Covered(ts, l) <=> Afloat(Entries(ts, l))
<1>1. Moments(Entries(ts, l))
  BY EntriesAre
<1> QED  BY <1>1, BreachIs DEF Covered

\* A commit whose rows are not refused leaves each covered holding covered.
LEMMA CommitCovers ==
    ASSUME Ledger(trades), WaitingOK, NEW s \in SignIns, CsvCommit(s), NEW l \in Listings,
           Covered(trades, l)
    PROVE  Covered(trades', l)
<1> DEFINE rows == request[s].rows
<1>1. ~AtRest(s)
  BY DEF CsvCommit
<1>2. rows \in Seq(CandidateRows)
  BY <1>1, RequestIs
<1>3. CASE /\ Committable(rows) /\ Largest + Cardinality(Fresh(rows)) <= MaxTrades
           /\ trades' = trades \cup Inserted(rows)
  <2> HIDE DEF rows
  <2>1. Shortfalls(Entries(trades, l), Wanted(rows, l)) = {}
    BY <1>3 DEF Committable, Refused
  <2>2. Afloat(Entries(trades, l)) /\ \A x \in Entries(trades, l) : x.row = 0
    BY CoveredIs, EntriesAre
  <2>3. \A x \in Wanted(rows, l) : x.row # 0
    BY <1>2, WantedAre
  <2>4. Moments(Entries(trades, l) \cup Wanted(rows, l))
    BY <1>2, BothMoments
  <2>5. Afloat(Entries(trades, l) \cup Wanted(rows, l))
    BY <2>1, <2>2, <2>3, <2>4, PassAfloat
  <2>6. Afloat(Entries(trades \cup Inserted(rows), l))
    BY <1>2, <1>3, <2>5, CommitAfloat
  <2>7. Ledger(trades')
    BY CommitKeeps
  <2> QED  BY <1>3, <2>6, <2>7, CoveredIs
<1>4. CASE UNCHANGED trades
  BY <1>4
<1> QED  BY <1>3, <1>4 DEF CsvCommit

\* An advice only adds units, and a deletion asks for its own listing.
LEMMA RecordCovers ==
    ASSUME Ledger(trades), dividends \in Seq(DistributionRows), NEW rows \in Seq(AdviceRows),
           \A i \in DOMAIN rows : Savable(rows[i]), Record(rows), Ledger(trades'), NEW l,
           Covered(trades, l)
    PROVE  Covered(trades', l)
<1> DEFINE B == Bought(rows)
           row == Reinvest(rows, B)
           E == Entries(trades, l)
           F == Entries(trades', l)
<1>1. Len(rows) \in Nat /\ B \in SUBSET (1 .. Len(rows)) /\ Largest \in Nat
      /\ Numbers(B, Largest, row) /\ Largest + Cardinality(B) <= MaxTrades
      /\ trades' = trades \cup {row[i] : i \in B}
  BY RecordIs
<1>2. \A i \in B : row[i].type = "drp"
  BY DEF Reinvest
<1>3. ASSUME NEW i \in B PROVE row[i] \in TradeRows
  <2> HIDE DEF B, row
  <2> QED  BY <1>1, NumbersAre
<1> HIDE DEF B, row
<1>4. Moments(F) /\ Afloat(E)
  BY EntriesAre, CoveredIs
<1>5. ASSUME NEW x \in E PROVE x \in F
  <2>1. PICK t \in trades : t.listing = l /\ x = OfTrade(t)
    BY EntriesAre
  <2> QED  BY <1>1, <2>1, EntriesAre
<1>6. ASSUME NEW x \in F, x \notin E PROVE x.change >= 0
  <2>1. PICK t \in trades' : t.listing = l /\ x = OfTrade(t)
    BY EntriesAre
  <2>2. t \notin trades
    BY <1>6, <2>1, EntriesAre
  <2>3. PICK i \in B : t = row[i]
    BY <1>1, <2>2
  <2>4. t \in TradeRows /\ t.type = "drp"
    BY <1>2, <1>3, <2>3
  <2>5. x.change = Change(t) /\ t.quantity \in Nat
    BY <2>1, <2>4, OfTradeIs DEF TradeRows
  <2>6. Change(t) = t.quantity
    BY <2>4 DEF Change
  <2> QED  BY <2>5, <2>6
<1> HIDE DEF E, F
<1>7. Afloat(F)
  BY <1>4, <1>5, <1>6, GainAfloat
<1> QED  BY <1>7, CoveredIs DEF F

LEMMA AdviceCovers ==
    ASSUME Ledger(trades), dividends \in Seq(DistributionRows), WaitingOK, Apart(dividends),
           NEW s \in SignIns, NEW rows \in Advices, SaveAdvice(s, rows) \/ SaveStatement(s, rows[1]),
           NEW l \in Listings, Covered(trades, l)
    PROVE  Covered(trades', l)
<1>1. rows \in Seq(AdviceRows) /\ rows # <<>>
  BY ImporterAssumption
<1>2. Ledger(trades')
  BY AdviceKeeps
<1>3. CASE SaveAdvice(s, rows)
  BY <1>1, <1>2, <1>3, RecordCovers DEF SaveAdvice
<1>4. CASE SaveStatement(s, rows[1])
  <2>1. rows[1] \in AdviceRows
    BY <1>1
  <2>2. <<rows[1]>> \in Seq(AdviceRows) /\ DOMAIN <<rows[1]>> = {1} /\ <<rows[1]>>[1] = rows[1]
    BY <2>1
  <2>3. (\A i \in DOMAIN <<rows[1]>> : Savable(<<rows[1]>>[i])) /\ Record(<<rows[1]>>)
    BY <1>4, <2>2 DEF SaveStatement
  <2> QED  BY <1>2, <2>2, <2>3, RecordCovers
<1> QED  BY <1>3, <1>4

LEMMA DeleteCovers ==
    ASSUME Ledger(trades), WaitingOK, NEW s \in SignIns, NEW t \in trades, TradeDelete(s, t),
           NEW l \in Listings, Covered(trades, l)
    PROVE  Covered(trades', l)
<1>1. trades' = trades \ {t} /\ Covered(trades \ {t}, t.listing)
  BY DEF TradeDelete
<1>2. CASE l = t.listing
  BY <1>1, <1>2
<1>3. CASE l # t.listing
  <2>1. {x \in trades \ {t} : x.listing = l} = {x \in trades : x.listing = l}
    BY <1>3
  <2>2. Entries(trades', l) = Entries(trades, l)
    BY <1>1, <2>1 DEF Entries
  <2> QED  BY <2>2 DEF Covered
<1> QED  BY <1>2, <1>3

\* What a step of NeverShort asks.
Covers == \A l \in Listings : Covered(trades, l) => Covered(trades', l)

LEMMA StepCovers == ImportInv /\ [ImportNext]_ImportVars => Covers
<1> SUFFICES ASSUME ImportInv, [ImportNext]_ImportVars, NEW l \in Listings, Covered(trades, l)
             PROVE  Covered(trades', l)
  BY DEF Covers
<1>1. Ledger(trades) /\ dividends \in Seq(DistributionRows) /\ WaitingOK /\ Apart(dividends)
  BY TypeIs DEF ImportInv, AdvicesOnce, Apart
<1>2. UNCHANGED trades => Covered(trades', l)
  OBVIOUS
<1>3. ASSUME NEW s \in SignIns, NEW u \in Uploads, NEW doc \in Files, CsvPreview(s, u, doc)
      PROVE  Covered(trades', l)
  BY <1>2, <1>3 DEF CsvPreview
<1>4. ASSUME NEW s \in SignIns, NEW u \in Uploads, NEW op \in {"resolve", "commit"}, ReadStaged(s, u, op)
      PROVE  Covered(trades', l)
  BY <1>2, <1>4 DEF ReadStaged
<1>5. ASSUME NEW s \in SignIns, NEW from \in Listings, NEW to \in Listings, CsvResolve(s, from, to)
      PROVE  Covered(trades', l)
  BY <1>2, <1>5 DEF CsvResolve
<1>6. ASSUME NEW s \in SignIns, CsvCommit(s)
      PROVE  Covered(trades', l)
  BY <1>1, <1>6, CommitCovers
<1>7. ASSUME NEW s \in SignIns, Unlink(s)
      PROVE  Covered(trades', l)
  BY <1>2, <1>7 DEF Unlink
<1>8. ASSUME NEW s \in SignIns, NEW rows \in Advices, SaveAdvice(s, rows) \/ SaveStatement(s, rows[1])
      PROVE  Covered(trades', l)
  BY <1>1, <1>8, AdviceCovers
<1>9. ASSUME NEW s \in SignIns, NEW t \in trades, TradeDelete(s, t)
      PROVE  Covered(trades', l)
  BY <1>1, <1>9, DeleteCovers
<1>10. ASSUME NEW u \in Uploads, Sweep(u)
       PROVE  Covered(trades', l)
  BY <1>2, <1>10 DEF Sweep
<1>11. ASSUME Restart
       PROVE  Covered(trades', l)
  BY <1>2, <1>11 DEF Restart
<1>12. ASSUME UNCHANGED ImportVars
       PROVE  Covered(trades', l)
  BY <1>2, <1>12 DEF ImportVars
<1> QED  BY <1>3, <1>4, <1>5, <1>6, <1>7, <1>8, <1>9, <1>10, <1>11, <1>12 DEF ImportNext

\* No import, advice or deletion leaves short a holding that was covered, whatever was
\* recorded, deleted or corrected since the file's preview: csv_commit annotates again,
\* and _shortfalls refuses whatever what is recorded later could not spare.
THEOREM ImportsNeverShort == ImportSpec => NeverShort
<1>1. ImportInv /\ [ImportNext]_ImportVars => Covers
  BY StepCovers
<1>2. Covers <=> \A l \in Listings : Covered(trades, l) => Covered(trades', l)
  BY DEF Covers
<1> QED  BY <1>1, <1>2, ImportInvariant, PTL DEF ImportSpec, NeverShort

-----------------------------------------------------------------------------
(***************************************************************************)
(* _first_below: the runs it steps over, and where it ends.                *)
(***************************************************************************)
\* The lengths of the runs.
Doubling(f, n) == f = [k \in 0 .. n + 1 |-> IF k = 0 THEN 1 ELSE 2 * f[k - 1]]

SpanOf(n) == CHOOSE f : Doubling(f, n)

\* The least value of every run of each length.
LeastRuns(f, values) ==
    f = [k \in 0 .. Len(values) |->
            IF k = 0 THEN values
            ELSE [i \in 1 .. Len(values) - SpanOf(Len(values))[k] + 1 |->
                     LET run == f[k - 1]
                     IN  IF run[i] <= run[i + SpanOf(Len(values))[k - 1]] THEN run[i]
                         ELSE run[i + SpanOf(Len(values))[k - 1]]]]

LeastOf(values) == CHOOSE f : LeastRuns(f, values)

\* The place reached when runs of each length have been tried.
FindStep(values, limit, k, i) ==
    IF i + SpanOf(Len(values))[k] <= Len(values) + 1 /\ LeastOf(values)[k][i] >= limit
    THEN i + SpanOf(Len(values))[k] ELSE i

Finding(f, values, first, limit) ==
    f = [k \in 0 .. Len(values) + 1 |->
            IF k = Len(values) + 1 THEN first ELSE FindStep(values, limit, k, f[k + 1])]

LEMMA FirstBelowDef ==
    ASSUME NEW values, NEW first, NEW limit
    PROVE  FirstBelow(values, first, limit) = (CHOOSE f : Finding(f, values, first, limit))[0]
  BY DEF FirstBelow, Finding, FindStep, LeastOf, LeastRuns, SpanOf, Doubling

\* Each length is twice the one before, and more than its number.
LEMMA SpanIs ==
    ASSUME NEW n \in Nat
    PROVE  /\ SpanOf(n) \in [0 .. n + 1 -> Nat] /\ SpanOf(n)[0] = 1
           /\ \A k \in 1 .. n + 1 : SpanOf(n)[k] = 2 * SpanOf(n)[k - 1]
           /\ \A k \in 0 .. n + 1 : SpanOf(n)[k] > k
<1> DEFINE G == [p \in (1 .. n + 1) \X Nat |-> 2 * p[2]]
           f == SpanOf(n)
<1>1. G \in [(1 .. n + 1) \X Nat -> Nat] /\ \A k \in 1 .. n + 1, v \in Nat : G[<<k, v>>] = 2 * v
  OBVIOUS
<1>2. n + 1 \in Nat /\ 1 \in Nat
  OBVIOUS
<1> HIDE DEF G
<1>3. PICK g : Walks(g, n + 1, Nat, 1, G)
  BY <1>1, <1>2, WalkExists
<1>4. Doubling(g, n)
  <2>1. g \in [0 .. n + 1 -> Nat] /\ g[0] = 1 /\ \A k \in 1 .. n + 1 : g[k] = G[<<k, g[k - 1]>>]
    BY <1>3 DEF Walks
  <2>2. ASSUME NEW k \in 0 .. n + 1 PROVE g[k] = IF k = 0 THEN 1 ELSE 2 * g[k - 1]
    <3>1. CASE k = 0
      BY <2>1, <3>1
    <3>2. CASE k # 0
      <4>1. k \in 1 .. n + 1 /\ k - 1 \in 0 .. n + 1
        BY <3>2
      <4>2. g[k - 1] \in Nat
        BY <2>1, <4>1
      <4> QED  BY <1>1, <2>1, <3>2, <4>1, <4>2
    <3> QED  BY <3>1, <3>2
  <2>3. g = [k \in 0 .. n + 1 |-> g[k]]
    BY <2>1
  <2> QED  BY <2>2, <2>3 DEF Doubling
<1>5. Doubling(f, n)
  BY <1>4 DEF SpanOf
<1> HIDE DEF f
<1>6. f[0] = 1 /\ f = [k \in 0 .. n + 1 |-> f[k]] /\ \A k \in 1 .. n + 1 : f[k] = 2 * f[k - 1]
  <2>1. 0 \in 0 .. n + 1 /\ \A k \in 1 .. n + 1 : k \in 0 .. n + 1 /\ k # 0
    OBVIOUS
  <2> QED  BY <1>5, <2>1 DEF Doubling
<1> DEFINE D == {k \in 0 .. n + 1 : f[k] \in Nat /\ f[k] > k}
<1>7. 0 \in D
  BY <1>6
<1>8. ASSUME NEW k \in 0 .. n + 1 - 1, k \in D PROVE k + 1 \in D
  <2> DEFINE q == k + 1
  <2>1. q \in 1 .. n + 1 /\ q - 1 = k /\ q \in 0 .. n + 1 /\ k \in Nat
    OBVIOUS
  <2>2. f[k] \in Nat /\ f[k] > k
    BY <1>8
  <2> HIDE DEF q
  <2>3. f[q] = 2 * f[k]
    BY <1>6, <2>1
  <2>4. f[q] \in Nat /\ f[q] > q
    BY <2>1, <2>2, <2>3
  <2> QED  BY <2>1, <2>4 DEF q
<1> HIDE DEF D
<1>9. \A k \in 0 .. n + 1 : k \in D
  BY <1>2, <1>7, <1>8, UpTo
<1>10. \A k \in 0 .. n + 1 : f[k] \in Nat /\ f[k] > k
  BY <1>9 DEF D
<1> QED  BY <1>6, <1>10 DEF f

\* A run's least value is not below a limit when no value of the run is.
LEMMA LeastRunIs ==
    ASSUME NEW n \in Nat, NEW values \in [1 .. n -> Int], Len(values) = n
    PROVE  \A k \in 0 .. n, i \in Int, limit \in Int :
              i >= 1 /\ i + SpanOf(n)[k] <= n + 1 =>
                 (LeastOf(values)[k][i] >= limit
                     <=> \A j \in i .. i + SpanOf(n)[k] - 1 : values[j] >= limit)
<1> DEFINE span == SpanOf(n)
           T(k) == [1 .. n - span[k] + 1 -> Int]
           V == UNION {T(k) : k \in 0 .. n}
           next(k, run) == [i \in 1 .. n - span[k] + 1 |->
                              IF run[i] <= run[i + span[k - 1]] THEN run[i] ELSE run[i + span[k - 1]]]
           G == [p \in (1 .. n) \X V |-> IF p[2] \in T(p[1] - 1) THEN next(p[1], p[2]) ELSE values]
           f == LeastOf(values)
<1>1. /\ span[0] = 1 /\ \A k \in 0 .. n : span[k] \in Nat /\ span[k] >= 1
      /\ \A k \in 1 .. n : span[k] = 2 * span[k - 1] /\ k \in 0 .. n /\ k - 1 \in 0 .. n
  <2>1. \A k \in 0 .. n + 1 : k \in Nat
    OBVIOUS
  <2>2. 0 .. n \subseteq 0 .. n + 1 /\ 1 .. n \subseteq 1 .. n + 1 /\ \A k \in 1 .. n : k \in 0 .. n /\ k - 1 \in 0 .. n
    OBVIOUS
  <2>3. \A k \in 0 .. n + 1 : SpanOf(n)[k] \in Nat /\ SpanOf(n)[k] > k
    BY SpanIs
  <2>4. \A k \in 0 .. n : span[k] \in Nat /\ span[k] >= 1
    BY <2>1, <2>2, <2>3
  <2> QED  BY <2>2, <2>4, SpanIs
<1>2. LeastRuns(f, values) <=> f = [k \in 0 .. n |-> IF k = 0 THEN values ELSE next(k, f[k - 1])]
  BY DEF LeastRuns
<1>3. \A g : g = [k \in 0 .. n |-> IF k = 0 THEN values ELSE next(k, g[k - 1])] => LeastRuns(g, values)
  BY DEF LeastRuns
<1> HIDE DEF span, f
<1>4. ASSUME NEW k \in 1 .. n, NEW run \in T(k - 1)
      PROVE  /\ next(k, run) \in T(k)
             /\ \A i \in 1 .. n - span[k] + 1 :
                   /\ i \in 1 .. n - span[k - 1] + 1 /\ i + span[k - 1] \in 1 .. n - span[k - 1] + 1
                   /\ next(k, run)[i] = IF run[i] <= run[i + span[k - 1]] THEN run[i] ELSE run[i + span[k - 1]]
  <2>1. span[k] = 2 * span[k - 1] /\ span[k - 1] \in Nat
    BY <1>1
  <2> DEFINE s == span[k]
             r == span[k - 1]
  <2>2. \A i \in 1 .. n - s + 1 : i \in 1 .. n - r + 1 /\ i + r \in 1 .. n - r + 1
    <3>1. s = r + r /\ r \in Nat
      BY <2>1
    <3> HIDE DEF s, r
    <3> QED  BY <3>1
  <2>3. run \in [1 .. n - r + 1 -> Int]
    OBVIOUS
  <2>4. next(k, run) = [i \in 1 .. n - s + 1 |-> IF run[i] <= run[i + r] THEN run[i] ELSE run[i + r]]
    OBVIOUS
  <2> HIDE DEF s, r, next
  <2>5. next(k, run) \in [1 .. n - s + 1 -> Int]
    BY <2>2, <2>3, <2>4
  <2> QED  BY <2>2, <2>4, <2>5 DEF s, r
<1>5. values \in T(0) /\ T(0) \subseteq V /\ \A k \in 1 .. n : T(k) \subseteq V
  <2>1. n - 1 + 1 = n /\ 0 \in 0 .. n
    OBVIOUS
  <2>2. T(0) = [1 .. n -> Int]
    BY <1>1, <2>1
  <2> HIDE DEF T
  <2> QED  BY <1>1, <2>1, <2>2
<1> HIDE DEF T, V, next
<1>6. G \in [(1 .. n) \X V -> V]
      /\ \A k \in 1 .. n, v \in V : G[<<k, v>>] = IF v \in T(k - 1) THEN next(k, v) ELSE values
  <2>1. \A k \in 1 .. n, v \in V : (IF v \in T(k - 1) THEN next(k, v) ELSE values) \in V
    BY <1>4, <1>5
  <2> QED  BY <2>1
<1> HIDE DEF G
<1>7. values \in V
  BY <1>5
<1>8. PICK g : Walks(g, n, V, values, G)
  BY <1>6, <1>7, WalkExists
<1>9. g \in [0 .. n -> V] /\ g[0] = values /\ \A k \in 1 .. n : g[k] = G[<<k, g[k - 1]>>]
  BY <1>8 DEF Walks
<1>10. \A k \in 0 .. n : g[k] \in T(k)
  <2> DEFINE D == {k \in 0 .. n : g[k] \in T(k)}
  <2>1. 0 \in D
    BY <1>5, <1>9
  <2>2. ASSUME NEW k \in 0 .. n - 1, k \in D PROVE k + 1 \in D
    <3> DEFINE q == k + 1
    <3>1. q \in 1 .. n /\ q - 1 = k /\ q \in 0 .. n /\ k \in 0 .. n
      OBVIOUS
    <3>2. g[k] \in T(k)
      BY <2>2
    <3> HIDE DEF q
    <3>3. g[k] \in V /\ g[q] = G[<<q, g[k]>>]
      BY <1>9, <3>1
    <3>4. g[q] = next(q, g[k])
      BY <1>6, <3>1, <3>2, <3>3
    <3>5. g[q] \in T(q)
      BY <1>4, <3>1, <3>2, <3>4
    <3> QED  BY <3>1, <3>5 DEF q
  <2> HIDE DEF D
  <2>3. \A k \in 0 .. n : k \in D
    BY <2>1, <2>2, UpTo
  <2> QED  BY <2>3 DEF D
<1>11. g = [k \in 0 .. n |-> IF k = 0 THEN values ELSE next(k, g[k - 1])]
  <2>1. ASSUME NEW k \in 0 .. n PROVE g[k] = IF k = 0 THEN values ELSE next(k, g[k - 1])
    <3>1. CASE k = 0
      BY <1>9, <3>1
    <3>2. CASE k # 0
      <4>1. k \in 1 .. n /\ k - 1 \in 0 .. n
        BY <3>2
      <4>2. g[k - 1] \in T(k - 1) /\ g[k - 1] \in V /\ g[k] = G[<<k, g[k - 1]>>]
        BY <1>9, <1>10, <4>1
      <4> QED  BY <1>6, <3>2, <4>1, <4>2
    <3> QED  BY <3>1, <3>2
  <2>2. g = [k \in 0 .. n |-> g[k]]
    BY <1>9
  <2> QED  BY <2>1, <2>2
<1>12. f = [k \in 0 .. n |-> IF k = 0 THEN values ELSE next(k, f[k - 1])]
  <2>1. LeastRuns(g, values)
    BY <1>3, <1>11
  <2>2. LeastRuns(LeastOf(values), values)
    BY <2>1 DEF LeastOf
  <2> QED  BY <1>2, <2>2 DEF f
<1>13. f[0] = values /\ \A k \in 1 .. n : f[k] = next(k, f[k - 1])
  <2>1. 0 \in 0 .. n /\ \A k \in 1 .. n : k \in 0 .. n /\ k # 0
    OBVIOUS
  <2> QED  BY <1>12, <2>1
<1> DEFINE Good(k) == \A i \in 1 .. n - span[k] + 1, limit \in Int :
              f[k][i] >= limit <=> \A j \in i .. i + span[k] - 1 : values[j] >= limit
           D == {k \in 0 .. n : f[k] \in T(k) /\ Good(k)}
<1>14. 0 \in D
  <2>1. Good(0)
    <3> SUFFICES ASSUME NEW i \in 1 .. n - span[0] + 1, NEW limit \in Int
                 PROVE  f[0][i] >= limit <=> \A j \in i .. i + span[0] - 1 : values[j] >= limit
      OBVIOUS
    <3>1. \A j \in i .. i + span[0] - 1 : j = i
      BY <1>1
    <3>2. i \in i .. i + span[0] - 1
      BY <1>1
    <3> QED  BY <1>13, <3>1, <3>2
  <2> HIDE DEF Good
  <2> QED  BY <1>5, <1>13, <2>1
<1>15. ASSUME NEW k \in 0 .. n - 1, k \in D PROVE k + 1 \in D
  <2> DEFINE q == k + 1
             s == span[q]
             r == span[k]
  <2>1. q \in 1 .. n /\ q - 1 = k /\ q \in 0 .. n /\ k \in 0 .. n
    OBVIOUS
  <2>2. f[k] \in T(k) /\ Good(k)
    BY <1>15
  <2> HIDE DEF q
  <2>3. f[q] = next(q, f[k])
    BY <1>13, <2>1
  <2>4. s = 2 * r /\ r \in Nat /\ s \in Nat /\ r >= 1
    BY <1>1, <2>1
  <2>5. /\ f[q] \in T(q)
        /\ \A i \in 1 .. n - s + 1 :
              /\ i \in 1 .. n - r + 1 /\ i + r \in 1 .. n - r + 1
              /\ f[q][i] = IF f[k][i] <= f[k][i + r] THEN f[k][i] ELSE f[k][i + r]
    <3> HIDE DEF Good
    <3> QED  BY <1>4, <2>1, <2>2, <2>3
  <2>6. Good(q)
    <3> SUFFICES ASSUME NEW i \in 1 .. n - s + 1, NEW limit \in Int
                 PROVE  f[q][i] >= limit <=> \A j \in i .. i + s - 1 : values[j] >= limit
      OBVIOUS
    <3>1. i \in 1 .. n - r + 1 /\ i + r \in 1 .. n - r + 1
      BY <2>5
    <3>2. /\ f[k][i] >= limit <=> \A j \in i .. i + r - 1 : values[j] >= limit
          /\ f[k][i + r] >= limit <=> \A j \in i + r .. i + r + r - 1 : values[j] >= limit
      BY <2>2, <3>1
    <3>3. f[k][i] \in Int /\ f[k][i + r] \in Int
      BY <2>2, <3>1 DEF T
    <3> DEFINE a == f[k][i]
               b == f[k][i + r]
    <3>4. f[q][i] = IF a <= b THEN a ELSE b
      BY <2>5
    <3>5. a \in Int /\ b \in Int
      BY <3>3
    <3>6. /\ \A j \in i .. i + s - 1 : j \in i .. i + r - 1 \/ j \in i + r .. i + r + r - 1
          /\ i .. i + r - 1 \subseteq i .. i + s - 1 /\ i + r .. i + r + r - 1 \subseteq i .. i + s - 1
      <4>1. s = r + r /\ r \in Nat /\ i \in Int
        BY <2>4
      <4> HIDE DEF s, r
      <4> QED  BY <4>1
    <3>7. (\A j \in i .. i + s - 1 : values[j] >= limit) <=> a >= limit /\ b >= limit
      <4>1. a >= limit <=> \A j \in i .. i + r - 1 : values[j] >= limit
        BY <3>2
      <4>2. b >= limit <=> \A j \in i + r .. i + r + r - 1 : values[j] >= limit
        BY <3>2
      <4> HIDE DEF a, b
      <4> QED  BY <3>6, <4>1, <4>2
    <3> HIDE DEF a, b
    <3>8. f[q][i] >= limit <=> a >= limit /\ b >= limit
      BY <3>4, <3>5
    <3> QED  BY <3>7, <3>8
  <2> HIDE DEF Good
  <2>7. q \in D
    BY <2>1, <2>5, <2>6
  <2> QED  BY <2>7 DEF q
<1> HIDE DEF D
<1>16. \A k \in 0 .. n : k \in D
  BY <1>14, <1>15, UpTo
<1>17. ASSUME NEW k \in 0 .. n, NEW i \in Int, NEW limit \in Int, i >= 1, i + span[k] <= n + 1
       PROVE  f[k][i] >= limit <=> \A j \in i .. i + span[k] - 1 : values[j] >= limit
  <2>1. i \in 1 .. n - span[k] + 1
    BY <1>1, <1>17
  <2>2. Good(k)
    <3> HIDE DEF Good
    <3> QED  BY <1>16 DEF D
  <2> QED  BY <2>1, <2>2
<1> QED  BY <1>17 DEF span, f

\* It ends at the first value from a place on that is below the limit.
LEMMA FirstBelowIs ==
    ASSUME NEW n \in Nat, NEW values \in [1 .. n -> Int], NEW first \in 1 .. n, NEW limit \in Int,
           NEW there \in first .. n, Len(values) = n,
           values[there] < limit, \A j \in first .. there - 1 : values[j] >= limit
    PROVE  FirstBelow(values, first, limit) = there
<1> DEFINE span == SpanOf(n)
           least == LeastOf(values)
           step(k, i) == FindStep(values, limit, k, i)
           G == [p \in (1 .. n + 1) \X Int |-> step(n + 1 - p[1], p[2])]
           f == CHOOSE h : Finding(h, values, first, limit)
<1>1. \A k \in 0 .. n : span[k] \in Nat /\ k \in 0 .. n + 1
  <2>1. 0 .. n \subseteq 0 .. n + 1
    OBVIOUS
  <2> QED  BY <2>1, SpanIs
<1>2. span[0] = 1 /\ \A k \in 0 .. n - 1 : span[k + 1] = 2 * span[k]
  <2>1. \A k \in 0 .. n - 1 : k + 1 \in 1 .. n + 1 /\ k + 1 - 1 = k
    OBVIOUS
  <2> QED  BY <2>1, SpanIs
<1>3. span[n + 1] = 2 * span[n] /\ span[n + 1] > n + 1 /\ span[n + 1] \in Nat
  <2>1. n + 1 \in 1 .. n + 1 /\ n + 1 \in 0 .. n + 1 /\ n + 1 - 1 = n
    OBVIOUS
  <2>2. \A k \in 1 .. n + 1 : SpanOf(n)[k] = 2 * SpanOf(n)[k - 1]
    BY SpanIs
  <2>3. \A k \in 0 .. n + 1 : SpanOf(n)[k] \in Nat /\ SpanOf(n)[k] > k
    BY SpanIs
  <2>4. span[n + 1] = 2 * span[n + 1 - 1]
    BY <2>1, <2>2
  <2>5. span[n + 1] > n + 1 /\ span[n + 1] \in Nat
    BY <2>1, <2>3
  <2> HIDE DEF span
  <2> QED  BY <2>1, <2>4, <2>5
<1>4. \A k, i : step(k, i) = IF i + span[k] <= n + 1 /\ least[k][i] >= limit THEN i + span[k] ELSE i
  BY DEF FindStep
<1>5. \A k \in 0 .. n, i \in Int : i >= 1 /\ i + span[k] <= n + 1 =>
         (least[k][i] >= limit <=> \A j \in i .. i + span[k] - 1 : values[j] >= limit)
  <2>1. \A k \in 0 .. n, i \in Int, bound \in Int :
              i >= 1 /\ i + SpanOf(n)[k] <= n + 1 =>
                 (LeastOf(values)[k][i] >= bound
                     <=> \A j \in i .. i + SpanOf(n)[k] - 1 : values[j] >= bound)
    BY LeastRunIs
  <2> HIDE DEF f, G
  <2> QED  BY <2>1
<1>6. \A h : Finding(h, values, first, limit) <=>
                h = [k \in 0 .. n + 1 |-> IF k = n + 1 THEN first ELSE step(k, h[k + 1])]
  BY DEF Finding
<1> HIDE DEF span, least, step
<1>7. \A k \in 0 .. n, i \in Int : step(k, i) \in Int
  BY <1>1, <1>4
<1>8. G \in [(1 .. n + 1) \X Int -> Int] /\ \A q \in 1 .. n + 1, i \in Int : G[<<q, i>>] = step(n + 1 - q, i)
  <2>1. \A q \in 1 .. n + 1 : n + 1 - q \in 0 .. n
    OBVIOUS
  <2>2. \A q \in 1 .. n + 1, i \in Int : step(n + 1 - q, i) \in Int
    BY <1>7, <2>1
  <2> QED  BY <2>2
<1> HIDE DEF G
<1>9. PICK g : Walks(g, n + 1, Int, first, G)
  <2>1. n + 1 \in Nat /\ first \in Int
    OBVIOUS
  <2> QED  BY <1>8, <2>1, WalkExists
<1>10. g \in [0 .. n + 1 -> Int] /\ g[0] = first /\ \A q \in 1 .. n + 1 : g[q] = G[<<q, g[q - 1]>>]
  BY <1>9 DEF Walks
<1> DEFINE h == [k \in 0 .. n + 1 |-> g[n + 1 - k]]
<1>11. h = [k \in 0 .. n + 1 |-> h[k]]
  OBVIOUS
<1>12. ASSUME NEW k \in 0 .. n + 1 PROVE h[k] = IF k = n + 1 THEN first ELSE step(k, h[k + 1])
  <2>1. CASE k = n + 1
    <3>1. n + 1 - k = 0
      BY <2>1
    <3> QED  BY <1>10, <2>1, <3>1
  <2>2. CASE k # n + 1
    <3> DEFINE q == n + 1 - k
    <3>1. q \in 1 .. n + 1 /\ q - 1 \in 0 .. n + 1 /\ n + 1 - q = k /\ k + 1 \in 0 .. n + 1 /\ n + 1 - (k + 1) = q - 1
      BY <2>2
    <3>2. h[k] = g[q] /\ h[k + 1] = g[q - 1]
      BY <3>1
    <3> HIDE DEF q, h
    <3>3. g[q - 1] \in Int /\ g[q] = G[<<q, g[q - 1]>>]
      BY <1>10, <3>1
    <3>4. G[<<q, g[q - 1]>>] = step(n + 1 - q, g[q - 1])
      BY <1>8, <3>1, <3>3
    <3> QED  BY <2>2, <3>1, <3>2, <3>3, <3>4
  <2> QED  BY <2>1, <2>2
<1> HIDE DEF h
<1>13. Finding(h, values, first, limit)
  <2>1. h = [k \in 0 .. n + 1 |-> IF k = n + 1 THEN first ELSE step(k, h[k + 1])]
    BY <1>11, <1>12
  <2> QED  BY <1>6, <2>1
<1>14. Finding(f, values, first, limit)
  BY <1>13
<1>15. FirstBelow(values, first, limit) = f[0]
  BY FirstBelowDef
<1> HIDE DEF f
<1>16. f = [k \in 0 .. n + 1 |-> IF k = n + 1 THEN first ELSE step(k, f[k + 1])]
  BY <1>6, <1>14
<1>17. f[n + 1] = first /\ \A k \in 0 .. n : f[k] = step(k, f[k + 1])
  <2>1. n + 1 \in 0 .. n + 1 /\ \A k \in 0 .. n : k \in 0 .. n + 1 /\ k # n + 1
    OBVIOUS
  <2> QED  BY <1>16, <2>1
<1> DEFINE Near(k) == f[k] \in first .. there /\ there - f[k] < span[k]
           D == {q \in 0 .. n + 1 : Near(n + 1 - q)}
<1>18. 0 \in D
  <2>1. n + 1 - 0 = n + 1 /\ 0 \in 0 .. n + 1
    OBVIOUS
  <2>2. Near(n + 1)
    BY <1>3, <1>17
  <2> HIDE DEF Near
  <2> QED  BY <2>1, <2>2
<1>19. ASSUME NEW q \in 0 .. n + 1 - 1, q \in D PROVE q + 1 \in D
  <2> DEFINE k == n + 1 - (q + 1)
             i == f[k + 1]
             s == span[k]
  <2>1. k \in 0 .. n /\ k + 1 = n + 1 - q /\ q + 1 \in 0 .. n + 1
    OBVIOUS
  <2>2. Near(k + 1)
    <3> HIDE DEF Near, k
    <3> QED  BY <1>19, <2>1
  <2> HIDE DEF k
  <2>3. span[k + 1] = 2 * s /\ s \in Nat
    <3>1. k = n \/ k \in 0 .. n - 1
      BY <2>1
    <3> QED  BY <1>1, <1>2, <1>3, <2>1, <3>1
  <2>4. i \in first .. there /\ there - i < 2 * s /\ s \in Nat
    BY <2>2, <2>3
  <2>5. f[k] = IF i + s <= n + 1 /\ least[k][i] >= limit THEN i + s ELSE i
    BY <1>4, <1>17, <2>1
  <2>6. i \in Int /\ i >= 1
    BY <2>4
  <2>7. i + s <= n + 1 => (least[k][i] >= limit <=> \A j \in i .. i + s - 1 : values[j] >= limit)
    <3> HIDE DEF i
    <3> QED  BY <1>5, <2>1, <2>6
  <2> HIDE DEF i, s
  <2>8. Near(k)
    <3>1. CASE i + s <= n + 1 /\ least[k][i] >= limit
      <4>1. \A j \in i .. i + s - 1 : values[j] >= limit
        BY <2>7, <3>1
      <4>2. ~(there \in i .. i + s - 1)
        <5>1. there \in 1 .. n
          OBVIOUS
        <5>2. values[there] \in Int
          BY <5>1
        <5> QED  BY <4>1, <5>2
      <4>3. i + s <= there
        BY <2>4, <4>2
      <4>4. f[k] = i + s
        BY <2>5, <3>1
      <4>5. i + s \in first .. there /\ there - (i + s) < s
        BY <2>4, <4>3
      <4> QED  BY <4>4, <4>5 DEF s
    <3>2. CASE i + s > n + 1
      <4>1. f[k] = i
        BY <2>4, <2>5, <3>2
      <4> QED  BY <2>4, <3>2, <4>1 DEF s
    <3>3. CASE i + s <= n + 1 /\ ~(least[k][i] >= limit)
      <4>1. f[k] = i
        BY <2>5, <3>3
      <4>2. PICK j \in i .. i + s - 1 : ~(values[j] >= limit)
        BY <2>7, <3>3
      <4>3. ~(j \in first .. there - 1) /\ j \in Int
        BY <2>4, <4>2
      <4>4. there <= j
        BY <2>4, <4>3
      <4>5. there - i < s
        BY <2>4, <4>4
      <4> QED  BY <2>4, <4>1, <4>5 DEF s
    <3> QED  BY <2>4, <3>1, <3>2, <3>3
  <2> HIDE DEF Near
  <2>9. Near(n + 1 - (q + 1))
    BY <2>8 DEF k
  <2> QED  BY <2>1, <2>9
<1> HIDE DEF D
<1>20. \A q \in 0 .. n + 1 : q \in D
  <2> DEFINE top == n + 1
  <2>1. top \in Nat /\ \A q \in 0 .. top - 1 : q \in D => q + 1 \in D
    BY <1>19
  <2> HIDE DEF top
  <2>2. \A q \in 0 .. top : q \in D
    BY <1>18, <2>1, UpTo
  <2> QED  BY <2>2 DEF top
<1>21. Near(0)
  <2> HIDE DEF Near
  <2>1. n + 1 \in D /\ n + 1 - (n + 1) = 0
    BY <1>20
  <2> QED  BY <2>1 DEF D
<1>22. f[0] = there
  BY <1>2, <1>21
<1> QED  BY <1>15, <1>22

-----------------------------------------------------------------------------
(***************************************************************************)
(* Some of a timeline's entries, in their places on the whole of it.       *)
(***************************************************************************)
\* How many of E the timeline of F has had at each place.
Counts(c, E, F) ==
    /\ c \in [0 .. Cardinality(F) -> 0 .. Cardinality(E)]
    /\ c[0] = 0 /\ c[Cardinality(F)] = Cardinality(E)
    /\ \A q \in 1 .. Cardinality(F) :
          /\ Timeline(F)[q] \notin E => c[q] = c[q - 1]
          /\ Timeline(F)[q] \in E => c[q] = c[q - 1] + 1 /\ Timeline(E)[c[q]] = Timeline(F)[q]

\* The count goes up with each of them, and is its place on their own timeline.
LEMMA CountExists ==
    ASSUME NEW F, Moments(F), NEW E, E \subseteq F
    PROVE  \E c : Counts(c, E, F)
<1> DEFINE n == Cardinality(F)
           e == Cardinality(E)
           line == Timeline(F)
           own == Timeline(E)
           past(k) == {y \in E : \E h \in 1 .. k : line[h] = y}
           c == [k \in 0 .. n |-> Cardinality(past(k))]
<1>1. Moments(E) /\ IsFiniteSet(E)
  BY PartMoments DEF Moments
<1>2. n \in Nat /\ Lists(line, F) /\ \A k \in 1 .. n : line[k] \in F
  BY TimelineIs DEF Lists
<1>3. e \in Nat /\ Lists(own, E)
  BY <1>1, TimelineIs DEF Lists
<1>4. \A k : past(k) \subseteq E
  OBVIOUS
<1>5. \A k \in 0 .. n : c[k] = Cardinality(past(k))
  OBVIOUS
<1>6. past(0) = {} /\ past(n) = E
  <2>1. 1 .. 0 = {}
    OBVIOUS
  <2>2. \A y \in E : \E h \in 1 .. n : line[h] = y
    BY <1>2 DEF Lists
  <2> QED  BY <2>1, <2>2
<1>7. ASSUME NEW k \in 0 .. n PROVE c[k] \in 0 .. e
  <2> DEFINE P == past(k)
  <2>1. P \subseteq E
    OBVIOUS
  <2> HIDE DEF P
  <2>2. Cardinality(P) <= Cardinality(E) /\ IsFiniteSet(P)
    BY <1>1, <2>1, FS_Subset
  <2>3. Cardinality(P) \in Nat
    BY <2>2, FS_CardinalityType
  <2>4. Cardinality(P) \in 0 .. e
    BY <1>3, <2>2, <2>3
  <2> HIDE DEF c, past
  <2> QED  BY <1>5, <2>4 DEF P
<1>8. c \in [0 .. n -> 0 .. e]
  <2> HIDE DEF past
  <2> QED  BY <1>7
<1>9. c[0] = 0 /\ c[n] = e
  <2>1. 0 \in 0 .. n /\ n \in 0 .. n
    BY <1>2
  <2> HIDE DEF c, past
  <2>2. c[0] = Cardinality({}) /\ c[n] = Cardinality(E)
    BY <1>5, <1>6, <2>1
  <2> QED  BY <2>2, FS_EmptySet
<1>10. ASSUME NEW q \in 1 .. n
       PROVE  /\ line[q] \notin E => c[q] = c[q - 1]
              /\ line[q] \in E => c[q] = c[q - 1] + 1 /\ own[c[q]] = line[q]
  <2> DEFINE k == q - 1
             x == line[q]
  <2>1. /\ q \in 0 .. n /\ k \in 0 .. n /\ k \in Int
        /\ \A h \in 1 .. q : h = q \/ h \in 1 .. k
        /\ 1 .. k \subseteq 1 .. q /\ q \in 1 .. q
        /\ \A h \in 1 .. k : h \in 1 .. n /\ h < q
    BY <1>2
  <2>2. c[q] = Cardinality(past(q)) /\ c[k] = Cardinality(past(k))
    BY <1>5, <2>1
  <2>3. \A h \in 1 .. n : (Less(line[h].at, x.at) <=> h < q) /\ (line[h] = x => h = q)
    BY <1>2, ListOrder DEF n, x
  <2>4. x \notin past(k)
    <3>1. ASSUME NEW h \in 1 .. k, line[h] = x PROVE FALSE
      <4>1. h \in 1 .. n /\ h < q
        BY <2>1
      <4>2. h = q
        BY <2>3, <3>1, <4>1
      <4> QED  BY <4>1, <4>2
    <3> QED  BY <3>1
  <2>5. x \notin E => past(q) = past(k)
    BY <2>1
  <2>6. x \in E => past(q) = past(k) \cup {x}
    BY <2>1
  <2>7. past(k) = {y \in E : Less(y.at, x.at)}
    <3>1. ASSUME NEW y \in past(k) PROVE Less(y.at, x.at)
      <4>1. PICK h \in 1 .. k : line[h] = y
        OBVIOUS
      <4> QED  BY <2>1, <2>3, <4>1
    <3>2. ASSUME NEW y \in E, Less(y.at, x.at) PROVE y \in past(k)
      <4>1. PICK h \in 1 .. n : line[h] = y
        BY <1>2 DEF Lists, n
      <4>2. h < q
        BY <2>3, <3>2, <4>1
      <4>3. h \in 1 .. k
        BY <2>1, <4>2
      <4> QED  BY <4>1, <4>3
    <3> QED  BY <3>1, <3>2
  <2>8. IsFiniteSet(past(k))
    BY <1>1, <1>4, FS_Subset
  <2> DEFINE P == past(k)
             Q == past(q)
  <2>9. /\ c[q] = Cardinality(Q) /\ c[k] = Cardinality(P) /\ x \notin P /\ IsFiniteSet(P)
        /\ (x \notin E => Q = P) /\ (x \in E => Q = P \cup {x}) /\ P = {y \in E : Less(y.at, x.at)}
    BY <2>2, <2>4, <2>5, <2>6, <2>7, <2>8
  <2> HIDE DEF c, P, Q, past, x, k
  <2>10. CASE x \notin E
    BY <2>9, <2>10 DEF x, k
  <2>11. CASE x \in E
    <3>1. Cardinality(Q) = Cardinality(P) + 1
      <4>1. IsFiniteSet(P) /\ x \notin P /\ Q = P \cup {x}
        BY <2>9, <2>11
      <4>2. Cardinality(P \cup {x}) = Cardinality(P) + 1
        BY <4>1, FS_AddElement
      <4> QED  BY <4>1, <4>2
    <3>2. PICK p \in 1 .. Cardinality(E) : own[p] = x
      BY <1>3, <2>11 DEF Lists
    <3>3. Cardinality({y \in E : Less(y.at, own[p].at)}) = p - 1
      BY <1>1, <1>3, PlaceIs
    <3>4. Cardinality(P) = p - 1 /\ p \in Int
      BY <1>3, <2>9, <3>2, <3>3
    <3>5. c[q] = p
      BY <2>9, <3>1, <3>4
    <3> QED  BY <2>9, <2>11, <3>1, <3>2, <3>5 DEF x, k
  <2> QED  BY <2>10, <2>11
<1> HIDE DEF c, past
<1>11. Counts(c, E, F)
  BY <1>8, <1>9, <1>10 DEF Counts
<1> QED  BY <1>11

\* The count never falls, and each place on their own timeline is come to.
LEMMA CountGrows ==
    ASSUME NEW F, Moments(F), NEW E, E \subseteq F, NEW c, Counts(c, E, F)
    PROVE  /\ \A q \in 0 .. Cardinality(F), h \in 0 .. Cardinality(F) : h <= q => c[h] <= c[q]
           /\ \A p \in 1 .. Cardinality(E) : \E q \in 1 .. Cardinality(F) :
                 Timeline(F)[q] \in E /\ c[q] = p
<1> DEFINE n == Cardinality(F)
           e == Cardinality(E)
           line == Timeline(F)
           own == Timeline(E)
<1>1. Moments(E)
  BY PartMoments
<1>2. n \in Nat /\ Lists(line, F) /\ e \in Nat /\ Lists(own, E)
  BY <1>1, TimelineIs DEF Lists
<1>3. c \in [0 .. n -> 0 .. e]
      /\ \A q \in 1 .. n : /\ line[q] \notin E => c[q] = c[q - 1]
                           /\ line[q] \in E => c[q] = c[q - 1] + 1 /\ own[c[q]] = line[q]
  BY DEF Counts
<1> HIDE DEF n, e, line, own
<1>4. ASSUME NEW h \in 0 .. n PROVE \A q \in 0 .. n : h <= q => c[h] <= c[q]
  <2> DEFINE D == {q \in 0 .. n : h <= q => c[h] <= c[q]}
  <2>1. 0 \in D
    <3>1. c[h] \in Int /\ (h <= 0 => h = 0)
      BY <1>3
    <3> QED  BY <1>2, <3>1
  <2>2. ASSUME NEW k \in 0 .. n - 1, k \in D PROVE k + 1 \in D
    <3> DEFINE q == k + 1
    <3>1. q \in 1 .. n /\ q \in 0 .. n /\ q - 1 = k /\ k \in 0 .. n
      BY <1>2
    <3>2. h <= k => c[h] <= c[k]
      BY <2>2
    <3>3. h <= q => h <= k \/ h = q
      OBVIOUS
    <3> HIDE DEF q
    <3>4. c[q] = c[k] \/ c[q] = c[k] + 1
      BY <1>3, <3>1
    <3>5. c[q] \in Int /\ c[k] \in Int /\ c[h] \in Int
      BY <1>3, <3>1
    <3>6. h <= q => c[h] <= c[q]
      BY <3>2, <3>3, <3>4, <3>5
    <3> QED  BY <3>1, <3>6 DEF q
  <2> HIDE DEF D
  <2>3. \A q \in 0 .. n : q \in D
    BY <1>2, <2>1, <2>2, UpTo
  <2> QED  BY <2>3 DEF D
<1>5. ASSUME NEW p \in 1 .. e PROVE \E q \in 1 .. n : line[q] \in E /\ c[q] = p
  <2>1. own[p] \in E
    BY <1>2 DEF Lists, e
  <2>2. PICK q \in 1 .. n : line[q] = own[p]
    BY <1>2, <2>1 DEF Lists, n
  <2>3. q \in 0 .. n /\ q - 1 \in 0 .. n
    BY <1>2
  <2>4. c[q] = c[q - 1] + 1 /\ own[c[q]] = own[p]
    BY <1>3, <2>1, <2>2
  <2>5. c[q] \in 1 .. e
    <3>1. c[q] \in 0 .. e /\ c[q - 1] \in 0 .. e
      BY <1>3, <2>3
    <3> QED  BY <2>4, <3>1
  <2>6. c[q] = p
    BY <1>1, <1>2, <2>4, <2>5, ListOrder DEF e
  <2> QED  BY <2>1, <2>2, <2>6
<1> QED  BY <1>4, <1>5 DEF n, e, line, own

\* The totals of some of a timeline's entries, at each place of the whole.
Summing(m, E, F) == m \in [0 .. Cardinality(F) -> Int] /\ Sums(m, E, F)

SumTo(E, F) == CHOOSE m : Summing(m, E, F)

LEMMA SumToIs ==
    ASSUME NEW F, Moments(F), NEW E, E \subseteq F
    PROVE  Summing(SumTo(E, F), E, F)
<1> DEFINE n == Cardinality(F)
           line == Timeline(F)
           change(i) == IF line[i] \in E THEN line[i].change ELSE 0
           G == [p \in (1 .. n) \X Int |-> p[2] + change(p[1])]
<1>1. n \in Nat /\ \A i \in 1 .. n : line[i] \in EntryRows
  BY TimelineIs DEF Lists, Moments
<1>2. \A i \in 1 .. n : change(i) \in Int
  BY <1>1 DEF EntryRows
<1> HIDE DEF n, change
<1>3. G \in [(1 .. n) \X Int -> Int] /\ \A i \in 1 .. n, v \in Int : G[<<i, v>>] = v + change(i)
  BY <1>2
<1> HIDE DEF G
<1>4. PICK m : Walks(m, n, Int, 0, G)
  <2>1. 0 \in Int
    OBVIOUS
  <2> QED  BY <1>1, <1>3, <2>1, WalkExists
<1>5. m \in [0 .. n -> Int] /\ m[0] = 0 /\ \A i \in 1 .. n : m[i] = G[<<i, m[i - 1]>>]
  BY <1>4 DEF Walks
<1>6. \A i \in 1 .. n : m[i] = m[i - 1] + change(i)
  <2>1. \A i \in 1 .. n : m[i - 1] \in Int
    BY <1>1, <1>5
  <2> QED  BY <1>3, <1>5, <2>1
<1>7. Summing(m, E, F)
  BY <1>5, <1>6 DEF Summing, Sums, n, change
<1> QED  BY <1>7 DEF SumTo

\* They are the totals along their own timeline, where the count is.
LEMMA SumsPlaced ==
    ASSUME NEW F, Moments(F), NEW E, E \subseteq F, NEW m, Summing(m, E, F), NEW c, Counts(c, E, F)
    PROVE  \A q \in 0 .. Cardinality(F) : m[q] = Totals(Timeline(E))[c[q]]
<1> DEFINE n == Cardinality(F)
           e == Cardinality(E)
           line == Timeline(F)
           own == Timeline(E)
           total == Totals(own)
           D == {q \in 0 .. n : m[q] = total[c[q]]}
<1>1. Moments(E)
  BY PartMoments
<1>2. n \in Nat
  BY TimelineIs DEF Lists
<1>3. e \in Nat /\ own \in Seq(EntryRows) /\ Len(own) = e
  BY <1>1, TimelineIs DEF Lists
<1>4. total[0] = 0 /\ \A p \in 1 .. e : total[p] = total[p - 1] + own[p].change
  BY <1>3, TotalsIs
<1>5. /\ c \in [0 .. n -> 0 .. e] /\ c[0] = 0
      /\ \A q \in 1 .. n : /\ line[q] \notin E => c[q] = c[q - 1]
                           /\ line[q] \in E => c[q] = c[q - 1] + 1 /\ own[c[q]] = line[q]
  BY DEF Counts
<1>6. m \in [0 .. n -> Int] /\ m[0] = 0
      /\ \A q \in 1 .. n : m[q] = m[q - 1] + (IF line[q] \in E THEN line[q].change ELSE 0)
  BY DEF Summing, Sums
<1> HIDE DEF n, e, line, own, total
<1>7. 0 \in D
  BY <1>2, <1>4, <1>5, <1>6
<1>8. ASSUME NEW k \in 0 .. n - 1, k \in D PROVE k + 1 \in D
  <2> DEFINE q == k + 1
  <2>1. q \in 1 .. n /\ q \in 0 .. n /\ q - 1 = k /\ k \in 0 .. n
    BY <1>2
  <2>2. m[k] = total[c[k]]
    BY <1>8
  <2> HIDE DEF q
  <2>3. m[k] \in Int /\ c[k] \in 0 .. e /\ c[q] \in 0 .. e
    BY <1>5, <1>6, <2>1
  <2>4. CASE line[q] \notin E
    <3>1. c[q] = c[k] /\ m[q] = m[k] + 0
      BY <1>5, <1>6, <2>1, <2>4
    <3>2. m[q] = m[k]
      BY <2>3, <3>1
    <3> QED  BY <2>1, <2>2, <3>1, <3>2 DEF q
  <2>5. CASE line[q] \in E
    <3>1. c[q] = c[k] + 1 /\ own[c[q]] = line[q] /\ m[q] = m[k] + line[q].change
      BY <1>5, <1>6, <2>1, <2>5
    <3>2. c[q] \in 1 .. e /\ c[q] - 1 = c[k]
      BY <2>3, <3>1
    <3>3. total[c[q]] = total[c[k]] + line[q].change
      BY <1>4, <3>1, <3>2
    <3> QED  BY <2>1, <2>2, <3>1, <3>3 DEF q
  <2> QED  BY <2>4, <2>5
<1> HIDE DEF D
<1>9. \A q \in 0 .. n : q \in D
  BY <1>2, <1>7, <1>8, UpTo
<1> QED  BY <1>9 DEF D, n, total, own

\* balance_breach names the first entry that takes the total below nothing.
LEMMA BreachFirst ==
    ASSUME NEW E, Moments(E), NEW p \in 1 .. Cardinality(E), Totals(Timeline(E))[p] < 0,
           \A j \in 1 .. p - 1 : Totals(Timeline(E))[j] >= 0
    PROVE  Breach(E) = [trade |-> Timeline(E)[p], balance |-> Totals(Timeline(E))[p],
                        before |-> Totals(Timeline(E))[p - 1]]
<1> DEFINE line == Timeline(E)
           total == Totals(line)
           n == Cardinality(E)
           short == {i \in DOMAIN line : total[i] < 0}
           least == CHOOSE i \in short : \A j \in short : i <= j
<1>1. n \in Nat /\ line \in Seq(EntryRows) /\ Len(line) = n /\ DOMAIN line = 1 .. n
  BY TimelineIs DEF Lists
<1>2. total \in [0 .. n -> Int]
  BY <1>1, TotalsIs
<1>3. Breach(E) = IF short = {} THEN NULL
                  ELSE [trade |-> line[least], balance |-> total[least], before |-> total[least - 1]]
  BY DEF Breach
<1>4. total[p] < 0 /\ p \in 1 .. n /\ \A j \in 1 .. p - 1 : total[j] >= 0
  OBVIOUS
<1> HIDE DEF total, line, n
<1>5. p \in short
  BY <1>1, <1>4
<1>6. ASSUME NEW j \in short PROVE p <= j
  <2>1. j \in 1 .. n /\ total[j] < 0 /\ j \in 0 .. n
    BY <1>1
  <2>2. total[j] \in Int
    BY <1>2, <2>1
  <2>3. ~(j \in 1 .. p - 1)
    BY <1>4, <2>1, <2>2
  <2> QED  BY <1>4, <2>1, <2>3
<1>7. \A j \in short : j \in Int
  BY <1>1
<1> HIDE DEF short
<1>8. least \in short /\ least <= p
  BY <1>5, <1>6
<1>9. p <= least /\ p \in Int /\ least \in Int
  BY <1>5, <1>6, <1>7, <1>8
<1>10. least = p
  BY <1>8, <1>9
<1> HIDE DEF least
<1> QED  BY <1>3, <1>5, <1>10 DEF line, total

\* So the first place of the whole timeline where the sum of some entries is below
\* nothing is the breach of those entries, and where there is none they have none.
ShortAt(m, F, q) == [trade |-> Timeline(F)[q], balance |-> m[q], before |-> m[q - 1]]

FirstShort(m, q) == m[q] < 0 /\ \A h \in 0 .. q - 1 : m[h] >= 0

LEMMA BreachAlong ==
    ASSUME NEW F, Moments(F), NEW E, E \subseteq F, NEW m, Summing(m, E, F)
    PROVE  /\ \A q \in 1 .. Cardinality(F) : FirstShort(m, q) => Breach(E) = ShortAt(m, F, q)
           /\ (\A q \in 0 .. Cardinality(F) : m[q] >= 0) => Breach(E) = NULL
<1> DEFINE n == Cardinality(F)
           e == Cardinality(E)
           line == Timeline(F)
           own == Timeline(E)
           total == Totals(own)
<1>1. Moments(E)
  BY PartMoments
<1>2. n \in Nat /\ \A q \in 1 .. n : line[q] \in EntryRows
  BY TimelineIs DEF Lists, Moments
<1>3. PICK c : Counts(c, E, F)
  BY CountExists
<1>4. /\ c \in [0 .. n -> 0 .. e]
      /\ \A q \in 1 .. n : /\ line[q] \notin E => c[q] = c[q - 1]
                           /\ line[q] \in E => c[q] = c[q - 1] + 1 /\ own[c[q]] = line[q]
  BY <1>3 DEF Counts
<1>5. /\ \A q \in 0 .. n, h \in 0 .. n : h <= q => c[h] <= c[q]
      /\ \A p \in 1 .. e : \E q \in 1 .. n : line[q] \in E /\ c[q] = p
  BY <1>3, CountGrows
<1>6. \A q \in 0 .. n : m[q] = total[c[q]]
  BY <1>3, SumsPlaced
<1>7. m \in [0 .. n -> Int]
      /\ \A q \in 1 .. n : m[q] = m[q - 1] + (IF line[q] \in E THEN line[q].change ELSE 0)
  BY DEF Summing, Sums
<1>8. e \in Nat
  BY <1>1, TimelineIs DEF Lists
<1>9. \A p \in 1 .. e : total[p] < 0 /\ (\A j \in 1 .. p - 1 : total[j] >= 0)
         => Breach(E) = [trade |-> own[p], balance |-> total[p], before |-> total[p - 1]]
  BY <1>1, BreachFirst
<1>10. Breach(E) = NULL <=> \A p \in 1 .. e : total[p] >= 0
  BY <1>1, BreachIs DEF Afloat
<1> HIDE DEF n, e, line, own, total
<1>11. ASSUME NEW q \in 1 .. n, FirstShort(m, q)
       PROVE  Breach(E) = [trade |-> line[q], balance |-> m[q], before |-> m[q - 1]]
  <2>1. q \in 0 .. n /\ q - 1 \in 0 .. n /\ q - 1 \in 0 .. q - 1
    BY <1>2
  <2>2. m[q] < 0 /\ m[q - 1] >= 0 /\ m[q] \in Int /\ m[q - 1] \in Int
    BY <1>7, <1>11, <2>1 DEF FirstShort
  <2>3. line[q] \in E
    <3>1. line[q] \notin E => m[q] = m[q - 1] + 0
      BY <1>7
    <3> QED  BY <2>2, <3>1
  <2>4. c[q] = c[q - 1] + 1 /\ own[c[q]] = line[q] /\ c[q] \in 0 .. e /\ c[q - 1] \in 0 .. e
    BY <1>4, <2>1, <2>3
  <2> DEFINE p == c[q]
  <2>5. p \in 1 .. e /\ p - 1 = c[q - 1]
    BY <1>8, <2>4
  <2>6. total[p] = m[q] /\ total[p - 1] = m[q - 1]
    BY <1>6, <2>1, <2>5
  <2>7. ASSUME NEW j \in 1 .. p - 1 PROVE total[j] >= 0
    <3>1. j \in 1 .. e /\ j < p
      BY <1>8, <2>5
    <3>2. PICK h \in 1 .. n : c[h] = j
      BY <1>5, <3>1
    <3>3. h \in 0 .. n
      BY <1>2
    <3>4. ~(q <= h)
      <4>1. q <= h => p <= j
        BY <1>5, <2>1, <3>2, <3>3
      <4> QED  BY <2>5, <3>1, <4>1
    <3>5. h \in 0 .. q - 1
      BY <1>2, <3>4
    <3>6. m[h] >= 0
      BY <1>11, <3>5 DEF FirstShort
    <3> QED  BY <1>6, <3>2, <3>3, <3>6
  <2> HIDE DEF p
  <2>8. total[p] < 0
    BY <2>2, <2>6
  <2>9. Breach(E) = [trade |-> own[p], balance |-> total[p], before |-> total[p - 1]]
    BY <1>9, <2>5, <2>7, <2>8
  <2>10. own[p] = line[q]
    BY <2>4 DEF p
  <2> QED  BY <2>6, <2>9, <2>10
<1>12. ASSUME \A q \in 0 .. n : m[q] >= 0 PROVE Breach(E) = NULL
  <2>1. ASSUME NEW p \in 1 .. e PROVE total[p] >= 0
    <3>1. PICK q \in 1 .. n : c[q] = p
      BY <1>5
    <3>2. q \in 0 .. n
      BY <1>2
    <3> QED  BY <1>6, <1>12, <3>1, <3>2
  <2> QED  BY <1>10, <2>1
<1> QED  BY <1>11, <1>12 DEF ShortAt, n, line

\* Entries alike up to a place have the same sums up to it.
LEMMA SumsAlike ==
    ASSUME NEW F, NEW E, NEW D, NEW m, NEW s, NEW k \in 0 .. Cardinality(F),
           Cardinality(F) \in Nat, Summing(m, E, F), Summing(s, D, F),
           \A h \in 1 .. k : Timeline(F)[h] \in E <=> Timeline(F)[h] \in D
    PROVE  \A h \in 0 .. k : m[h] = s[h]
<1> DEFINE n == Cardinality(F)
           line == Timeline(F)
           G == {h \in 0 .. k : m[h] = s[h]}
<1>1. /\ m[0] = 0 /\ \A q \in 1 .. n : m[q] = m[q - 1] + (IF line[q] \in E THEN line[q].change ELSE 0)
      /\ s[0] = 0 /\ \A q \in 1 .. n : s[q] = s[q - 1] + (IF line[q] \in D THEN line[q].change ELSE 0)
  BY DEF Summing, Sums
<1>2. n \in Nat /\ k \in 0 .. n /\ \A h \in 1 .. k : line[h] \in E <=> line[h] \in D
  OBVIOUS
<1> HIDE DEF n, line
<1>3. 0 \in G
  BY <1>1, <1>2
<1>4. ASSUME NEW j \in 0 .. k - 1, j \in G PROVE j + 1 \in G
  <2> DEFINE q == j + 1
  <2>1. q \in 1 .. k /\ q \in 1 .. n /\ q \in 0 .. k /\ q - 1 = j /\ m[j] = s[j]
    BY <1>2, <1>4
  <2> HIDE DEF q
  <2>2. m[q] = s[q]
    BY <1>1, <1>2, <2>1
  <2> QED  BY <2>1, <2>2 DEF q
<1> HIDE DEF G
<1>5. k \in Nat
  BY <1>2
<1>6. \A h \in 0 .. k : h \in G
  BY <1>3, <1>4, <1>5, UpTo
<1> QED  BY <1>6 DEF G

\* What the recorded trades come to at each place.
LEMMA RecordedTotalsAre ==
    ASSUME NEW line \in Seq(EntryRows)
    PROVE  /\ RecordedTotals(line) \in [1 .. Len(line) -> Int]
           /\ Len(RecordedTotals(line)) = Len(line)
           /\ \A i \in 2 .. Len(line) : RecordedTotals(line)[i] =
                 RecordedTotals(line)[i - 1] + (IF line[i].row = 0 THEN line[i].change ELSE 0)
<1> DEFINE n == Len(line)
           bare == [i \in 1 .. n |-> IF line[i].row = 0 THEN line[i] ELSE [line[i] EXCEPT !.change = 0]]
           total == Totals(bare)
           rec == RecordedTotals(line)
<1>1. n \in Nat /\ \A i \in 1 .. n : line[i] \in EntryRows
  OBVIOUS
<1>2. ASSUME NEW e \in EntryRows
      PROVE  [e EXCEPT !.change = 0] \in EntryRows /\ [e EXCEPT !.change = 0].change = 0
  <2> DEFINE A == Int \X Int \X Int \X Int
             b == [e EXCEPT !.change = 0]
  <2>1. EntryRows = [at : A, change : Int, row : Nat]
    BY DEF EntryRows
  <2> HIDE DEF A
  <2>2. e \in [at : A, change : Int, row : Nat] /\ 0 \in Int
    BY <2>1
  <2>3. b \in [at : A, change : Int, row : Nat] /\ b.change = 0
    BY <2>2
  <2> HIDE DEF b
  <2>4. b \in EntryRows /\ b.change = 0
    BY <2>1, <2>3
  <2> QED  BY <2>4 DEF b
<1>3. rec = [i \in 1 .. n |-> total[i]]
  BY DEF RecordedTotals
<1> HIDE DEF n, rec, total
<1>4. bare \in [1 .. n -> EntryRows]
  BY <1>1, <1>2
<1>5. \A i \in 1 .. n : bare[i].change = IF line[i].row = 0 THEN line[i].change ELSE 0
  BY <1>1, <1>2
<1> HIDE DEF bare
<1>6. bare \in Seq(EntryRows) /\ Len(bare) = n
  BY <1>1, <1>4
<1>7. total \in [0 .. n -> Int] /\ \A i \in 1 .. n : total[i] = total[i - 1] + bare[i].change
  BY <1>6, TotalsIs DEF total
<1>8. rec \in [1 .. n -> Int] /\ Len(rec) = n
  <2>1. \A i \in 1 .. n : total[i] \in Int
    BY <1>1, <1>7
  <2>2. rec \in [1 .. n -> Int]
    BY <1>3, <2>1
  <2> QED  BY <1>1, <2>2
<1>9. ASSUME NEW i \in 2 .. n PROVE rec[i] = rec[i - 1] + (IF line[i].row = 0 THEN line[i].change ELSE 0)
  <2>1. i \in 1 .. n /\ i - 1 \in 1 .. n
    BY <1>1
  <2>2. rec[i] = total[i] /\ rec[i - 1] = total[i - 1]
    BY <1>3, <2>1
  <2> QED  BY <1>5, <1>7, <2>1, <2>2
<1> QED  BY <1>8, <1>9 DEF n, rec

\* From a place on, totals that only the recorded trades change.
Recording(m, line, i) ==
    /\ m \in [0 .. Len(line) -> Int]
    /\ \A h \in i + 1 .. Len(line) : m[h] = m[h - 1] + (IF line[h].row = 0 THEN line[h].change ELSE 0)

LEMMA RecordedFrom ==
    ASSUME NEW line \in Seq(EntryRows), NEW i \in 1 .. Len(line), NEW m, Recording(m, line, i)
    PROVE  \A h \in i .. Len(line) : m[h] = m[i] + RecordedTotals(line)[h] - RecordedTotals(line)[i]
<1> DEFINE n == Len(line)
           rec == RecordedTotals(line)
           D == {k \in 0 .. n - i : m[i + k] = m[i] + rec[i + k] - rec[i]}
<1>1. n \in Nat /\ i \in 1 .. n
  OBVIOUS
<1>2. rec \in [1 .. n -> Int]
      /\ \A h \in 2 .. n : rec[h] = rec[h - 1] + (IF line[h].row = 0 THEN line[h].change ELSE 0)
  BY RecordedTotalsAre
<1>3. m \in [0 .. n -> Int]
      /\ \A h \in i + 1 .. n : m[h] = m[h - 1] + (IF line[h].row = 0 THEN line[h].change ELSE 0)
  BY DEF Recording
<1>4. \A h \in 1 .. n : line[h].change \in Int
  <2>1. \A h \in 1 .. n : line[h] \in EntryRows
    OBVIOUS
  <2> HIDE DEF n
  <2> QED  BY <2>1 DEF EntryRows
<1> HIDE DEF n, rec
<1>5. 0 \in D
  <2>1. i + 0 = i /\ i \in 0 .. n /\ 0 \in 0 .. n - i
    BY <1>1
  <2> QED  BY <1>1, <1>2, <1>3, <2>1
<1>6. ASSUME NEW k \in 0 .. n - i - 1, k \in D PROVE k + 1 \in D
  <2> DEFINE h == i + (k + 1)
             g == i + k
  <2>1. /\ h \in i + 1 .. n /\ h \in 2 .. n /\ h \in 1 .. n /\ h \in 0 .. n /\ h - 1 = g
        /\ g \in 1 .. n /\ g \in 0 .. n /\ i \in 0 .. n /\ k + 1 \in 0 .. n - i
    BY <1>1
  <2>2. m[g] = m[i] + rec[g] - rec[i]
    BY <1>6
  <2> HIDE DEF h, g
  <2> DEFINE d == IF line[h].row = 0 THEN line[h].change ELSE 0
  <2>3. m[h] = m[g] + d /\ rec[h] = rec[g] + d /\ d \in Int
    <3>1. 0 \in Int
      OBVIOUS
    <3> QED  BY <1>2, <1>3, <1>4, <2>1, <3>1
  <2> HIDE DEF d
  <2>4. m[g] \in Int /\ m[i] \in Int /\ rec[g] \in Int /\ rec[i] \in Int
    BY <1>1, <1>2, <1>3, <2>1
  <2>5. m[h] = m[i] + rec[h] - rec[i]
    BY <2>2, <2>3, <2>4
  <2> QED  BY <2>1, <2>5 DEF h
<1> HIDE DEF D
<1>7. \A k \in 0 .. n - i : k \in D
  <2>1. n - i \in Nat
    BY <1>1
  <2> QED  BY <1>5, <1>6, <2>1, UpTo
<1>8. ASSUME NEW h \in i .. n PROVE m[h] = m[i] + rec[h] - rec[i]
  <2> DEFINE k == h - i
  <2>1. k \in 0 .. n - i /\ i + k = h
    BY <1>1
  <2> HIDE DEF k
  <2>2. k \in D
    BY <1>7, <2>1
  <2> QED  BY <2>1, <2>2 DEF D
<1> QED  BY <1>8 DEF n, rec

\* There is as much as is needed at a place just when such totals are never below
\* nothing from there on.
LEMMA NeedTells ==
    ASSUME NEW line \in Seq(EntryRows), NEW i \in 0 .. Len(line), NEW m, Recording(m, line, i)
    PROVE  m[i] >= NeedOf(line)[i + 1] <=> \A h \in i .. Len(line) : m[h] >= 0
<1> DEFINE n == Len(line)
           need == NeedOf(line)
           Met(j) == m[j] >= need[j + 1] <=> \A h \in j .. n : m[h] >= 0
           D == {k \in 0 .. n - i : Met(n - k)}
<1>1. n \in Nat /\ i \in 0 .. n
  OBVIOUS
<1>2. /\ need \in [1 .. n + 1 -> Nat] /\ need[n + 1] = 0
      /\ \A h \in 1 .. n :
            /\ line[h].row # 0 => need[h] = need[h + 1]
            /\ line[h].row = 0 => need[h] =
                  IF need[h + 1] > line[h].change THEN need[h + 1] - line[h].change ELSE 0
  BY NeedIs
<1>3. m \in [0 .. n -> Int]
      /\ \A h \in i + 1 .. n : m[h] = m[h - 1] + (IF line[h].row = 0 THEN line[h].change ELSE 0)
  BY DEF Recording
<1>4. \A h \in 1 .. n : line[h].change \in Int
  <2>1. \A h \in 1 .. n : line[h] \in EntryRows
    OBVIOUS
  <2> HIDE DEF n
  <2> QED  BY <2>1 DEF EntryRows
<1> HIDE DEF n, need
<1>5. 0 \in D
  <2>1. n - 0 = n /\ 0 \in 0 .. n - i /\ n \in 0 .. n /\ \A h \in n .. n : h = n
    BY <1>1
  <2>2. Met(n)
    <3>1. n \in n .. n
      BY <1>1
    <3> QED  BY <1>2, <2>1, <3>1
  <2> HIDE DEF Met
  <2> QED  BY <2>1, <2>2
<1>6. ASSUME NEW k \in 0 .. n - i - 1, k \in D PROVE k + 1 \in D
  <2> DEFINE h == n - k
             g == n - (k + 1)
  <2>1. /\ h \in i + 1 .. n /\ h \in 1 .. n /\ h \in 0 .. n /\ h - 1 = g /\ g + 1 = h /\ h + 1 \in 1 .. n + 1
        /\ h \in 1 .. n + 1 /\ g \in 0 .. n /\ g \in Int /\ k + 1 \in 0 .. n - i
    BY <1>1
  <2>2. Met(h)
    BY <1>6
  <2> HIDE DEF h, g
  <2>3. m[h] >= need[h + 1] <=> \A j \in h .. n : m[j] >= 0
    BY <2>2
  <2>4. (\A j \in g .. n : m[j] >= 0) <=> m[g] >= 0 /\ \A j \in h .. n : m[j] >= 0
    <3>1. /\ \A j \in g .. n : j = g \/ j \in h .. n
          /\ g \in g .. n /\ h .. n \subseteq g .. n
      BY <1>1, <2>1
    <3> QED  BY <3>1
  <2>5. m[h] = m[g] + (IF line[h].row = 0 THEN line[h].change ELSE 0)
    BY <1>3, <2>1
  <2>6. m[h] \in Int /\ m[g] \in Int /\ need[h] \in Nat /\ need[h + 1] \in Nat /\ line[h].change \in Int
    BY <1>2, <1>3, <1>4, <2>1
  <2>7. m[g] >= need[h] <=> m[g] >= 0 /\ m[h] >= need[h + 1]
    <3>1. CASE line[h].row = 0
      <4>1. m[h] = m[g] + line[h].change
        BY <2>5, <3>1
      <4>2. need[h] = IF need[h + 1] > line[h].change THEN need[h + 1] - line[h].change ELSE 0
        BY <1>2, <2>1, <3>1
      <4> QED  BY <2>6, <4>1, <4>2
    <3>2. CASE line[h].row # 0
      <4>1. m[h] = m[g]
        BY <2>5, <2>6, <3>2
      <4>2. need[h] = need[h + 1]
        BY <1>2, <2>1, <3>2
      <4> QED  BY <2>6, <4>1, <4>2
    <3> QED  BY <3>1, <3>2
  <2>8. m[g] >= need[g + 1] <=> \A j \in g .. n : m[j] >= 0
    BY <2>1, <2>3, <2>4, <2>7
  <2>9. Met(n - (k + 1))
    BY <2>8 DEF g
  <2> HIDE DEF Met
  <2> QED  BY <2>1, <2>9
<1> HIDE DEF D
<1>7. \A k \in 0 .. n - i : k \in D
  <2>1. n - i \in Nat
    BY <1>1
  <2> QED  BY <1>5, <1>6, <2>1, UpTo
<1>8. Met(i)
  <2>1. n - i \in 0 .. n - i /\ n - (n - i) = i
    BY <1>1
  <2> HIDE DEF Met
  <2>2. n - i \in D
    BY <1>7, <2>1
  <2> QED  BY <2>1, <2>2 DEF D
<1> QED  BY <1>8 DEF n, need

-----------------------------------------------------------------------------
(***************************************************************************)
(* The walk of _shortfalls_walked, and the pass of _shortfalls beside it.  *)
(***************************************************************************)
WalkedStep(had, x, w) ==
    LET breach == Breach(had \cup w.accepted \cup {x})
    IN  IF breach = NULL THEN [w EXCEPT !.accepted = @ \cup {x}]
        ELSE [w EXCEPT !.refused = @ \cup {<<x.row, breach>>}]

Walking(f, had, line) ==
    f = [i \in 0 .. Len(line) |->
            IF i = 0 THEN [accepted |-> {}, refused |-> {}]
            ELSE WalkedStep(had, line[i], f[i - 1])]

\* The model's refusals are those of the last step of the walk.
LEMMA WalkedAre ==
    ASSUME NEW had, NEW wanted, NEW line, line = Timeline(wanted)
    PROVE  ShortfallsWalked(had, wanted) = (CHOOSE f : Walking(f, had, line))[Len(line)].refused
  BY DEF ShortfallsWalked, Walking, WalkedStep

\* What a walk over some rows may have accepted and refused.
Judged(had, wanted) ==
    [accepted : SUBSET wanted,
     refused : SUBSET {<<p[1].row, Breach(had \cup p[2] \cup {p[1]})>> : p \in wanted \X SUBSET wanted}]

LEMMA WalkedStepIs ==
    ASSUME NEW had, NEW wanted, NEW x \in wanted, NEW w \in Judged(had, wanted)
    PROVE  WalkedStep(had, x, w) \in Judged(had, wanted)
<1> DEFINE all == {<<p[1].row, Breach(had \cup p[2] \cup {p[1]})>> : p \in wanted \X SUBSET wanted}
           breach == Breach(had \cup w.accepted \cup {x})
<1>1. Judged(had, wanted) = [accepted : SUBSET wanted, refused : SUBSET all]
  BY DEF Judged
<1>2. w = [accepted |-> w.accepted, refused |-> w.refused] /\ w.accepted \in SUBSET wanted /\ w.refused \in SUBSET all
  <2> HIDE DEF all
  <2> QED  BY <1>1
<1>3. <<x.row, breach>> \in all
  <2> DEFINE p == <<x, w.accepted>>
  <2>1. p \in wanted \X SUBSET wanted /\ p[1] = x /\ p[2] = w.accepted
    BY <1>2
  <2> HIDE DEF p
  <2>2. <<p[1].row, Breach(had \cup p[2] \cup {p[1]})>> \in all
    BY <2>1
  <2> HIDE DEF all
  <2> QED  BY <2>1, <2>2
<1>4. WalkedStep(had, x, w) = IF breach = NULL THEN [w EXCEPT !.accepted = @ \cup {x}]
                              ELSE [w EXCEPT !.refused = @ \cup {<<x.row, breach>>}]
  BY DEF WalkedStep
<1> HIDE DEF all, breach
<1>5. WalkedStep(had, x, w) \in [accepted : SUBSET wanted, refused : SUBSET all]
  <2>1. CASE breach = NULL
    <3>1. WalkedStep(had, x, w) = [accepted |-> w.accepted \cup {x}, refused |-> w.refused]
      BY <1>2, <1>4, <2>1
    <3> QED  BY <1>2, <3>1
  <2>2. CASE breach # NULL
    <3>1. WalkedStep(had, x, w) = [accepted |-> w.accepted, refused |-> w.refused \cup {<<x.row, breach>>}]
      BY <1>2, <1>4, <2>2
    <3> QED  BY <1>2, <1>3, <3>1
  <2> QED  BY <2>1, <2>2
<1> QED  BY <1>1, <1>5

\* The walk exists.
WalkOf(f, had, wanted, line, n) ==
    /\ f \in [0 .. n -> Judged(had, wanted)]
    /\ f[0] = [accepted |-> {}, refused |-> {}]
    /\ \A i \in 1 .. n : f[i] = WalkedStep(had, line[i], f[i - 1])
    /\ (CHOOSE h : Walking(h, had, line))[n] = f[n]

LEMMA WalkedIs ==
    ASSUME NEW had, NEW wanted, NEW n \in Nat, NEW line \in [1 .. n -> wanted], Len(line) = n
    PROVE  \E f : WalkOf(f, had, wanted, line, n)
<1> DEFINE V == Judged(had, wanted)
           first == [accepted |-> {}, refused |-> {}]
           G == [p \in (1 .. n) \X V |-> WalkedStep(had, line[p[1]], p[2])]
           f == CHOOSE h : Walking(h, had, line)
<1>1. first \in V
  BY DEF Judged
<1>2. \A i \in 1 .. n, w \in V : WalkedStep(had, line[i], w) \in V
  BY WalkedStepIs
<1> HIDE DEF V, first
<1>3. G \in [(1 .. n) \X V -> V] /\ \A i \in 1 .. n, w \in V : G[<<i, w>>] = WalkedStep(had, line[i], w)
  BY <1>2
<1> HIDE DEF G
<1>4. PICK g : Walks(g, n, V, first, G)
  BY <1>1, <1>3, WalkExists
<1>5. ASSUME NEW h, Walks(h, n, V, first, G)
      PROVE  h \in [0 .. n -> V] /\ h[0] = first /\ \A i \in 1 .. n : h[i] = WalkedStep(had, line[i], h[i - 1])
  <2>1. h \in [0 .. n -> V] /\ h[0] = first /\ \A i \in 1 .. n : h[i] = G[<<i, h[i - 1]>>]
    BY <1>5 DEF Walks
  <2>2. \A i \in 1 .. n : h[i - 1] \in V
    BY <2>1
  <2> QED  BY <1>3, <2>1, <2>2
<1>6. Walking(g, had, line)
  <2>1. g \in [0 .. n -> V] /\ g[0] = first /\ \A i \in 1 .. n : g[i] = WalkedStep(had, line[i], g[i - 1])
    BY <1>4, <1>5
  <2>2. \A i \in 0 .. n : g[i] = IF i = 0 THEN first ELSE WalkedStep(had, line[i], g[i - 1])
    <3>1. \A i \in 0 .. n : i = 0 \/ i \in 1 .. n
      OBVIOUS
    <3> QED  BY <2>1, <3>1
  <2>3. g = [i \in 0 .. n |-> g[i]]
    BY <2>1
  <2> QED  BY <2>2, <2>3 DEF Walking, first
<1>7. Walking(f, had, line)
  BY <1>6
<1> HIDE DEF f
<1>8. f = [i \in 0 .. n |-> IF i = 0 THEN first ELSE WalkedStep(had, line[i], f[i - 1])]
  BY <1>7 DEF Walking, first
<1>9. f[0] = first /\ f = [i \in 0 .. n |-> f[i]] /\ \A i \in 1 .. n : f[i] = WalkedStep(had, line[i], f[i - 1])
  <2>1. 0 \in 0 .. n /\ \A i \in 1 .. n : i \in 0 .. n /\ i # 0
    OBVIOUS
  <2> QED  BY <1>8, <2>1
<1>10. Walks(f, n, V, first, G)
  <2>1. \A i \in 1 .. n : f[i - 1] \in V => f[i] = G[<<i, f[i - 1]>>]
    BY <1>3, <1>9
  <2>2. f = [i \in 0 .. n |-> f[i]] /\ f[0] = first
    BY <1>9
  <2> QED  BY <1>1, <1>3, <2>1, <2>2, WalkTyped
<1>11. f \in [0 .. n -> V] /\ f[0] = first /\ \A i \in 1 .. n : f[i] = WalkedStep(had, line[i], f[i - 1])
  BY <1>5, <1>10
<1> QED  BY <1>11 DEF f, V, first, WalkOf

\* A timeline of trades already recorded and of a file's rows.
Mixed(had, F) == Moments(F) /\ had \subseteq F /\ \A x \in F : x.row = 0 <=> x \in had

\* Rows that have been looked at by a place.
Looked(A, F, had, i) == \A x \in A : x \in F \ had /\ \E h \in 1 .. i : Timeline(F)[h] = x

\* Pass and walk together: they have refused the same, what the pass has is the sum of the
\* recorded trades so far and of the rows accepted, and its breach is the first of those.
Together(F, had, i, v, w) ==
    LET m == SumTo(had \cup w.accepted, F)
    IN  /\ v \in Walked(Timeline(F))
        /\ w = [accepted |-> w.accepted, refused |-> w.refused]
        /\ Looked(w.accepted, F, had, i)
        /\ v.refused = w.refused
        /\ v.units = m[i]
        /\ v.broken = NULL => \A h \in 0 .. i : m[h] >= 0
        /\ v.broken # NULL => \E q \in 1 .. i : FirstShort(m, q) /\ v.broken = ShortAt(m, F, q)

\* A breach that is named is one.
LEMMA ShortAtIs ==
    ASSUME NEW F, Moments(F), NEW E, NEW m, Summing(m, E, F), NEW q \in 1 .. Cardinality(F)
    PROVE  ShortAt(m, F, q) \in Breaches /\ ShortAt(m, F, q) # NULL
<1> DEFINE n == Cardinality(F)
           x == Timeline(F)[q]
<1>1. n \in Nat /\ x \in EntryRows
  BY TimelineIs DEF Lists, Moments
<1>2. q \in 0 .. n /\ q - 1 \in 0 .. n
  BY <1>1
<1>3. m \in [0 .. n -> Int]
  BY DEF Summing
<1> HIDE DEF n, x
<1>4. m[q] \in Int /\ m[q - 1] \in Int
  BY <1>2, <1>3
<1>5. [trade |-> x, balance |-> m[q], before |-> m[q - 1]] \in Breaches
  BY <1>1, <1>4 DEF Breaches
<1>6. ShortAt(m, F, q) \in Breaches
  BY <1>5 DEF ShortAt, x
<1> QED  BY <1>6, ImporterAssumption

\* A recorded trade is only passed.
LEMMA TogetherRecorded ==
    ASSUME NEW F, NEW had, NEW i \in 1 .. Cardinality(F), NEW v, NEW w,
           Mixed(had, F), Together(F, had, i - 1, v, w), Timeline(F)[i].row = 0
    PROVE  Together(F, had, i, PassStep(Timeline(F), i, v), w)
<1> DEFINE n == Cardinality(F)
           line == Timeline(F)
           x == line[i]
           m == SumTo(had \cup w.accepted, F)
           after == v.units + x.change
           here == [trade |-> x, balance |-> after, before |-> v.units]
           step == PassStep(line, i, v)
<1>1. n \in Nat /\ line \in Seq(EntryRows) /\ Len(line) = n /\ line[i] \in F /\ Moments(F)
  BY TimelineIs DEF Lists, Mixed
<1>2. /\ v \in Walked(line)
      /\ w = [accepted |-> w.accepted, refused |-> w.refused]
      /\ \A y \in w.accepted : y \in F \ had /\ \E h \in 1 .. i - 1 : line[h] = y
      /\ v.refused = w.refused
      /\ v.units = m[i - 1]
      /\ v.broken = NULL => \A h \in 0 .. i - 1 : m[h] >= 0
      /\ v.broken # NULL => \E q \in 1 .. i - 1 : FirstShort(m, q) /\ v.broken = ShortAt(m, F, q)
  BY DEF Together, Looked
<1>3. had \cup w.accepted \subseteq F
  BY <1>2 DEF Mixed
<1>4. Summing(m, had \cup w.accepted, F)
  BY <1>1, <1>3, SumToIs
<1>5. m \in [0 .. n -> Int]
      /\ \A q \in 1 .. n : m[q] = m[q - 1] + (IF line[q] \in had \cup w.accepted THEN line[q].change ELSE 0)
  BY <1>4 DEF Summing, Sums
<1>6. x \in had
  BY <1>1 DEF Mixed
<1>7. step = [v EXCEPT !.units = after, !.broken = IF after < 0 /\ @ = NULL THEN here ELSE @]
  BY DEF PassStep
<1>8. step \in Walked(line)
  BY <1>1, <1>2, PassStepIs
<1>9. here \in Breaches => here # NULL
  BY ImporterAssumption
<1>10. i \in 1 .. n /\ i \in 0 .. n /\ i - 1 \in 0 .. n /\ i - 1 \in 0 .. i - 1 /\ i \in 1 .. i
       /\ 1 .. i - 1 \subseteq 1 .. i /\ \A h \in 0 .. i : h = i \/ h \in 0 .. i - 1
  BY <1>1
<1>11. x \in EntryRows /\ v = [units |-> v.units, broken |-> v.broken, refused |-> v.refused]
  BY <1>1, <1>2 DEF Walked, Moments
<1> HIDE DEF n, line, m, step, x
<1>12. m[i] = after /\ m[i] \in Int /\ m[i - 1] \in Int
  <2>1. m[i] = m[i - 1] + x.change
    BY <1>5, <1>6, <1>10 DEF x
  <2> QED  BY <1>2, <1>5, <1>10, <2>1
<1>13. here = ShortAt(m, F, i)
  BY <1>2, <1>12 DEF ShortAt, x, line
<1>14. here # NULL
  BY <1>1, <1>4, <1>10, <1>13, ShortAtIs DEF n
<1> HIDE DEF here, after
<1>15. /\ step.units = m[i] /\ step.refused = w.refused
       /\ step.broken = IF after < 0 /\ v.broken = NULL THEN here ELSE v.broken
  BY <1>2, <1>7, <1>11, <1>12
<1>16. ASSUME step.broken = NULL, NEW h \in 0 .. i PROVE m[h] >= 0
  <2>1. v.broken = NULL /\ ~(after < 0)
    BY <1>14, <1>15, <1>16
  <2> QED  BY <1>2, <1>10, <1>12, <2>1
<1>17. ASSUME step.broken # NULL PROVE \E q \in 1 .. i : FirstShort(m, q) /\ step.broken = ShortAt(m, F, q)
  <2>1. CASE v.broken # NULL
    <3>1. step.broken = v.broken
      BY <1>15, <2>1
    <3> QED  BY <1>2, <1>10, <2>1, <3>1
  <2>2. CASE v.broken = NULL
    <3>1. after < 0 /\ step.broken = here
      BY <1>15, <1>17, <2>2
    <3>2. FirstShort(m, i)
      BY <1>2, <1>12, <2>2, <3>1 DEF FirstShort
    <3> QED  BY <1>10, <1>13, <3>1, <3>2
  <2> QED  BY <2>1, <2>2
<1>18. \A y \in w.accepted : y \in F \ had /\ \E h \in 1 .. i : line[h] = y
  BY <1>2, <1>10
<1> QED  BY <1>2, <1>8, <1>15, <1>16, <1>17, <1>18 DEF Together, Looked, line, m, step

\* A row of the file that has not been looked at is not counted yet, and after it only the
\* recorded trades are: so the sums with it are known from what the recorded trades come to.
LEMMA RowSums ==
    ASSUME NEW F, NEW had, NEW i \in 1 .. Cardinality(F), NEW A, NEW m, NEW s,
           Mixed(had, F), Looked(A, F, had, i - 1), Timeline(F)[i].row # 0,
           Summing(m, had \cup A, F), Summing(s, had \cup A \cup {Timeline(F)[i]}, F)
    PROVE  /\ m[i] = m[i - 1] /\ s[i] = m[i - 1] + Timeline(F)[i].change
           /\ \A h \in 0 .. i - 1 : s[h] = m[h]
           /\ Recording(s, Timeline(F), i)
<1> DEFINE n == Cardinality(F)
           line == Timeline(F)
           x == line[i]
           E == had \cup A
           D == had \cup A \cup {x}
<1>1. n \in Nat /\ line \in Seq(EntryRows) /\ Len(line) = n /\ Moments(F) /\ Lists(line, F)
      /\ \A h \in 1 .. n : line[h] \in F
  BY TimelineIs DEF Lists, Mixed
<1>2. \A h \in 1 .. n, k \in 1 .. n : line[h] = line[k] => h = k
  BY <1>1, ListOrder DEF n
<1>3. \A h \in 1 .. n : line[h].row = 0 <=> line[h] \in had
  BY <1>1 DEF Mixed
<1>4. i \in 1 .. n /\ i - 1 \in 0 .. n /\ i \in Int /\ \A h \in 1 .. i - 1 : h \in 1 .. n /\ h # i
  BY <1>1
<1>5. /\ m \in [0 .. n -> Int] /\ s \in [0 .. n -> Int]
      /\ \A q \in 1 .. n : m[q] = m[q - 1] + (IF line[q] \in E THEN line[q].change ELSE 0)
      /\ \A q \in 1 .. n : s[q] = s[q - 1] + (IF line[q] \in D THEN line[q].change ELSE 0)
  BY DEF Summing, Sums
<1>6. /\ \A y \in A : y \notin had /\ \E h \in 1 .. i - 1 : line[h] = y
      /\ x.row # 0 /\ Summing(m, E, F) /\ Summing(s, D, F)
  BY DEF Looked
<1> HIDE DEF n, line
<1>7. x \notin E
  BY <1>2, <1>3, <1>4, <1>6
<1>8. m[i] = m[i - 1]
  <2>1. m[i] = m[i - 1] + 0 /\ m[i - 1] \in Int
    BY <1>4, <1>5, <1>7
  <2> QED  BY <2>1
<1>9. \A h \in 0 .. i - 1 : s[h] = m[h]
  <2>1. \A h \in 1 .. i - 1 : line[h] \in E <=> line[h] \in D
    BY <1>2, <1>4
  <2> DEFINE k == i - 1
  <2>2. /\ k \in 0 .. Cardinality(F) /\ Cardinality(F) \in Nat
        /\ \A h \in 1 .. k : Timeline(F)[h] \in E <=> Timeline(F)[h] \in D
    BY <1>1, <1>4, <2>1 DEF n, line
  <2> HIDE DEF E, D, x, k
  <2>3. \A h \in 0 .. k : m[h] = s[h]
    BY <1>6, <2>2, SumsAlike
  <2> QED  BY <2>3 DEF k
<1>10. s[i] = m[i - 1] + x.change
  <2>1. x \in D /\ s[i - 1] = m[i - 1]
    BY <1>4, <1>9
  <2> QED  BY <1>4, <1>5, <2>1
<1>11. ASSUME NEW h \in i + 1 .. n
       PROVE  s[h] = s[h - 1] + (IF line[h].row = 0 THEN line[h].change ELSE 0)
  <2>1. h \in 1 .. n /\ h # i /\ ~(h \in 1 .. i - 1)
    BY <1>4
  <2>2. line[h] # x /\ line[h] \notin A
    BY <1>2, <1>4, <1>6, <2>1
  <2>3. line[h] \in D <=> line[h].row = 0
    BY <1>3, <2>1, <2>2
  <2> QED  BY <1>5, <2>1, <2>3
<1>12. Recording(s, line, i)
  BY <1>1, <1>5, <1>11 DEF Recording
<1> QED  BY <1>8, <1>9, <1>10, <1>12 DEF n, line

\* The sums without a row and with it.
RowSummed(m, s, F, i) ==
    /\ m[i] = m[i - 1] /\ s[i] = m[i - 1] + Timeline(F)[i].change
    /\ \A h \in 0 .. i - 1 : s[h] = m[h]
    /\ Recording(s, Timeline(F), i)

LEMMA RowSumsAre ==
    ASSUME NEW F, NEW had, NEW i \in 1 .. Cardinality(F), NEW A,
           Mixed(had, F), Looked(A, F, had, i - 1), Timeline(F)[i].row # 0
    PROVE  /\ had \cup A \cup {Timeline(F)[i]} \subseteq F
           /\ Summing(SumTo(had \cup A, F), had \cup A, F)
           /\ Summing(SumTo(had \cup A \cup {Timeline(F)[i]}, F), had \cup A \cup {Timeline(F)[i]}, F)
           /\ RowSummed(SumTo(had \cup A, F), SumTo(had \cup A \cup {Timeline(F)[i]}, F), F, i)
<1> DEFINE E == had \cup A
           D == had \cup A \cup {Timeline(F)[i]}
           m == SumTo(E, F)
           s == SumTo(D, F)
<1>1. Moments(F) /\ Timeline(F)[i] \in F
  BY TimelineIs DEF Lists, Mixed
<1>2. E \subseteq F /\ D \subseteq F
  BY <1>1 DEF Mixed, Looked
<1>3. Summing(m, E, F) /\ Summing(s, D, F)
  <2> HIDE DEF E, D
  <2> QED  BY <1>1, <1>2, SumToIs
<1> HIDE DEF m, s
<1>4. /\ m[i] = m[i - 1] /\ s[i] = m[i - 1] + Timeline(F)[i].change
      /\ \A h \in 0 .. i - 1 : s[h] = m[h]
      /\ Recording(s, Timeline(F), i)
  BY <1>3, RowSums
<1>5. RowSummed(m, s, F, i)
  BY <1>4 DEF RowSummed
<1> QED  BY <1>2, <1>3, <1>5 DEF m, s

\* What the pass names for a row that a later trade needs: where the sums are first below nothing.
LEMMA LaterIs ==
    ASSUME NEW F, NEW i \in 1 .. Cardinality(F), NEW s, NEW there \in i + 1 .. Cardinality(F),
           Moments(F), Recording(s, Timeline(F), i), s[there] < 0, \A h \in i .. there - 1 : s[h] >= 0
    PROVE  LaterBreach(Timeline(F), i, s[i]) = ShortAt(s, F, there)
<1> DEFINE n == Cardinality(F)
           line == Timeline(F)
           rec == RecordedTotals(line)
           limit == rec[i] - s[i]
           first == i + 1
<1>1. n \in Nat /\ line \in Seq(EntryRows) /\ Len(line) = n
  BY TimelineIs DEF Lists
<1>2. rec \in [1 .. n -> Int] /\ Len(rec) = n
  BY <1>1, RecordedTotalsAre
<1>3. \A h \in i .. n : s[h] = s[i] + rec[h] - rec[i]
  <2>1. i \in 1 .. Len(line) /\ Recording(s, line, i)
    BY <1>1
  <2> HIDE DEF n, line
  <2>2. \A h \in i .. Len(line) : s[h] = s[i] + RecordedTotals(line)[h] - RecordedTotals(line)[i]
    BY <1>1, <2>1, RecordedFrom
  <2> QED  BY <1>1, <2>2
<1>4. s \in [0 .. n -> Int]
      /\ \A h \in i + 1 .. n : s[h] = s[h - 1] + (IF line[h].row = 0 THEN line[h].change ELSE 0)
  BY <1>1 DEF Recording
<1>5. i \in 1 .. n /\ there \in i + 1 .. n /\ s[there] < 0 /\ \A h \in i .. there - 1 : s[h] >= 0
  OBVIOUS
<1>6. \A h \in 1 .. n : line[h].change \in Int
  <2>1. \A h \in 1 .. n : line[h] \in EntryRows
    BY <1>1
  <2> HIDE DEF line, n
  <2> QED  BY <2>1 DEF EntryRows
<1>7. LaterBreach(line, i, s[i]) =
         LET k == FirstBelow(rec, first, limit)
             spare == s[i] + rec[k] - rec[i]
         IN  [trade |-> line[k], balance |-> spare, before |-> spare - line[k].change]
  BY DEF LaterBreach
<1> HIDE DEF n, line, rec
<1>8. /\ first \in 1 .. n /\ i \in 0 .. n /\ i \in i .. n /\ i \in i .. there - 1
      /\ there \in first .. n /\ there \in 1 .. n /\ there \in 0 .. n /\ there \in i .. n
      /\ there - 1 \in 0 .. n /\ there - 1 \in i .. there - 1
      /\ \A j \in first .. there - 1 : j \in 1 .. n /\ j \in 0 .. n /\ j \in i .. n /\ j \in i .. there - 1
  BY <1>1, <1>5
<1>9. s[i] \in Int /\ rec[i] \in Int /\ limit \in Int
  BY <1>2, <1>4, <1>5, <1>8
<1>10. rec[there] < limit
  <2>1. s[there] = s[i] + rec[there] - rec[i] /\ s[there] < 0 /\ s[there] \in Int /\ rec[there] \in Int
    BY <1>2, <1>3, <1>4, <1>5, <1>8
  <2>2. s[i] \in Int /\ rec[i] \in Int
    BY <1>9
  <2> QED  BY <2>1, <2>2
<1>11. ASSUME NEW j \in first .. there - 1 PROVE rec[j] >= limit
  <2>1. j \in 1 .. n /\ j \in 0 .. n /\ j \in i .. n /\ j \in i .. there - 1
    BY <1>8
  <2>2. s[j] = s[i] + rec[j] - rec[i] /\ s[j] >= 0 /\ rec[j] \in Int
    BY <1>2, <1>3, <1>5, <2>1
  <2> QED  BY <1>9, <2>2
<1> HIDE DEF limit, first
<1>12. FirstBelow(rec, first, limit) = there
  BY <1>1, <1>2, <1>8, <1>9, <1>10, <1>11, FirstBelowIs
<1>13. s[there] = s[i] + rec[there] - rec[i]
  BY <1>3, <1>8
<1>14. s[there] - line[there].change = s[there - 1]
  <2>1. s[there] = s[there - 1] + (IF line[there].row = 0 THEN line[there].change ELSE 0)
    BY <1>4, <1>5
  <2>2. s[there] \in Int /\ s[there - 1] \in Int /\ s[there - 1] >= 0 /\ line[there].change \in Int
    BY <1>4, <1>5, <1>6, <1>8
  <2>3. line[there].row = 0
    <3>1. line[there].row # 0 => s[there] = s[there - 1] + 0
      BY <2>1
    <3> QED  BY <1>5, <2>2, <3>1
  <2>4. s[there] = s[there - 1] + line[there].change
    BY <2>1, <2>3
  <2> QED  BY <2>2, <2>4
<1>15. LaterBreach(line, i, s[i]) = [trade |-> line[there], balance |-> s[there], before |-> s[there - 1]]
  BY <1>7, <1>12, <1>13, <1>14
<1> QED  BY <1>15 DEF ShortAt, line

\* A row refused by both, for the same breach.
LEMMA TogetherRefused ==
    ASSUME NEW F, NEW had, NEW i \in 1 .. Cardinality(F), NEW v, NEW w, NEW b,
           Mixed(had, F), Together(F, had, i - 1, v, w), Timeline(F)[i].row # 0, b # NULL,
           Breach(had \cup w.accepted \cup {Timeline(F)[i]}) = b,
           PassStep(Timeline(F), i, v) = [v EXCEPT !.refused = @ \cup {<<Timeline(F)[i].row, b>>}]
    PROVE  Together(F, had, i, PassStep(Timeline(F), i, v), WalkedStep(had, Timeline(F)[i], w))
<1> DEFINE n == Cardinality(F)
           line == Timeline(F)
           x == line[i]
           m == SumTo(had \cup w.accepted, F)
           s == SumTo(had \cup w.accepted \cup {x}, F)
           step == PassStep(line, i, v)
           turn == WalkedStep(had, x, w)
           said == <<x.row, b>>
<1>1. n \in Nat /\ line \in Seq(EntryRows) /\ Len(line) = n /\ x \in F /\ Moments(F)
  BY TimelineIs DEF Lists, Mixed
<1>2. /\ v \in Walked(line)
      /\ w = [accepted |-> w.accepted, refused |-> w.refused]
      /\ \A y \in w.accepted : y \in F \ had /\ \E h \in 1 .. i - 1 : line[h] = y
      /\ v.refused = w.refused
      /\ v.units = m[i - 1]
      /\ v.broken = NULL => \A h \in 0 .. i - 1 : m[h] >= 0
      /\ v.broken # NULL => \E q \in 1 .. i - 1 : FirstShort(m, q) /\ v.broken = ShortAt(m, F, q)
  BY DEF Together, Looked
<1>3. Looked(w.accepted, F, had, i - 1)
  BY DEF Together
<1>4. RowSummed(m, s, F, i)
  <2> DEFINE A == w.accepted
  <2>1. Looked(A, F, had, i - 1)
    BY <1>3
  <2> HIDE DEF A
  <2>2. RowSummed(SumTo(had \cup A, F), SumTo(had \cup A \cup {Timeline(F)[i]}, F), F, i)
    BY <2>1, RowSumsAre
  <2> QED  BY <2>2 DEF A
<1>5. m[i] = m[i - 1]
  BY <1>4 DEF RowSummed
<1>6. turn = [w EXCEPT !.refused = @ \cup {said}]
  BY DEF WalkedStep
<1>7. step = [v EXCEPT !.refused = @ \cup {said}] /\ step \in Walked(line)
  BY <1>1, <1>2, PassStepIs
<1>8. v = [units |-> v.units, broken |-> v.broken, refused |-> v.refused]
  BY <1>2 DEF Walked
<1>9. i \in Int /\ i >= 1 /\ 1 .. i - 1 \subseteq 1 .. i /\ i - 1 \in 0 .. i - 1 /\ \A h \in 0 .. i : h = i \/ h \in 0 .. i - 1
  BY <1>1
<1> HIDE DEF n, line, x, m, s, step, turn, said
<1>10. turn.accepted = w.accepted /\ turn.refused = w.refused \cup {said}
       /\ turn = [accepted |-> turn.accepted, refused |-> turn.refused]
  BY <1>2, <1>6
<1>11. step.units = v.units /\ step.broken = v.broken /\ step.refused = v.refused \cup {said}
  BY <1>7, <1>8
<1>12. m = SumTo(had \cup turn.accepted, F)
  BY <1>10 DEF m
<1>13. ASSUME step.broken = NULL, NEW h \in 0 .. i PROVE m[h] >= 0
  BY <1>2, <1>5, <1>9, <1>11, <1>13
<1>14. ASSUME step.broken # NULL PROVE \E q \in 1 .. i : FirstShort(m, q) /\ step.broken = ShortAt(m, F, q)
  BY <1>2, <1>9, <1>11, <1>14
<1>15. \A y \in turn.accepted : y \in F \ had /\ \E h \in 1 .. i : line[h] = y
  BY <1>2, <1>9, <1>10
<1>16. step.refused = turn.refused /\ step.units = m[i]
  BY <1>2, <1>5, <1>10, <1>11
<1>17. Together(F, had, i, step, turn)
  BY <1>7, <1>10, <1>12, <1>13, <1>14, <1>15, <1>16 DEF Together, Looked, line
<1> QED  BY <1>17 DEF step, turn, line, x

\* A row taken by both.
LEMMA TogetherTaken ==
    ASSUME NEW F, NEW had, NEW i \in 1 .. Cardinality(F), NEW v, NEW w,
           Mixed(had, F), Together(F, had, i - 1, v, w), Timeline(F)[i].row # 0,
           Breach(had \cup w.accepted \cup {Timeline(F)[i]}) = NULL, v.broken = NULL,
           v.units + Timeline(F)[i].change >= 0,
           PassStep(Timeline(F), i, v) = [v EXCEPT !.units = v.units + Timeline(F)[i].change]
    PROVE  Together(F, had, i, PassStep(Timeline(F), i, v), WalkedStep(had, Timeline(F)[i], w))
<1> DEFINE n == Cardinality(F)
           line == Timeline(F)
           x == line[i]
           m == SumTo(had \cup w.accepted, F)
           s == SumTo(had \cup w.accepted \cup {x}, F)
           after == v.units + x.change
           step == PassStep(line, i, v)
           turn == WalkedStep(had, x, w)
<1>1. n \in Nat /\ line \in Seq(EntryRows) /\ Len(line) = n /\ x \in F /\ Moments(F)
  BY TimelineIs DEF Lists, Mixed
<1>2. /\ v \in Walked(line)
      /\ w = [accepted |-> w.accepted, refused |-> w.refused]
      /\ \A y \in w.accepted : y \in F \ had /\ \E h \in 1 .. i - 1 : line[h] = y
      /\ v.refused = w.refused
      /\ v.units = m[i - 1]
      /\ v.broken = NULL => \A h \in 0 .. i - 1 : m[h] >= 0
  BY DEF Together, Looked
<1>3. Looked(w.accepted, F, had, i - 1)
  BY DEF Together
<1>4. RowSummed(m, s, F, i)
  <2> DEFINE A == w.accepted
  <2>1. Looked(A, F, had, i - 1)
    BY <1>3
  <2> HIDE DEF A
  <2>2. RowSummed(SumTo(had \cup A, F), SumTo(had \cup A \cup {Timeline(F)[i]}, F), F, i)
    BY <2>1, RowSumsAre
  <2> QED  BY <2>2 DEF A
<1>5. s[i] = m[i - 1] + x.change /\ \A h \in 0 .. i - 1 : s[h] = m[h]
  BY <1>4 DEF RowSummed
<1>6. turn = [w EXCEPT !.accepted = @ \cup {x}]
  BY DEF WalkedStep
<1>7. step = [v EXCEPT !.units = after] /\ step \in Walked(line)
  BY <1>1, <1>2, PassStepIs
<1>8. v = [units |-> v.units, broken |-> v.broken, refused |-> v.refused]
  BY <1>2 DEF Walked
<1>9. i \in 1 .. i /\ 1 .. i - 1 \subseteq 1 .. i /\ \A h \in 0 .. i : h = i \/ h \in 0 .. i - 1
  BY <1>1
<1>10. x \notin had /\ after >= 0 /\ v.broken = NULL
  BY <1>1 DEF Mixed
<1>11. after = s[i]
  BY <1>2, <1>5
<1> HIDE DEF n, line, x, m, s, step, turn, after
<1>12. turn.accepted = w.accepted \cup {x} /\ turn.refused = w.refused
       /\ turn = [accepted |-> turn.accepted, refused |-> turn.refused]
  BY <1>2, <1>6
<1>13. step.units = after /\ step.broken = NULL /\ step.refused = v.refused
  BY <1>7, <1>8, <1>10
<1>14. s = SumTo(had \cup turn.accepted, F)
  <2>1. had \cup turn.accepted = had \cup w.accepted \cup {x}
    BY <1>12
  <2> QED  BY <2>1 DEF s
<1>15. \A h \in 0 .. i : s[h] >= 0
  BY <1>2, <1>5, <1>9, <1>10, <1>11
<1>16. \A y \in turn.accepted : y \in F \ had /\ \E h \in 1 .. i : line[h] = y
  <2>1. line[i] = x
    BY DEF x
  <2> QED  BY <1>1, <1>2, <1>9, <1>10, <1>12, <2>1
<1>17. step.refused = turn.refused /\ step.units = s[i]
  BY <1>2, <1>11, <1>12, <1>13
<1>18. Together(F, had, i, step, turn)
  BY <1>7, <1>12, <1>13, <1>14, <1>15, <1>16, <1>17 DEF Together, Looked, line
<1> QED  BY <1>18 DEF step, turn, line, x

\* A row of the file: both take it, or both refuse it for the same breach.
LEMMA TogetherRow ==
    ASSUME NEW F, NEW had, NEW i \in 1 .. Cardinality(F), NEW v, NEW w,
           Mixed(had, F), Together(F, had, i - 1, v, w), Timeline(F)[i].row # 0
    PROVE  Together(F, had, i, PassStep(Timeline(F), i, v), WalkedStep(had, Timeline(F)[i], w))
<1> DEFINE n == Cardinality(F)
           line == Timeline(F)
           x == line[i]
           row == x.row
           m == SumTo(had \cup w.accepted, F)
           D == had \cup w.accepted \cup {x}
           s == SumTo(D, F)
           after == v.units + x.change
           need == NeedOf(line)[i + 1]
           step == PassStep(line, i, v)
           here == [trade |-> x, balance |-> after, before |-> v.units]
           later == LaterBreach(line, i, after)
           goal == Together(F, had, i, PassStep(Timeline(F), i, v), WalkedStep(had, Timeline(F)[i], w))
<1>1. n \in Nat /\ line \in Seq(EntryRows) /\ Len(line) = n /\ Moments(F) /\ i \in 1 .. n
  BY TimelineIs DEF Lists, Mixed
<1>2. /\ v \in Walked(line) /\ v.units = m[i - 1]
      /\ v.broken = NULL => \A h \in 0 .. i - 1 : m[h] >= 0
      /\ v.broken # NULL => \E q \in 1 .. i - 1 : FirstShort(m, q) /\ v.broken = ShortAt(m, F, q)
  BY DEF Together
<1>3. D \subseteq F /\ Summing(s, D, F) /\ RowSummed(m, s, F, i)
  <2> DEFINE A == w.accepted
  <2>1. Looked(A, F, had, i - 1)
    BY DEF Together
  <2> HIDE DEF A
  <2>2. /\ had \cup A \cup {Timeline(F)[i]} \subseteq F
        /\ Summing(SumTo(had \cup A \cup {Timeline(F)[i]}, F), had \cup A \cup {Timeline(F)[i]}, F)
        /\ RowSummed(SumTo(had \cup A, F), SumTo(had \cup A \cup {Timeline(F)[i]}, F), F, i)
    BY <2>1, RowSumsAre
  <2> QED  BY <2>2 DEF A
<1>4. s[i] = after /\ (\A h \in 0 .. i - 1 : s[h] = m[h]) /\ Recording(s, line, i)
  BY <1>2, <1>3 DEF RowSummed
<1>5. need \in Nat
  <2>1. i + 1 \in 1 .. Len(line) + 1
    BY <1>1
  <2> HIDE DEF line, n
  <2> QED  BY <1>1, <2>1, NeedIs
<1>6. s \in [0 .. n -> Int]
  BY <1>3 DEF Summing
<1>7. (\A q \in 1 .. n : FirstShort(s, q) => Breach(D) = ShortAt(s, F, q))
      /\ ((\A q \in 0 .. n : s[q] >= 0) => Breach(D) = NULL)
  <2> HIDE DEF D, s
  <2> QED  BY <1>1, <1>3, BreachAlong
<1>8. \A q \in 1 .. n : ShortAt(s, F, q) # NULL
  <2> HIDE DEF D, s
  <2> QED  BY <1>1, <1>3, ShortAtIs
<1>9. row # 0
  OBVIOUS
<1>10. \A b : b # NULL /\ Breach(D) = b /\ step = [v EXCEPT !.refused = @ \cup {<<row, b>>}] => goal
  BY TogetherRefused
<1>11. Breach(D) = NULL /\ v.broken = NULL /\ after >= 0 /\ step = [v EXCEPT !.units = after] => goal
  BY TogetherTaken
<1>12. v.broken # NULL => step = [v EXCEPT !.refused = @ \cup {<<row, v.broken>>}]
  BY <1>9 DEF PassStep
<1>13. v.broken = NULL /\ after < 0 => step = [v EXCEPT !.refused = @ \cup {<<row, here>>}]
  BY <1>9 DEF PassStep
<1>14. v.broken = NULL /\ ~(after < 0) /\ after \in 0 .. need - 1
         => step = [v EXCEPT !.refused = @ \cup {<<row, later>>}]
  BY <1>9 DEF PassStep
<1>15. v.broken = NULL /\ ~(after < 0) /\ ~(after \in 0 .. need - 1) => step = [v EXCEPT !.units = after]
  BY <1>9 DEF PassStep
<1>16. after >= need <=> \A h \in i .. n : s[h] >= 0
  <2>1. i \in 0 .. Len(line) /\ Recording(s, line, i)
    BY <1>1, <1>4
  <2> HIDE DEF line, s, n, after
  <2>2. s[i] >= NeedOf(line)[i + 1] <=> \A h \in i .. Len(line) : s[h] >= 0
    BY <1>1, <2>1, NeedTells
  <2> QED  BY <1>1, <1>4, <2>2
<1>17. \A q \in i + 1 .. n : s[q] < 0 /\ (\A h \in i .. q - 1 : s[h] >= 0) => later = ShortAt(s, F, q)
  <2>1. Recording(s, Timeline(F), i) /\ s[i] = after
    BY <1>4
  <2> HIDE DEF s, after
  <2>2. \A q \in i + 1 .. n : s[q] < 0 /\ (\A h \in i .. q - 1 : s[h] >= 0)
           => LaterBreach(Timeline(F), i, s[i]) = ShortAt(s, F, q)
    BY <1>1, <2>1, LaterIs
  <2> QED  BY <2>1, <2>2
<1>18. /\ i \in 0 .. n /\ i - 1 \in 0 .. n /\ i - 1 \in 0 .. i - 1 /\ i \in Int
       /\ \A q \in 1 .. i - 1 : q \in 1 .. n /\ q \in 0 .. i - 1 /\ 0 .. q - 1 \subseteq 0 .. i - 1 /\ q - 1 \in 0 .. i - 1
  BY <1>1
<1>19. after \in Int
  BY <1>4, <1>6, <1>18
<1>20. here = ShortAt(s, F, i)
  <2>1. v.units = s[i - 1]
    BY <1>2, <1>4, <1>18
  <2> QED  BY <1>4, <2>1 DEF ShortAt
<1> HIDE DEF n, line, x, row, m, D, s, after, need, step, here, later, goal
<1>21. CASE v.broken # NULL
  <2>1. PICK q \in 1 .. i - 1 : FirstShort(m, q) /\ v.broken = ShortAt(m, F, q)
    BY <1>2, <1>21
  <2>2. q \in 1 .. n /\ q \in 0 .. i - 1 /\ 0 .. q - 1 \subseteq 0 .. i - 1 /\ q - 1 \in 0 .. i - 1
    BY <1>18
  <2>3. s[q] = m[q] /\ s[q - 1] = m[q - 1] /\ \A h \in 0 .. q - 1 : s[h] = m[h]
    BY <1>4, <2>2
  <2>4. FirstShort(s, q) /\ v.broken = ShortAt(s, F, q)
    BY <2>1, <2>3 DEF FirstShort, ShortAt
  <2>5. Breach(D) = v.broken
    BY <1>7, <2>2, <2>4
  <2> QED  BY <1>10, <1>12, <1>21, <2>5 DEF goal
<1>22. ASSUME v.broken = NULL PROVE \A h \in 0 .. i - 1 : s[h] >= 0
  BY <1>2, <1>4, <1>22
<1>23. CASE v.broken = NULL /\ after < 0
  <2>1. FirstShort(s, i)
    BY <1>4, <1>22, <1>23 DEF FirstShort
  <2>2. Breach(D) = here /\ here # NULL
    BY <1>1, <1>7, <1>8, <1>20, <2>1
  <2> QED  BY <1>10, <1>13, <1>23, <2>2 DEF goal
<1>24. CASE v.broken = NULL /\ ~(after < 0) /\ after \in 0 .. need - 1
  <2> DEFINE low == {h \in i .. n : s[h] < 0}
  <2>1. low # {} /\ low \in SUBSET Nat
    <3>1. ~(after >= need)
      BY <1>5, <1>19, <1>24
    <3>2. PICK h \in i .. n : ~(s[h] >= 0)
      BY <1>16, <3>1
    <3>3. s[h] \in Int /\ \A j \in i .. n : j \in Nat
      BY <1>1, <1>6, <1>18, <3>2
    <3> QED  BY <3>2, <3>3
  <2>2. PICK q \in low : \A h \in low : q <= h
    BY <2>1, LeastNat
  <2>3. q \in i .. n /\ s[q] < 0 /\ q # i /\ q \in Int
    BY <1>4, <1>18, <1>19, <1>24
  <2>4. q \in i + 1 .. n /\ q \in 1 .. n
    BY <1>1, <1>18, <2>3
  <2>5. ASSUME NEW h \in i .. q - 1 PROVE s[h] >= 0
    <3>1. h \in i .. n /\ h \in 0 .. n /\ h < q
      BY <1>1, <1>18, <2>4
    <3>2. h \notin low /\ s[h] \in Int
      BY <1>6, <2>2, <2>3, <3>1
    <3> QED  BY <3>1, <3>2
  <2> HIDE DEF low
  <2>6. \A h \in 0 .. q - 1 : h \in 0 .. i - 1 \/ h \in i .. q - 1
    BY <1>18, <2>4
  <2>7. FirstShort(s, q)
    BY <1>22, <1>24, <2>3, <2>5, <2>6 DEF FirstShort
  <2>8. later = ShortAt(s, F, q)
    BY <1>17, <2>3, <2>4, <2>5
  <2>9. Breach(D) = later /\ later # NULL
    BY <1>7, <1>8, <2>4, <2>7, <2>8
  <2> QED  BY <1>10, <1>14, <1>24, <2>9 DEF goal
<1>25. CASE v.broken = NULL /\ ~(after < 0) /\ ~(after \in 0 .. need - 1)
  <2>1. after >= need /\ after >= 0
    BY <1>5, <1>19, <1>25
  <2>2. \A h \in i .. n : s[h] >= 0
    BY <1>16, <2>1
  <2>3. \A h \in 0 .. n : h \in 0 .. i - 1 \/ h \in i .. n
    BY <1>18
  <2>4. Breach(D) = NULL
    BY <1>7, <1>22, <1>25, <2>2, <2>3
  <2> QED  BY <1>11, <1>15, <1>25, <2>1, <2>4 DEF goal
<1> QED  BY <1>21, <1>23, <1>24, <1>25 DEF goal

\* The single pass refuses what the walk row by row refuses, for the same breaches.
LEMMA PassAgrees ==
    ASSUME NEW had, NEW wanted, Moments(had \cup wanted),
           \A x \in had : x.row = 0, \A x \in wanted : x.row # 0
    PROVE  Shortfalls(had, wanted) = ShortfallsWalked(had, wanted)
<1> DEFINE F == had \cup wanted
           n == Cardinality(F)
           e == Cardinality(wanted)
           line == Timeline(F)
           own == Timeline(wanted)
<1>1. n \in Nat /\ line \in Seq(EntryRows) /\ Len(line) = n /\ Moments(F) /\ \A i \in 1 .. n : line[i] \in F
  BY TimelineIs DEF Lists
<1>2. wanted \subseteq F /\ Moments(wanted)
  <2>1. wanted \subseteq F
    OBVIOUS
  <2> HIDE DEF F
  <2> QED  BY <1>1, <2>1, PartMoments
<1>3. e \in Nat /\ own \in [1 .. e -> wanted] /\ Len(own) = e
  BY <1>2, TimelineIs DEF Lists
<1>4. Mixed(had, F) /\ had \subseteq F
  BY DEF Mixed
<1>5. PICK f \in [0 .. n -> Walked(line)] :
         /\ f[0].units = 0 /\ f[0].broken = NULL /\ f[0].refused = {}
         /\ \A i \in 1 .. n : f[i] = PassStep(line, i, f[i - 1])
         /\ (CHOOSE h : Passing(h, line))[n] = f[n]
  <2>1. \E f \in [0 .. Len(line) -> Walked(line)] :
           /\ f[0].units = 0 /\ f[0].broken = NULL /\ f[0].refused = {}
           /\ \A i \in 1 .. Len(line) : f[i] = PassStep(line, i, f[i - 1])
           /\ (CHOOSE h : Passing(h, line))[Len(line)] = f[Len(line)]
    BY <1>1, PassIs
  <2> HIDE DEF line, n
  <2> QED  BY <1>1, <2>1
<1>6. PICK g : /\ g \in [0 .. e -> Judged(had, wanted)]
               /\ g[0] = [accepted |-> {}, refused |-> {}]
               /\ \A i \in 1 .. e : g[i] = WalkedStep(had, own[i], g[i - 1])
               /\ (CHOOSE h : Walking(h, had, own))[e] = g[e]
  <2>1. e \in Nat /\ own \in [1 .. e -> wanted] /\ Len(own) = e
    BY <1>3
  <2> HIDE DEF own, e
  <2>2. \E h : WalkOf(h, had, wanted, own, e)
    BY <2>1, WalkedIs
  <2> QED  BY <2>2 DEF WalkOf
<1>7. Shortfalls(had, wanted) = f[n].refused
  <2>1. Shortfalls(had, wanted) = (CHOOSE h : Passing(h, line))[Len(line)].refused
    BY ShortfallsAre
  <2> HIDE DEF line, n
  <2> QED  BY <1>1, <1>5, <2>1
<1>8. ShortfallsWalked(had, wanted) = g[e].refused
  <2>1. ShortfallsWalked(had, wanted) = (CHOOSE h : Walking(h, had, own))[Len(own)].refused
    BY WalkedAre
  <2> HIDE DEF own, e
  <2> QED  BY <1>3, <1>6, <2>1
<1>9. PICK c : Counts(c, wanted, F)
  <2> HIDE DEF F
  <2> QED  BY <1>1, <1>2, CountExists
<1>10. /\ c \in [0 .. n -> 0 .. e] /\ c[0] = 0 /\ c[n] = e
       /\ \A q \in 1 .. n : /\ line[q] \notin wanted => c[q] = c[q - 1]
                            /\ line[q] \in wanted => c[q] = c[q - 1] + 1 /\ own[c[q]] = line[q]
  BY <1>9 DEF Counts
<1>11. \A i \in 1 .. n : line[i].row # 0 <=> line[i] \in wanted
  BY <1>1
<1>12. ASSUME NEW i \in 1 .. n, NEW v, NEW w, Together(F, had, i - 1, v, w), line[i].row = 0
       PROVE  Together(F, had, i, PassStep(line, i, v), w)
  <2> HIDE DEF F
  <2> QED  BY <1>4, <1>12, TogetherRecorded
<1>13. ASSUME NEW i \in 1 .. n, NEW v, NEW w, Together(F, had, i - 1, v, w), line[i].row # 0
       PROVE  Together(F, had, i, PassStep(line, i, v), WalkedStep(had, line[i], w))
  <2> HIDE DEF F
  <2> QED  BY <1>4, <1>13, TogetherRow
<1>14. Together(F, had, 0, f[0], g[0])
  <2> DEFINE m == SumTo(had \cup g[0].accepted, F)
  <2>1. g[0].accepted = {} /\ g[0].refused = {}
    BY <1>6
  <2>2. had \cup g[0].accepted = had
    BY <2>1
  <2> HIDE DEF F
  <2>3. Summing(SumTo(had, F), had, F)
    BY <1>1, <1>4, SumToIs
  <2>4. m[0] = 0
    BY <2>2, <2>3 DEF Summing, Sums
  <2> HIDE DEF m
  <2>5. \A h \in 0 .. 0 : m[h] >= 0
    BY <2>4
  <2>6. f[0] \in Walked(Timeline(F)) /\ g[0] = [accepted |-> g[0].accepted, refused |-> g[0].refused]
    BY <1>1, <1>5, <1>6
  <2>7. Looked(g[0].accepted, F, had, 0)
    BY <2>1 DEF Looked
  <2> HIDE DEF line, n
  <2> QED  BY <1>5, <2>1, <2>4, <2>5, <2>6, <2>7 DEF Together, m
<1> HIDE DEF F, n, e, line, own
<1> DEFINE D == {i \in 0 .. n : Together(F, had, i, f[i], g[c[i]])}
<1>15. 0 \in D
  BY <1>1, <1>10, <1>14
<1>16. ASSUME NEW k \in 0 .. n - 1, k \in D PROVE k + 1 \in D
  <2> DEFINE q == k + 1
  <2>1. q \in 1 .. n /\ q \in 0 .. n /\ q - 1 = k /\ k \in 0 .. n
    BY <1>1
  <2>2. Together(F, had, q - 1, f[k], g[c[k]])
    BY <1>16, <2>1
  <2> HIDE DEF q
  <2>3. f[q] = PassStep(line, q, f[k])
    BY <1>5, <2>1
  <2>4. CASE line[q].row = 0
    <3>1. c[q] = c[k]
      BY <1>10, <1>11, <2>1, <2>4
    <3>2. Together(F, had, q, PassStep(line, q, f[k]), g[c[k]])
      BY <1>12, <2>1, <2>2, <2>4
    <3>3. Together(F, had, q, f[q], g[c[q]])
      BY <2>3, <3>1, <3>2
    <3> QED  BY <2>1, <3>3 DEF q
  <2>5. CASE line[q].row # 0
    <3>1. c[q] = c[k] + 1 /\ own[c[q]] = line[q]
      BY <1>10, <1>11, <2>1, <2>5
    <3>2. c[q] \in 0 .. e /\ c[k] \in 0 .. e
      BY <1>10, <2>1
    <3>3. c[q] \in 1 .. e /\ c[q] - 1 = c[k]
      BY <1>3, <3>1, <3>2
    <3>4. g[c[q]] = WalkedStep(had, line[q], g[c[k]])
      BY <1>6, <3>1, <3>3
    <3>5. Together(F, had, q, PassStep(line, q, f[k]), WalkedStep(had, line[q], g[c[k]]))
      BY <1>13, <2>1, <2>2, <2>5
    <3>6. Together(F, had, q, f[q], g[c[q]])
      BY <2>3, <3>4, <3>5
    <3> QED  BY <2>1, <3>6 DEF q
  <2> QED  BY <2>4, <2>5
<1> HIDE DEF D
<1>17. \A i \in 0 .. n : i \in D
  BY <1>1, <1>15, <1>16, UpTo
<1>18. Together(F, had, n, f[n], g[e])
  <2>1. n \in D
    BY <1>1, <1>17
  <2> QED  BY <1>10, <2>1 DEF D
<1>19. f[n].refused = g[e].refused
  BY <1>18 DEF Together
<1> QED  BY <1>7, <1>8, <1>19

\* Whatever is recorded, and for every file staged, _shortfalls refuses the rows that
\* walking the holding once for every row refuses, and names the same breach for each:
\* the second is _shortfalls_walked, which says what is meant, and the first is its single pass.
THEOREM RefusalsAlwaysAgree == ImportSpec => []RefusalsAgree
<1>1. ImportInv => RefusalsAgree
  <2> SUFFICES ASSUME ImportInv, NEW u \in Uploads, staged[u] # NULL, NEW l \in Listings
               PROVE  Shortfalls(Entries(trades, l), Wanted(staged[u].rows, l))
                         = ShortfallsWalked(Entries(trades, l), Wanted(staged[u].rows, l))
    BY DEF RefusalsAgree
  <2> DEFINE rows == staged[u].rows
  <2>1. Ledger(trades) /\ WaitingOK
    BY TypeIs DEF ImportInv
  <2>2. rows \in Seq(CandidateRows)
    <3>1. staged[u] \in Staged
      BY <2>1 DEF WaitingOK
    <3> QED  BY <3>1 DEF Staged
  <2> HIDE DEF rows
  <2>3. Moments(Entries(trades, l) \cup Wanted(rows, l))
    BY <2>1, <2>2, BothMoments
  <2>4. \A x \in Entries(trades, l) : x.row = 0
    BY <2>1, EntriesAre
  <2>5. \A x \in Wanted(rows, l) : x.row # 0
    BY <2>2, WantedAre
  <2>6. Shortfalls(Entries(trades, l), Wanted(rows, l)) = ShortfallsWalked(Entries(trades, l), Wanted(rows, l))
    BY <2>3, <2>4, <2>5, PassAgrees
  <2> QED  BY <2>6 DEF rows
<1> QED  BY <1>1, ImportInvariant, PTL
=============================================================================
