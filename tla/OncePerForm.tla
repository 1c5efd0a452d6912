----------------------------- MODULE OncePerForm -----------------------------
(***************************************************************************)
(* What src/app/submissions.py promises of a form that creates something:  *)
(* one record, however many times its Save is pressed within TTL of it,    *)
(* and every press sent either where the record is or to the front page.   *)
(***************************************************************************)
EXTENDS Naturals

CONSTANTS Forms, Presses, TTL, LastTick, None

VARIABLES
    now,
    saving,     \* the press each form is being saved by, or None
    saved,      \* when each form's record was last made, or None
    sent        \* where each press was sent: "record", "refusal", "home" or None

vars == <<now, saving, saved, sent>>

Init ==
    /\ now = 0
    /\ saving = [f \in Forms |-> None] /\ saved = [f \in Forms |-> None]
    /\ sent = [p \in Presses |-> None]

Remembered(f) == saved[f] # None /\ now <= saved[f] + TTL

Begin(f, p) ==
    /\ saving[f] = None /\ ~Remembered(f) /\ sent[p] = None
    /\ saving' = [saving EXCEPT ![f] = p]
    /\ UNCHANGED <<now, saved, sent>>

Save(f, p) ==
    /\ saving[f] = p
    /\ saving' = [saving EXCEPT ![f] = None] /\ saved' = [saved EXCEPT ![f] = now]
    /\ sent' = [sent EXCEPT ![p] = "record"]
    /\ UNCHANGED now

Refuse(f, p) ==
    /\ saving[f] = p
    /\ saving' = [saving EXCEPT ![f] = None]
    /\ sent' = [sent EXCEPT ![p] = "refusal"]
    /\ UNCHANGED <<now, saved>>

Repeat(f, p) ==
    /\ sent[p] = None /\ \A g \in Forms : saving[g] # p
    /\ \/ Remembered(f) /\ sent' = [sent EXCEPT ![p] = "record"]
       \/ saving[f] # None /\ sent' = [sent EXCEPT ![p] = "home"]
    /\ UNCHANGED <<now, saving, saved>>

Tick ==
    /\ now < LastTick /\ now' = now + 1
    /\ UNCHANGED <<saving, saved, sent>>

Next ==
    \/ \E f \in Forms, p \in Presses : Begin(f, p) \/ Save(f, p) \/ Refuse(f, p) \/ Repeat(f, p)
    \/ Tick

Spec == Init /\ [][Next]_vars
=============================================================================
