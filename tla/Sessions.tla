------------------------------- MODULE Sessions -------------------------------
(***************************************************************************)
(* Signing in and staying signed in (src/app/auth.py, twofactor.py,        *)
(* recover.py and the account handlers of main.py): passwords checked in   *)
(* a thread, a second factor, recovery codes, the lockout, the three       *)
(* clocks of a session, and everything that signs an account out.          *)
(*                                                                         *)
(* A handler's work between two awaits is one step of the event loop.      *)
(* Three of them await argon2 with an account already read: signing in,    *)
(* changing the password and turning the second factor off; the last two   *)
(* hold their session's row until they commit, so whoever deletes that row *)
(* waits.  A profile page runs in a thread, and shows a secret it decided  *)
(* on before it commits.                                                   *)
(*                                                                         *)
(* The administrator acts from another account, and the recovery command   *)
(* from another process.  The portfolio a session acts in is Members'.     *)
(***************************************************************************)
EXTENDS Integers, FiniteSets

CONSTANTS
    Users,
    Browsers,       \* each with a cookie, and at most one request under way
    Accounts,       \* what an account may be to begin with
    Chosen,         \* passwords people choose
    Temporary,      \* the password an administrator hands over
    MaxAttempts, Window, Lockout,       \* auth.rate_limit
    Idle, Absolute, Ttl,                \* the clocks of a session
    Retention,      \* how long failed attempts are kept
    PerList,        \* recovery codes in a list
    MaxTokens,      \* bound: sessions ever opened
    MaxSecrets,     \* bound: authenticator secrets ever issued
    MaxLists,       \* bound: recovery lists an account is ever given
    MaxRequests,    \* bound: requests ever made
    LastTick,       \* bound: the last moment
    None

ASSUME SessionsAssumption ==
    /\ MaxAttempts \in Nat \ {0} /\ Window \in Nat \ {0} /\ Lockout \in Nat
    /\ Idle \in Nat \ {0} /\ Absolute \in Nat \ {0} /\ Ttl \in Nat \ {0}
    /\ PerList \in Nat \ {0} /\ LastTick \in Nat /\ None \notin Int
    /\ Retention \in Nat /\ MaxLists \in Nat \ {0} /\ MaxSecrets \in Nat \ {0}
    /\ None \notin Users /\ MaxTokens \in Nat /\ None \notin Chosen \cup {Temporary}
    /\ IsFiniteSet(Browsers)

Tokens == 1 .. MaxTokens
Secrets == 1 .. MaxSecrets

VARIABLES
    account,        \* the User rows
    codes,          \* user -> the current recovery list and its codes not used
    sessions,       \* token -> the UserSession row, or None
    cookie,         \* browser -> the token it carries, or None
    request,        \* browser -> its request under way, or None
    failures,       \* user -> the LoginAttempt rows of its failed attempts
    issued,         \* secrets issued
    minted,         \* sessions opened
    now,
    served,         \* requests made
    epoch,          \* history: how often an account was signed out everywhere
    accepted,       \* history: the one-time codes accepted
    reused          \* history: those accepted again, and whether their secret was current

vars == <<account, codes, sessions, cookie, request, failures, issued, minted, now,
          served, epoch, accepted, reused>>

-----------------------------------------------------------------------------
(* The rows. *)

User == [active : BOOLEAN, password : Chosen \cup {Temporary, None}, mustChange : BOOLEAN,
         secret : Secrets \cup {None}, enabled : BOOLEAN,
         lastStep : Int \cup {None}, outdated : BOOLEAN]

\* A one-time code: a step of a secret, or a code of a list.
Proof == [kind : {"step", "code"}, user : Users, of : Nat, n : Int]

\* A session, the factors that proved it and what it was opened on (history).
UserSession == [user : Users, created : 0 .. LastTick, seen : 0 .. LastTick,
                expires : Nat, pending : BOOLEAN, spent : BOOLEAN,
                proofs : SUBSET Proof,
                asked : BOOLEAN, opened : Nat]

RecoveryCode == [list : 0 .. MaxLists, unused : SUBSET (1 .. PerList)]

\* A failed attempt: when, and which of that moment's.
LoginAttempt == [at : 0 .. LastTick, nth : Nat]

\* No account begins with a secret issued later, and None is no row.
ASSUME AccountsAssumption ==
    /\ Accounts \subseteq User /\ \A a \in Accounts : a.secret \in {1, None}
    /\ None \notin UserSession

Init ==
    /\ account \in [Users -> Accounts]
    /\ codes = [u \in Users |-> [list |-> IF account[u].enabled THEN 1 ELSE 0,
                                 unused |-> IF account[u].enabled THEN 1 .. PerList ELSE {}]]
    /\ sessions = [t \in Tokens |-> None]
    /\ cookie = [b \in Browsers |-> None]
    /\ request = [b \in Browsers |-> None]
    /\ failures = [u \in Users |-> {}]
    /\ issued = IF \E u \in Users : account[u].secret # None THEN 1 ELSE 0
    /\ minted = 0 /\ now = 0 /\ served = 0
    /\ epoch = [u \in Users |-> 0]
    /\ accepted = {} /\ reused = {}

Lesser(a, b) == IF a < b THEN a ELSE b

session_expired(s) ==
    \/ s.expires <= now
    \/ s.seen + Idle <= now
    \/ s.created + Absolute <= now

\* _live_session, load_session and load_pending_session, when the row is not over.
Live(t) == t # None /\ sessions[t] # None /\ ~session_expired(sessions[t])

Full(b) == Live(cookie[b]) /\ ~sessions[cookie[b]].pending

\* load_auth, and the gate of require_login: a temporary password leads to /profile.
Signed(b) == Full(b) /\ account[sessions[cookie[b]].user].active

Who(b) == sessions[cookie[b]].user

Through(b) == Signed(b) /\ ~account[Who(b)].mustChange

\* Activity: the idle window starts again, and the expiry never passes the cap.
Slid(s) == [s EXCEPT !.seen = now, !.expires = Lesser(now + Ttl, s.created + Absolute)]

Touched(b) == [sessions EXCEPT ![cookie[b]] = Slid(@)]

create_session(u, pending, spent, proofs, asked, at) ==
    [user |-> u, created |-> now, seen |-> now, expires |-> now + Ttl,
     pending |-> pending, spent |-> spent, proofs |-> proofs, asked |-> asked,
     opened |-> at]

\* A mutant of WithoutSessions: sessions still waiting on their code are left.
WithoutFullSessions(u) ==
    [t \in Tokens |-> IF sessions[t] # None /\ sessions[t].user = u /\ ~sessions[t].pending
                      THEN None ELSE sessions[t]]

\* destroy_sessions_for.
WithoutSessions(u) ==
    [t \in Tokens |-> IF sessions[t] # None /\ sessions[t].user = u
                      THEN None ELSE sessions[t]]

\* The session's row is locked by a request that awaits a thread with it.
Held(t) == \E b \in Browsers : request[b] # None /\ request[b].token = t /\ t # None

Free(u) == \A t \in Tokens : sessions[t] # None /\ sessions[t].user = u => ~Held(t)

\* The failures that still count.
Recent(u) == {f \in failures[u] : f.at >= now - Window}

\* A mutant of is_locked: one attempt too many.
LockedLate(u) ==
    /\ Cardinality(Recent(u)) > MaxAttempts
    /\ \E f \in Recent(u) : now < f.at + Lockout

\* The last of them is the one the lockout runs from.
is_locked(u) ==
    /\ Cardinality(Recent(u)) >= MaxAttempts
    /\ \E f \in Recent(u) : now < f.at + Lockout

\* record_attempt; rows too old to count are not kept, they decide nothing.
Failed(u) ==
    failures' = [failures EXCEPT ![u] = Recent(u) \cup
       {[at |-> now, nth |-> Cardinality({f \in failures[u] : f.at = now}) + 1]}]

Served == served < MaxRequests /\ served' = served + 1

-----------------------------------------------------------------------------
(* One-time codes. *)

StepProof(u, secret, n) == [kind |-> "step", user |-> u, of |-> secret, n |-> n]
CodeProof(u, list, n) == [kind |-> "code", user |-> u, of |-> list, n |-> n]

\* What may be typed for a code: one the phone may show now, one of the lists
\* issued, or something else.
Typed(u) ==
    {StepProof(u, s, n) : s \in {account[u].secret} \ {None}, n \in now - 1 .. now + 1}
    \cup {CodeProof(u, g, n) : g \in {codes[u].list} \ {0}, n \in 1 .. PerList}
    \cup {None}

\* matching_step: a code of this secret, from a step either side of now.
matching_step(secret, c) ==
    c # None /\ c.kind = "step" /\ c.of = secret /\ c.n \in now - 1 .. now + 1

\* A mutant of accept_code: the step is recorded and not compared.
AcceptAnyStep(u, secret, c) == matching_step(secret, c)

\* accept_code: the condition is the UPDATE's own, so it is the stored step's.
accept_code(u, secret, c) ==
    /\ matching_step(secret, c)
    /\ account[u].lastStep # None => account[u].lastStep < c.n

\* consume_recovery_code: of the account's rows, one not used.
Usable(u, c) ==
    c # None /\ c.kind = "code" /\ c.of = codes[u].list /\ c.n \in codes[u].unused

Spend(u, c) == codes' = [codes EXCEPT ![u].unused = @ \ {c.n}]

\* A step's secret may be the account's no longer when it is accepted.
Current(u, c) == c.kind = "step" => c.of = account[u].secret

Accepting(u, c) ==
    /\ accepted' = accepted \cup {c}
    /\ reused' = IF c \in accepted
                 THEN reused \cup {[code |-> c, current |-> Current(u, c)]} ELSE reused

-----------------------------------------------------------------------------
(* Signing in. *)

\* Everything create_session leaves behind: the row and the browser's cookie.
Opens(b, base, s) ==
    /\ minted < MaxTokens /\ minted' = minted + 1
    /\ sessions' = [base EXCEPT ![minted + 1] = s]
    /\ cookie' = [cookie EXCEPT ![b] = minted + 1]

\* login_submit, to its await: the account is read, if the address is not locked.
SubmitPassword(b, u, p) ==
    /\ request[b] = None /\ ~is_locked(u) /\ Served
    /\ request' = [request EXCEPT ![b] =
          [kind |-> "login", user |-> u, typed |-> p, code |-> None, next |-> None,
           read |-> account[u], token |-> None]]
    /\ UNCHANGED <<account, codes, sessions, cookie, failures, issued, minted, now,
                   epoch, accepted, reused>>

\* login_submit, from its awaits, on the account as it was read: a hash made with
\* parameters since changed is made again, of the password typed.
PasswordChecked(b) ==
    LET r == request[b] u == r.user
        ok == r.typed = r.read.password /\ r.read.active
    IN
    /\ r # None /\ r.kind = "login"
    /\ request' = [request EXCEPT ![b] = None]
    /\ IF ok
       THEN /\ Opens(b, sessions, create_session(u, r.read.enabled, FALSE, {},
                                                 r.read.enabled, epoch[u]))
            /\ account' = IF r.read.outdated
                          THEN [account EXCEPT ![u].password = r.typed, ![u].outdated = FALSE]
                          ELSE account
            /\ UNCHANGED failures
       ELSE Failed(u) /\ UNCHANGED <<account, sessions, cookie, minted>>
    /\ UNCHANGED <<codes, issued, now, served, epoch, accepted, reused>>

\* recover_submit: a recovery code for a forgotten password.
Recover(b, u, c) ==
    /\ request[b] = None /\ ~is_locked(u) /\ Served
    /\ IF account[u].active /\ Usable(u, c)
       THEN /\ Spend(u, c) /\ Accepting(u, c)
            /\ account' = [account EXCEPT ![u].mustChange = TRUE]
            /\ Opens(b, sessions, create_session(u, account[u].enabled, TRUE, {c},
                                                 account[u].enabled, epoch[u]))
            /\ UNCHANGED failures
       ELSE /\ Failed(u)
            /\ UNCHANGED <<account, codes, sessions, cookie, minted, accepted, reused>>
    /\ UNCHANGED <<request, issued, now, epoch>>

\* A mutant of SecondCode: whatever opened the session.
AnotherCode(s, u, c) == Usable(u, c)

\* One recovery code per sign-in.
SecondCode(s, u, c) == ~s.spent /\ Usable(u, c)

\* login_code_submit: the code step of a session that awaits it.
EnterCode(b, c) ==
    LET t == cookie[b] s == sessions[t] u == s.user IN
    /\ request[b] = None /\ Live(t) /\ s.pending /\ ~is_locked(u) /\ Served
    /\ c \in Typed(u)
    /\ IF accept_code(u, account[u].secret, c) \/ SecondCode(s, u, c)
       THEN /\ sessions' = [sessions EXCEPT ![t].pending = FALSE,
                                            ![t].proofs = @ \cup {c}]
            /\ Accepting(u, c)
            /\ IF c.kind = "step"
               THEN account' = [account EXCEPT ![u].lastStep = c.n] /\ UNCHANGED codes
               ELSE Spend(u, c) /\ UNCHANGED account
            /\ UNCHANGED failures
       ELSE Failed(u) /\ UNCHANGED <<account, codes, sessions, accepted, reused>>
    /\ UNCHANGED <<cookie, request, issued, minted, now, epoch>>

-----------------------------------------------------------------------------
(* Staying signed in, and signing out. *)

\* Any page, or "Stay signed in": load_auth slides the window.
Visit(b) ==
    /\ request[b] = None /\ Signed(b) /\ Served
    /\ sessions' = Touched(b)
    /\ UNCHANGED <<account, codes, cookie, request, failures, issued, minted, now,
                   epoch, accepted, reused>>

\* A row that is over, or whose account is not active, is deleted when it is met.
TurnedAway(b) ==
    LET t == cookie[b] IN
    /\ request[b] = None /\ t # None /\ sessions[t] # None /\ Served
    /\ session_expired(sessions[t])
          \/ (~sessions[t].pending /\ ~account[Who(b)].active)
    /\ sessions' = [sessions EXCEPT ![t] = None]
    /\ UNCHANGED <<account, codes, cookie, request, failures, issued, minted, now,
                   epoch, accepted, reused>>

\* logout: whatever the session has proved.
Logout(b) ==
    /\ request[b] = None /\ cookie[b] # None /\ Served
    /\ sessions' = [sessions EXCEPT ![cookie[b]] = None]
    /\ cookie' = [cookie EXCEPT ![b] = None]
    /\ UNCHANGED <<account, codes, request, failures, issued, minted, now, epoch,
                   accepted, reused>>

\* revoke_session: another session of one's own.
Revoke(b, t) ==
    /\ request[b] = None /\ Through(b) /\ Served
    /\ t # cookie[b] /\ sessions[t] # None /\ sessions[t].user = Who(b) /\ ~Held(t)
    /\ sessions' = [Touched(b) EXCEPT ![t] = None]
    /\ UNCHANGED <<account, codes, cookie, request, failures, issued, minted, now,
                   epoch, accepted, reused>>

\* revoke_other_sessions.
RevokeOthers(b) ==
    /\ request[b] = None /\ Through(b) /\ Served
    /\ \A t \in Tokens \ {cookie[b]} :
          sessions[t] # None /\ sessions[t].user = Who(b) => ~Held(t)
    /\ sessions' = [WithoutSessions(Who(b)) EXCEPT ![cookie[b]] = Touched(b)[cookie[b]]]
    /\ UNCHANGED <<account, codes, cookie, request, failures, issued, minted, now,
                   epoch, accepted, reused>>

-----------------------------------------------------------------------------
(* The second factor and the recovery codes. *)

\* The profile page, read by its thread: begin_enrolment finds no secret to resume.
ReadProfile(b) ==
    /\ request[b] = None /\ Signed(b) /\ Served
    /\ account[Who(b)].secret = None /\ issued < MaxSecrets
    /\ issued' = issued + 1
    /\ request' = [request EXCEPT ![b] =
          [kind |-> "page", user |-> Who(b), typed |-> None, code |-> issued + 1,
           next |-> None, read |-> account[Who(b)], token |-> None]]
    /\ sessions' = Touched(b)
    /\ UNCHANGED <<account, codes, cookie, failures, minted, now, epoch, accepted,
                   reused>>

\* It commits the secret it shows; totp_last_step was NULL and stays as it is.
ShowProfile(b) ==
    LET r == request[b] IN
    /\ r # None /\ r.kind = "page"
    /\ account' = [account EXCEPT ![r.user].secret = r.code]
    /\ request' = [request EXCEPT ![b] = None]
    /\ UNCHANGED <<codes, sessions, cookie, failures, issued, minted, now, served,
                   epoch, accepted, reused>>

\* generate_recovery_codes: a fresh list, the old one gone.
FreshList(u) ==
    /\ codes[u].list < MaxLists
    /\ codes' = [codes EXCEPT ![u] = [list |-> @.list + 1, unused |-> 1 .. PerList]]

\* twofactor_enable: a code of the pending secret turns it on, and an account that
\* never had a list gets one.
Enable(b, c) ==
    LET u == Who(b) IN
    /\ request[b] = None /\ Through(b) /\ Served
    /\ ~account[u].enabled /\ accept_code(u, account[u].secret, c)
    /\ account' = [account EXCEPT ![u].enabled = TRUE, ![u].lastStep = c.n]
    /\ IF codes[u].list = 0 THEN FreshList(u) ELSE UNCHANGED codes
    /\ Accepting(u, c)
    /\ sessions' = Touched(b)
    /\ UNCHANGED <<cookie, request, failures, issued, minted, now, epoch>>

\* account_recovery_codes.
ReissueCodes(b) ==
    /\ request[b] = None /\ Through(b) /\ Served
    /\ FreshList(Who(b))
    /\ sessions' = Touched(b)
    /\ UNCHANGED <<account, cookie, request, failures, issued, minted, now, epoch,
                   accepted, reused>>

\* twofactor.disable.
Disabled(a) == [a EXCEPT !.secret = None, !.enabled = FALSE, !.lastStep = None]

\* twofactor_disable and account_password, to their await: the session's row is
\* written, and the password typed goes to a thread.
SubmitDisable(b, p, c) ==
    /\ request[b] = None /\ Through(b) /\ Served
    /\ account[Who(b)].enabled
    /\ request' = [request EXCEPT ![b] =
          [kind |-> "disable", user |-> Who(b), typed |-> p, code |-> c, next |-> None,
           read |-> account[Who(b)], token |-> cookie[b]]]
    /\ sessions' = Touched(b)
    /\ UNCHANGED <<account, codes, cookie, failures, issued, minted, now, epoch,
                   accepted, reused>>

\* From its await: the password and the secret as read, the step and the codes as stored.
DisableChecked(b) ==
    LET r == request[b] u == r.user
        step == accept_code(u, r.read.secret, r.code)
        ok == r.typed = r.read.password /\ (step \/ Usable(u, r.code))
    IN
    /\ r # None /\ r.kind = "disable"
    /\ request' = [request EXCEPT ![b] = None]
    /\ IF ok
       THEN /\ account' = [account EXCEPT ![u] = Disabled(@)]
            /\ IF step THEN UNCHANGED codes ELSE Spend(u, r.code)
            /\ Accepting(u, r.code)
       ELSE UNCHANGED <<account, codes, accepted, reused>>
    /\ UNCHANGED <<sessions, cookie, failures, issued, minted, now, served, epoch>>

SubmitChange(b, p, q) ==
    /\ request[b] = None /\ Signed(b) /\ Served
    /\ request' = [request EXCEPT ![b] =
          [kind |-> "change", user |-> Who(b), typed |-> p, code |-> None, next |-> q,
           read |-> account[Who(b)], token |-> cookie[b]]]
    /\ sessions' = Touched(b)
    /\ UNCHANGED <<account, codes, cookie, failures, issued, minted, now, epoch,
                   accepted, reused>>

\* account_password, from its awaits: every session goes, and this browser gets a new one.
ChangeChecked(b) ==
    LET r == request[b] u == r.user s == sessions[r.token] IN
    /\ r # None /\ r.kind = "change"
    /\ request' = [request EXCEPT ![b] = None]
    /\ IF r.typed = r.read.password
       THEN /\ \A t \in Tokens \ {r.token} :
                  sessions[t] # None /\ sessions[t].user = u => ~Held(t)
            /\ account' = [account EXCEPT ![u].password = r.next, ![u].mustChange = FALSE,
                                               ![u].outdated = FALSE]
            /\ epoch' = [epoch EXCEPT ![u] = @ + 1]
            /\ Opens(b, WithoutSessions(u),
                     create_session(u, FALSE, FALSE, s.proofs, s.asked, epoch[u] + 1))
       ELSE UNCHANGED <<account, sessions, cookie, minted, epoch>>
    /\ UNCHANGED <<codes, failures, issued, now, served, accepted, reused>>

-----------------------------------------------------------------------------
(* What others do to an account, from an account or a process of their own. *)

\* Everything the account had open ends.
SignedOut(u) ==
    /\ Free(u)
    /\ sessions' = WithoutSessions(u)
    /\ epoch' = [epoch EXCEPT ![u] = @ + 1]

Handed(a) == [a EXCEPT !.password = Temporary, !.mustChange = TRUE, !.outdated = FALSE]

\* users_toggle_active.
Deactivate(u) ==
    /\ account[u].active /\ Served /\ SignedOut(u)
    /\ account' = [account EXCEPT ![u].active = FALSE]
    /\ UNCHANGED <<codes, cookie, request, failures, issued, minted, now, accepted, reused>>

Activate(u) ==
    /\ ~account[u].active /\ Served
    /\ account' = [account EXCEPT ![u].active = TRUE]
    /\ UNCHANGED <<codes, sessions, cookie, request, failures, issued, minted, now,
                   epoch, accepted, reused>>

\* users_reset.
ResetPassword(u) ==
    /\ Served /\ SignedOut(u)
    /\ account' = [account EXCEPT ![u] = Handed(@)]
    /\ UNCHANGED <<codes, cookie, request, failures, issued, minted, now, accepted, reused>>

\* users_clear_2fa.
ClearFactor(u) ==
    /\ Served /\ SignedOut(u)
    /\ account' = [account EXCEPT ![u] = Disabled(@)]
    /\ UNCHANGED <<codes, cookie, request, failures, issued, minted, now, accepted, reused>>

\* recover.set_password: the second factor goes with it, unless it is kept.
set_password(a, keep) ==
    IF keep \/ ~a.enabled THEN Handed(a) ELSE Disabled(Handed(a))

\* python -m app.recover, with what it is asked to do.
RecoverCommand(u, asked) ==
    LET a == account[u]
        recovered == IF "--password" \in asked THEN set_password(a, "--keep-2fa" \in asked)
                     ELSE IF "--clear-2fa" \in asked THEN Disabled(a) ELSE a
    IN
    /\ asked \cap {"--password", "--clear-2fa", "--activate"} # {}
    /\ Served /\ SignedOut(u)
    /\ account' = [account EXCEPT ![u] =
          [recovered EXCEPT !.active = @ \/ "--activate" \in asked]]
    /\ UNCHANGED <<codes, cookie, request, failures, issued, minted, now, accepted, reused>>

-----------------------------------------------------------------------------
(* Housekeeping, whose steps each commit on their own. *)

purge_expired_sessions ==
    LET old == {t \in Tokens : sessions[t] # None /\ sessions[t].expires < now} IN
    /\ old # {} /\ \A t \in old : ~Held(t)
    /\ sessions' = [t \in Tokens |-> IF t \in old THEN None ELSE sessions[t]]
    /\ UNCHANGED <<account, codes, cookie, request, failures, issued, minted, now, served,
                   epoch, accepted, reused>>

purge_old_login_attempts ==
    LET Kept(u) == {f \in failures[u] : f.at >= now - Retention} IN
    /\ \E u \in Users : Kept(u) # failures[u]
    /\ failures' = [u \in Users |-> Kept(u)]
    /\ UNCHANGED <<account, codes, sessions, cookie, request, issued, minted, now, served,
                   epoch, accepted, reused>>

\* maintenance.run, for the two of its steps that this module's rows concern.
housekeeping == purge_expired_sessions \/ purge_old_login_attempts

Tick ==
    /\ now < LastTick /\ now' = now + 1
    /\ UNCHANGED <<account, codes, sessions, cookie, request, failures, issued, minted,
                   served, epoch, accepted, reused>>

SigningIn(b) ==
    \/ \E u \in Users, p \in Chosen \cup {Temporary} : SubmitPassword(b, u, p)
    \/ PasswordChecked(b)
    \/ \E u \in Users : \E c \in Typed(u) : Recover(b, u, c)
    \/ cookie[b] # None /\ sessions[cookie[b]] # None /\ \E c \in Typed(Who(b)) : EnterCode(b, c)

Staying(b) ==
    \/ Visit(b) \/ TurnedAway(b) \/ Logout(b) \/ RevokeOthers(b)
    \/ \E t \in Tokens : Revoke(b, t)

Profile(b) ==
    \/ ReadProfile(b) \/ ShowProfile(b) \/ ReissueCodes(b)
    \/ Signed(b) /\ \E c \in Typed(Who(b)) :
          Enable(b, c) \/ \E p \in Chosen \cup {Temporary} : SubmitDisable(b, p, c)
    \/ \E p \in Chosen \cup {Temporary}, q \in Chosen : SubmitChange(b, p, q)
    \/ DisableChecked(b) \/ ChangeChecked(b)

Others(u) ==
    \/ Deactivate(u) \/ Activate(u) \/ ResetPassword(u) \/ ClearFactor(u)
    \/ \E asked \in SUBSET {"--password", "--keep-2fa", "--clear-2fa", "--activate"} :
          RecoverCommand(u, asked)

Next ==
    \/ \E b \in Browsers : SigningIn(b) \/ Staying(b) \/ Profile(b)
    \/ \E u \in Users : Others(u)
    \/ housekeeping
    \/ Tick

Spec == Init /\ [][Next]_vars

-----------------------------------------------------------------------------
(* What must hold. *)

\* What a request under way has read and was given.
Request(r) ==
    /\ r.kind \in {"login", "page", "disable", "change"} /\ r.user \in Users /\ r.read \in User
    /\ r.typed \in Chosen \cup {Temporary, None} /\ r.token \in Tokens \cup {None}
    /\ r.kind = "page" => r.code \in Secrets
    /\ r.kind = "disable" /\ r.code # None => r.code \in Proof /\ r.code.user = r.user
    /\ r.kind = "change" => r.next \in Chosen

\* The shape of every variable; and a session once used has an expiry within its
\* absolute cap: "renewal cannot push it out" (auth.py:507-509).
TypeOK ==
    /\ account \in [Users -> User]
    /\ codes \in [Users -> RecoveryCode]
    /\ sessions \in [Tokens -> UserSession \cup {None}]
    /\ \A t \in Tokens : sessions[t] # None /\ sessions[t].seen > sessions[t].created =>
          sessions[t].expires <= sessions[t].created + Absolute
    /\ cookie \in [Browsers -> Tokens \cup {None}]
    /\ DOMAIN request = Browsers
    /\ \A b \in Browsers : request[b] # None => Request(request[b])
    /\ failures \in [Users -> SUBSET LoginAttempt]
    /\ minted \in 0 .. MaxTokens /\ issued \in 0 .. MaxSecrets /\ now \in 0 .. LastTick
    /\ epoch \in [Users -> Nat]

\* A recovery code, and a step of the authenticator an account has, each prove one
\* thing once, at the sign-in, in the profile or in two browsers (accept_code's UPDATE).
OneUseEach == \A r \in reused : ~r.current

\* What accept_code's docstring says of every code: "once".  One of a factor that was
\* turned off while it waited for its thread is accepted again.
CodesProveOnce == reused = {}

\* A recovery code stands in for the password and never for the second factor: a
\* session opened on a factor that was on is whole only with a further proof, and
\* a sign-in spends one recovery code at most (decisions.md #36, #45).
TwoFactors ==
    \A t \in Tokens : sessions[t] # None =>
       LET s == sessions[t] IN
       /\ Cardinality({c \in s.proofs : c.kind = "code"}) <= 1
       /\ s.asked /\ ~s.pending =>
             \E c \in s.proofs : s.spent => c.kind = "step"

\* A changed or reset password, a cleared factor and a deactivation end every session
\* open at that moment, those still waiting on a code included, but the one that
\* made the change.  (One whose password was being checked may still open after it.)
SignedOutEverywhere ==
    \A t \in Tokens : sessions[t] # None => sessions[t].opened = epoch[sessions[t].user]

\* Attempts read the lock before the thread and count after it, so those under way
\* slip past it, and no others: with the lockout as long as the window, and attempts
\* kept for it, that bounds the guesses of any window.
GuessesBounded ==
    Lockout = Window /\ Retention >= Window => \A u \in Users :
       Cardinality({f \in failures[u] : f.at > now - Window})
          < MaxAttempts + Cardinality(Browsers)

=============================================================================
