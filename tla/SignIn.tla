------------------------------- MODULE SignIn ---------------------------------
(***************************************************************************)
(* Signing in without a password (src/app/federation.py, passkeys.py and   *)
(* the handlers of main.py that call them): through an identity provider,  *)
(* which takes two requests and a stay at the provider in between, and     *)
(* with a passkey, whose challenge is issued by one request and answered   *)
(* by another.  What may be gone or changed by the second request is the   *)
(* subject of this module.                                                 *)
(*                                                                         *)
(* A provider's callback runs in a thread and waits for the provider: it   *)
(* is two steps, and two callbacks overlap.  The other handlers decide     *)
(* and write in one step of the event loop.  What a token proves is the    *)
(* provider's and the authenticator's, as is whether they answer at all.   *)
(* Passwords, codes and a session's clocks are in module Sessions; what an *)
(* invitation gives is in module Members.                                  *)
(***************************************************************************)
EXTENDS Integers, FiniteSets

CONSTANTS
    Users,          \* email addresses, each of one account at most
    Residents,      \* those that have an account with a password to begin with
    Subjects,       \* the provider's accounts
    EmailOf,        \* subject -> the email the provider gives for it
    Provisioning,   \* auth.oidc.provisioning
    Invites,        \* invitations, all live to begin with
    Browsers,
    Passkeys,       \* authenticators
    MaxAttempts,    \* bound: sign-ins ever started at the provider
    MaxChallenges,  \* bound: challenges ever issued
    MaxSessions,    \* bound: sessions ever opened
    MaxEdits,       \* bound: passwords set, accounts toggled, identities and passkeys removed
    None

ASSUME SignInAssumption ==
    /\ Residents \subseteq Users /\ EmailOf \in [Subjects -> Users]
    /\ Provisioning \in {"off", "invite", "open"}
    /\ MaxAttempts \in Nat /\ MaxChallenges \in Nat /\ MaxSessions \in Nat /\ MaxEdits \in Nat
    /\ None \notin Users \cup Invites \cup Int

Attempts == 1 .. MaxAttempts
Challenges == 1 .. MaxChallenges
Tokens == 1 .. MaxSessions

VARIABLES
    account,    \* the User rows: made, active, with a password or not
    identity,   \* subject -> the account of its ExternalIdentity row, or None
    invite,     \* invitation -> "live", "expired", "used" or "withdrawn"
    attempt,    \* the OidcState rows
    cookie,     \* browser -> the attempt its cookie names, or None
    callbacks,  \* callbacks waiting for the provider
    session,    \* token -> whose it is and where it began, or None
    passkey,    \* authenticator -> the account of its WebauthnCredential row, or None
    challenge,  \* the WebauthnChallenge rows
    count,      \* how many of each were made
    letIn,      \* history: the accounts a callback made, and what was held for them
    taken,      \* history: invitation -> how often it was accepted
    answered    \* history: challenge -> how often it was accepted

signing == <<account, identity, invite, attempt, cookie, callbacks, letIn, taken>>
keyed == <<passkey, challenge, answered>>
vars == <<signing, keyed, session, count>>

-----------------------------------------------------------------------------
(* The rows. *)

User == [made : BOOLEAN, active : BOOLEAN, password : BOOLEAN]
OidcState == [invite : Invites \cup {None}, link : Users \cup {None}, old : BOOLEAN]
WebauthnChallenge == [user : Users \cup {None}, old : BOOLEAN]
UserSession == [user : Users, via : BOOLEAN, sid : Subjects \cup {None}]
Callback == [browser : Browsers, attempt : Attempts, held : Invites \cup {None},
             link : Users \cup {None}, subject : Subjects]

Init ==
    /\ account = [u \in Users |-> [made |-> u \in Residents, active |-> u \in Residents,
                                   password |-> u \in Residents]]
    /\ identity = [s \in Subjects |-> None]
    /\ invite = [i \in Invites |-> "live"]
    /\ attempt = [a \in Attempts |-> None]
    /\ cookie = [b \in Browsers |-> None]
    /\ callbacks = {}
    /\ session = [t \in Tokens |-> None]
    /\ passkey = [k \in Passkeys |-> None]
    /\ challenge = [c \in Challenges |-> None]
    /\ count = [attempts |-> 0, challenges |-> 0, sessions |-> 0, edits |-> 0]
    /\ letIn = {}
    /\ taken = [i \in Invites |-> 0]
    /\ answered = [c \in Challenges |-> 0]

\* load_auth: a session whose account is disabled is none.
In(u) == account[u].active /\ \E t \in Tokens : session[t] # None /\ session[t].user = u

Edit == count.edits < MaxEdits /\ count' = [count EXCEPT !.edits = @ + 1]

create_session(u, via, sid) ==
    /\ count.sessions < MaxSessions
    /\ count' = [count EXCEPT !.sessions = @ + 1]
    /\ session' = [session EXCEPT ![count'.sessions] = [user |-> u, via |-> via, sid |-> sid]]

-----------------------------------------------------------------------------
(* Out to the provider. *)

\* federation.begin: a row, and a cookie that names it.
begin(b, i, link) ==
    /\ count.attempts < MaxAttempts
    /\ count' = [count EXCEPT !.attempts = @ + 1]
    /\ attempt' = [attempt EXCEPT ![count'.attempts] =
                      [invite |-> i, link |-> link, old |-> FALSE]]
    /\ cookie' = [cookie EXCEPT ![b] = count'.attempts]
    /\ UNCHANGED <<account, identity, invite, callbacks, letIn, taken, keyed, session>>

\* An invitation is taken along when it is live now.
login_oidc(b, i) == (i # None => invite[i] = "live") /\ begin(b, i, None)

profile_oidc_link(b, u) == In(u) /\ begin(b, None, u)

-----------------------------------------------------------------------------
(* And back.  The provider echoes the state of attempt `a`, and names `s`. *)

\* take_state: the cookie's row, not over, and the state that was sent.
take_state(b, a) == cookie[b] = a /\ attempt[a] # None /\ ~attempt[a].old

\* An invitation that is spent by now is none at all.
Held(a) ==
    IF attempt[a].invite # None /\ invite[attempt[a].invite] = "live"
    THEN attempt[a].invite ELSE None

login_oidc_callback(b, a, s) ==
    /\ Cardinality(callbacks) < 2
    /\ take_state(b, a)
    /\ callbacks' = callbacks \cup
          {[browser |-> b, attempt |-> a, held |-> Held(a), link |-> attempt[a].link,
            subject |-> s]}
    /\ UNCHANGED <<account, identity, invite, attempt, cookie, letIn, taken, keyed, session, count>>

\* A refused sign-in is rolled back: nothing it started is kept.
Refused(c) ==
    /\ callbacks' = callbacks \ {c}
    /\ UNCHANGED <<account, identity, invite, attempt, cookie, letIn, taken, keyed, session, count>>

\* A mutant of Claimed: whatever happened to the invitation at the provider's.
ClaimedUnseen(i) == TRUE

\* The UPDATE in invites.accept_row, which does not look at the expiry again.
Claimed(i) == i # None => invite[i] \in {"live", "expired"}

\* federation.provision: refused when the email has an account already.
Provisioned(c) ==
    /\ identity[c.subject] = None /\ ~account[EmailOf[c.subject]].made
    /\ Provisioning = "open" \/ (Provisioning = "invite" /\ c.held # None)

\* federation.resolve, and link for an attempt of the profile page: whose it is.
Resolved(c) ==
    LET known == identity[c.subject]
    IN  IF c.link # None THEN IF known \in {None, c.link} THEN c.link ELSE None
        ELSE IF known # None THEN IF account[known].active THEN known ELSE None
        ELSE IF Provisioned(c) THEN EmailOf[c.subject] ELSE None

\* The provider answered.  The attempt is spent only now; it may be gone already.
CalledBack(c, sid) ==
    LET u == Resolved(c)
    IN  /\ u # None /\ Claimed(c.held)
        /\ IF account[u].made THEN UNCHANGED <<account, letIn>>
           ELSE /\ account' = [account EXCEPT ![u] = [made |-> TRUE, active |-> TRUE,
                                                      password |-> FALSE]]
                /\ letIn' = letIn \cup {[user |-> u, held |-> c.held]}
        /\ identity' = [identity EXCEPT ![c.subject] = u]
        /\ IF c.held = None THEN UNCHANGED <<invite, taken>>
           ELSE /\ invite' = [invite EXCEPT ![c.held] = "used"]
                /\ taken' = [taken EXCEPT ![c.held] = @ + 1]
        /\ attempt' = [attempt EXCEPT ![c.attempt] = None]
        /\ cookie' = [cookie EXCEPT ![c.browser] = None]
        /\ callbacks' = callbacks \ {c}
        /\ create_session(u, TRUE, sid)
        /\ UNCHANGED keyed

\* A row fifteen, or five, minutes old, and the maintenance that removes such rows.
Age ==
    /\ \/ \E a \in Attempts : /\ attempt[a] # None /\ ~attempt[a].old
                              /\ attempt' = [attempt EXCEPT ![a].old = TRUE]
                              /\ UNCHANGED challenge
       \/ \E c \in Challenges : /\ challenge[c] # None /\ ~challenge[c].old
                                /\ challenge' = [challenge EXCEPT ![c].old = TRUE]
                                /\ UNCHANGED attempt
    /\ UNCHANGED <<account, identity, invite, cookie, callbacks, letIn, taken, passkey,
                   answered, session, count>>

Fresh(rows) == [r \in DOMAIN rows |->
                   IF rows[r] # None /\ rows[r].old THEN None ELSE rows[r]]

purge_oidc_states ==
    /\ attempt' = Fresh(attempt)
    /\ UNCHANGED <<account, identity, invite, cookie, callbacks, letIn, taken, keyed, session,
                   count>>

purge_passkey_challenges ==
    /\ challenge' = Fresh(challenge)
    /\ UNCHANGED <<signing, passkey, answered, session, count>>

-----------------------------------------------------------------------------
(* What others do to an invitation meanwhile: module Members. *)

Withdraw(i) ==
    /\ invite[i] \in {"live", "expired"}
    /\ invite' = [invite EXCEPT ![i] = "withdrawn"]
    /\ UNCHANGED <<account, identity, attempt, cookie, callbacks, letIn, taken, keyed,
                   session, count>>

Expire(i) ==
    /\ invite[i] = "live"
    /\ invite' = [invite EXCEPT ![i] = "expired"]
    /\ UNCHANGED <<account, identity, attempt, cookie, callbacks, letIn, taken, keyed,
                   session, count>>

\* Somebody signs up with it, or joins with the account they have.
TakenElsewhere(i, u) ==
    /\ invite[i] = "live"
    /\ invite' = [invite EXCEPT ![i] = "used"]
    /\ taken' = [taken EXCEPT ![i] = @ + 1]
    /\ account' = IF account[u].made THEN account
                  ELSE [account EXCEPT ![u] = [made |-> TRUE, active |-> TRUE,
                                               password |-> TRUE]]
    /\ UNCHANGED <<identity, attempt, cookie, callbacks, letIn, keyed, session, count>>

-----------------------------------------------------------------------------
(* The account page, an administrator, and the provider's own logout. *)

PasswordSignIn(u) ==
    /\ account[u].active /\ account[u].password
    /\ create_session(u, FALSE, None)
    /\ UNCHANGED <<signing, keyed>>

\* A mutant of OnlyWayIn: an account's passkeys are taken for a way in.
OnlyWayInKeyed(u, s) ==
    /\ ~account[u].password /\ \A k \in Passkeys : passkey[k] # u
    /\ \A r \in Subjects \ {s} : identity[r] # u

\* What federation.unlink refuses.
OnlyWayIn(u, s) == ~account[u].password /\ \A r \in Subjects \ {s} : identity[r] # u

profile_oidc_unlink(u, s) ==
    /\ In(u) /\ identity[s] = u /\ ~OnlyWayIn(u, s)
    /\ identity' = [identity EXCEPT ![s] = None]
    /\ Edit
    /\ UNCHANGED <<account, invite, attempt, cookie, callbacks, letIn, taken, keyed, session>>

WithoutSessions(u) ==
    [t \in Tokens |-> IF session[t] # None /\ session[t].user = u THEN None ELSE session[t]]

\* users_reset, users_toggle_active, and the command set_password.
SetPassword(u) ==
    /\ account[u].made /\ ~account[u].password
    /\ account' = [account EXCEPT ![u].password = TRUE]
    /\ session' = WithoutSessions(u)
    /\ Edit
    /\ UNCHANGED <<identity, invite, attempt, cookie, callbacks, letIn, taken, keyed>>

Toggle(u) ==
    /\ account[u].made
    /\ account' = [account EXCEPT ![u].active = ~@]
    /\ session' = IF account[u].active THEN WithoutSessions(u) ELSE session
    /\ Edit
    /\ UNCHANGED <<identity, invite, attempt, cookie, callbacks, letIn, taken, keyed>>

\* end_sessions_for: by the provider's session when the notice has one, else by subject.
Named(t, sid, s) ==
    IF sid # None THEN session[t].sid = sid
    ELSE identity[s] # None /\ session[t].user = identity[s] /\ session[t].via

oidc_backchannel_logout(sid, s) ==
    /\ session' = [t \in Tokens |-> IF session[t] # None /\ Named(t, sid, s)
                                    THEN None ELSE session[t]]
    /\ UNCHANGED <<signing, keyed, count>>

-----------------------------------------------------------------------------
(* Passkeys: `ok` is whether the library verifies what the authenticator signed. *)

issue_challenge(u) ==
    /\ count.challenges < MaxChallenges
    /\ count' = [count EXCEPT !.challenges = @ + 1]
    /\ challenge' = [challenge EXCEPT ![count'.challenges] = [user |-> u, old |-> FALSE]]
    /\ UNCHANGED <<signing, passkey, answered, session>>

\* Options for an account's new key, whose own keys the browser leaves out, and for
\* signing in, with no account named.
registration_options(u) == In(u) /\ issue_challenge(u)
authentication_options == issue_challenge(None)

\* It goes as it is read, whether the ceremony succeeds or not.
take_challenge(c) == [challenge EXCEPT ![c] = None]

Answerable(c) == challenge[c] # None /\ ~challenge[c].old

\* One whose time is over goes too; any other ceremony is accepted or not.
Answer(c, ok) ==
    /\ challenge' = take_challenge(c)
    /\ answered' = [answered EXCEPT ![c] = @ + IF ok THEN 1 ELSE 0]
    /\ UNCHANGED signing

passkeys_register(u, c, k, ok) ==
    /\ In(u) /\ challenge[c] # None
    /\ ok => Answerable(c) /\ challenge[c].user = u /\ passkey[k] = None
    /\ Answer(c, ok)
    /\ passkey' = IF ok THEN [passkey EXCEPT ![k] = u] ELSE passkey
    /\ UNCHANGED <<session, count>>

\* Any challenge will do, and the account may be disabled: load_auth sees to that.
login_passkey(c, k, ok) ==
    /\ challenge[c] # None
    /\ ok => Answerable(c) /\ passkey[k] # None
    /\ Answer(c, ok)
    /\ IF ok THEN create_session(passkey[k], FALSE, None) ELSE UNCHANGED <<session, count>>
    /\ UNCHANGED passkey

passkeys_remove(u, k) ==
    /\ In(u) /\ passkey[k] = u
    /\ passkey' = [passkey EXCEPT ![k] = None]
    /\ Edit
    /\ UNCHANGED <<signing, challenge, answered, session>>

-----------------------------------------------------------------------------
Provider ==
    \/ \E b \in Browsers, i \in Invites \cup {None} : login_oidc(b, i)
    \/ \E b \in Browsers, u \in Users : profile_oidc_link(b, u)
    \/ \E b \in Browsers, a \in Attempts, s \in Subjects : login_oidc_callback(b, a, s)
    \/ \E c \in callbacks : Refused(c) \/ \E sid \in {None, c.subject} : CalledBack(c, sid)
    \/ \E s \in Subjects, sid \in Subjects \cup {None} : oidc_backchannel_logout(sid, s)

Invitation ==
    \E i \in Invites : Withdraw(i) \/ Expire(i) \/ \E u \in Users : TakenElsewhere(i, u)

AccountPage == \E u \in Users :
    \/ PasswordSignIn(u) \/ SetPassword(u) \/ Toggle(u)
    \/ \E s \in Subjects : profile_oidc_unlink(u, s)
    \/ \E k \in Passkeys : passkeys_remove(u, k)

Ceremony ==
    \/ \E u \in Users : registration_options(u)
    \/ authentication_options
    \/ \E c \in Challenges, k \in Passkeys, ok \in BOOLEAN :
          login_passkey(c, k, ok) \/ \E u \in Users : passkeys_register(u, c, k, ok)

Next == Provider \/ Invitation \/ AccountPage \/ Ceremony \/ Age
    \/ purge_oidc_states \/ purge_passkey_challenges

Spec == Init /\ [][Next]_vars

-----------------------------------------------------------------------------
(* Properties. *)

\* Every table keeps its shape, and an identity is of an account that exists.
TypeOK ==
    /\ account \in [Users -> User]
    /\ identity \in [Subjects -> Users \cup {None}]
    /\ passkey \in [Passkeys -> Users \cup {None}]
    /\ \A s \in Subjects : identity[s] # None => account[identity[s]].made
    /\ invite \in [Invites -> {"live", "expired", "used", "withdrawn"}]
    /\ attempt \in [Attempts -> OidcState \cup {None}]
    /\ cookie \in [Browsers -> Attempts \cup {None}]
    /\ callbacks \subseteq Callback
    /\ session \in [Tokens -> UserSession \cup {None}]
    /\ challenge \in [Challenges -> WebauthnChallenge \cup {None}]
    /\ answered \in [Challenges -> Nat]

\* However identities are linked and unlinked, callbacks overlap, are refused or come
\* back late: every account has a password or an identity to sign in with.
WayIn == \A u \in Users :
    account[u].made => account[u].password \/ \E s \in Subjects : identity[s] = u

\* What is good once is used once: where strangers need an invitation, a callback makes
\* an account only for one that was still good when it was accepted; an invitation lets
\* in one person, whatever happened to it while the browser was at the provider; and a
\* challenge is accepted once, to register or to sign in.
OnceEach ==
    /\ Provisioning = "invite" => \A r \in letIn : r.held # None
    /\ \A i \in Invites : taken[i] <= 1 /\ (invite[i] = "withdrawn" => taken[i] = 0)
    /\ \A c \in Challenges : answered[c] <= 1

\* What the callback's own comment says of an attempt of the profile page: it attaches,
\* and does not sign in.
LinkOnlyAttaches ==
    [][\A c \in callbacks \ callbacks' : c.link # None => session' = session]_vars
=============================================================================
