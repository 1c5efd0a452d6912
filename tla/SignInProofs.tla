----------------------------- MODULE SignInProofs -----------------------------
(***************************************************************************)
(* Proofs about SignIn, for any people, provider accounts, invitations,    *)
(* browsers and authenticators: the shape of every table, that an account  *)
(* keeps a way in, and that what is good once is used once.                *)
(***************************************************************************)
EXTENDS SignIn, TLAPS

-----------------------------------------------------------------------------
(***************************************************************************)
(* The inductive invariant.                                                *)
(***************************************************************************)
Counts == [attempts : 0 .. MaxAttempts, challenges : 0 .. MaxChallenges,
           sessions : 0 .. MaxSessions, edits : 0 .. MaxEdits]

TypeInv == TypeOK /\ count \in Counts

\* Who acts, and whom an attempt of the profile page is for, has an account.
MadeOK ==
    /\ \A u \in Users : account[u].active => account[u].made
    /\ \A a \in Attempts : attempt[a] # None /\ attempt[a].link # None =>
          account[attempt[a].link].made
    /\ \A c \in callbacks : c.link # None => account[c.link].made

\* An invitation that has let somebody in is used, and never withdrawn.
InvitesOK ==
    /\ taken \in [Invites -> 0 .. 1]
    /\ \A i \in Invites : taken[i] = 1 => invite[i] = "used"

LetInOK == Provisioning = "invite" => \A r \in letIn : r.held # None

\* A challenge that is still there, or was never issued, has not been accepted.
ChallengeOK(c) ==
    /\ answered[c] \in 0 .. 1
    /\ challenge[c] # None => answered[c] = 0
    /\ c > count.challenges => challenge[c] = None /\ answered[c] = 0

ChallengesOK == \A c \in Challenges : ChallengeOK(c)

IInv == TypeInv /\ MadeOK /\ WayIn /\ InvitesOK /\ LetInOK /\ ChallengesOK

LEMMA InitIInv == Init => IInv
<1> SUFFICES ASSUME Init PROVE IInv
  OBVIOUS
<1> USE SignInAssumption
<1>1. TypeInv
  <2>1. account \in [Users -> User]
    BY DEF Init, User
  <2>2. count \in Counts
    BY DEF Init, Counts
  <2>3. /\ identity \in [Subjects -> Users \cup {None}]
        /\ passkey \in [Passkeys -> Users \cup {None}]
        /\ \A s \in Subjects : identity[s] # None => account[identity[s]].made
        /\ invite \in [Invites -> {"live", "expired", "used", "withdrawn"}]
        /\ attempt \in [Attempts -> OidcState \cup {None}]
        /\ cookie \in [Browsers -> Attempts \cup {None}]
        /\ callbacks \subseteq Callback
        /\ session \in [Tokens -> UserSession \cup {None}]
        /\ challenge \in [Challenges -> WebauthnChallenge \cup {None}]
        /\ answered \in [Challenges -> Nat]
    BY DEF Init
  <2> QED
    BY <2>1, <2>2, <2>3 DEF TypeInv, TypeOK
<1>2. MadeOK /\ WayIn
  BY DEF Init, MadeOK, WayIn
<1>3. InvitesOK
  BY DEF Init, InvitesOK
<1>5. LetInOK
  BY DEF Init, LetInOK
<1>4. ChallengesOK
  BY DEF Init, ChallengesOK, ChallengeOK
<1> QED
  BY <1>1, <1>2, <1>3, <1>4, <1>5 DEF IInv

-----------------------------------------------------------------------------
(***************************************************************************)
(* The shape of every table.                                               *)
(***************************************************************************)
\* Accounts are never unmade, nor left without a password they had.
Grows ==
    \A u \in Users : /\ account[u].made => account'[u].made
                     /\ account[u].password => account'[u].password

LEMMA CountUp ==
    ASSUME count \in Counts
    PROVE  /\ count.attempts < MaxAttempts =>
                 [count EXCEPT !.attempts = @ + 1] \in Counts /\ count.attempts + 1 \in Attempts
           /\ count.challenges < MaxChallenges =>
                 /\ [count EXCEPT !.challenges = @ + 1] \in Counts
                 /\ count.challenges + 1 \in Challenges
           /\ count.sessions < MaxSessions =>
                 [count EXCEPT !.sessions = @ + 1] \in Counts /\ count.sessions + 1 \in Tokens
           /\ count.edits < MaxEdits => [count EXCEPT !.edits = @ + 1] \in Counts
BY SignInAssumption DEF Counts, Attempts, Challenges, Tokens

LEMMA SessionOpened ==
    ASSUME TypeInv, NEW u \in Users, NEW via \in BOOLEAN, NEW sid \in Subjects \cup {None},
           create_session(u, via, sid)
    PROVE  /\ session' \in [Tokens -> UserSession \cup {None}] /\ count' \in Counts
           /\ count'.challenges = count.challenges
<1>1. count.sessions < MaxSessions /\ count' = [count EXCEPT !.sessions = @ + 1]
  BY DEF create_session
<1>2. count' \in Counts /\ count'.sessions = count.sessions + 1 /\ count'.challenges = count.challenges
  BY <1>1, CountUp DEF TypeInv, Counts
<1>3. [user |-> u, via |-> via, sid |-> sid] \in UserSession
  BY DEF UserSession
<1> QED
  BY <1>1, <1>2, <1>3, CountUp DEF create_session, TypeInv, TypeOK

LEMMA WithoutSessionsOK ==
    ASSUME TypeInv, NEW u \in Users
    PROVE  WithoutSessions(u) \in [Tokens -> UserSession \cup {None}]
BY DEF WithoutSessions, TypeInv, TypeOK

LEMMA EditOK ==
    ASSUME TypeInv, Edit
    PROVE  count' \in Counts /\ count'.challenges = count.challenges
<1>1. count.edits < MaxEdits /\ count' = [count EXCEPT !.edits = @ + 1]
  BY DEF Edit
<1> QED
  BY <1>1, CountUp DEF TypeInv, Counts

\* Out to the provider.
LEMMA BeginTypeInv ==
    ASSUME TypeInv, NEW b \in Browsers, NEW i \in Invites \cup {None}, NEW link \in Users \cup {None},
           begin(b, i, link)
    PROVE  /\ TypeInv' /\ count'.challenges = count.challenges
           /\ \E a \in Attempts : attempt' = [attempt EXCEPT ![a] = [invite |-> i, link |-> link,
                                                                   old |-> FALSE]]
<1>1. /\ count.attempts < MaxAttempts /\ count' = [count EXCEPT !.attempts = @ + 1]
      /\ attempt' = [attempt EXCEPT ![count'.attempts] =
                        [invite |-> i, link |-> link, old |-> FALSE]]
      /\ cookie' = [cookie EXCEPT ![b] = count'.attempts]
      /\ UNCHANGED <<account, identity, invite, callbacks, letIn, taken, keyed, session>>
  BY DEF begin
<1>2. count' \in Counts /\ count.attempts + 1 \in Attempts
  BY <1>1, CountUp DEF TypeInv
<1>3. count'.attempts = count.attempts + 1 /\ count'.challenges = count.challenges
  BY <1>1 DEF TypeInv, Counts
<1>4. [invite |-> i, link |-> link, old |-> FALSE] \in OidcState
  BY DEF OidcState
<1>5. attempt' \in [Attempts -> OidcState \cup {None}] /\ cookie' \in [Browsers -> Attempts \cup {None}]
  BY <1>1, <1>2, <1>3, <1>4 DEF TypeInv, TypeOK
<1>6. UNCHANGED <<passkey, challenge, answered>>
  BY <1>1 DEF keyed
<1>7. TypeInv'
  BY <1>1, <1>2, <1>5, <1>6 DEF TypeInv, TypeOK
<1> QED
  BY <1>1, <1>2, <1>3, <1>7

LEMMA CallbackTypeInv ==
    ASSUME TypeInv, NEW b \in Browsers, NEW a \in Attempts, NEW s \in Subjects,
           login_oidc_callback(b, a, s)
    PROVE  TypeInv'
<1>1. /\ attempt[a] # None
      /\ callbacks' = callbacks \cup
             {[browser |-> b, attempt |-> a, held |-> Held(a), link |-> attempt[a].link,
               subject |-> s]}
      /\ UNCHANGED <<account, identity, invite, attempt, cookie, letIn, taken, keyed, session, count>>
  BY DEF login_oidc_callback, take_state
<1>2. attempt[a] \in OidcState
  BY <1>1 DEF TypeInv, TypeOK
<1>3. [browser |-> b, attempt |-> a, held |-> Held(a), link |-> attempt[a].link, subject |-> s]
         \in Callback
  BY <1>2 DEF OidcState, Callback, Held
<1> QED
  BY <1>1, <1>3 DEF TypeInv, TypeOK, keyed

\* Whose a subject is: an account's there is, or a new one's.
LEMMA ResolvedIs ==
    ASSUME TypeInv, MadeOK, NEW c \in callbacks, Resolved(c) # None
    PROVE  /\ Resolved(c) \in Users
           /\ identity[c.subject] \in {None, Resolved(c)}
           /\ ~account[Resolved(c)].made => Provisioned(c)
<1>1. c \in Callback /\ c.link \in Users \cup {None} /\ c.subject \in Subjects
  BY DEF TypeInv, TypeOK, Callback
<1>2. identity[c.subject] \in Users \cup {None} /\ EmailOf[c.subject] \in Users
  BY <1>1, SignInAssumption DEF TypeInv, TypeOK
<1>3. CASE c.link # None
  BY <1>1, <1>2, <1>3 DEF Resolved, MadeOK
<1>4. CASE c.link = None /\ identity[c.subject] # None
  BY <1>1, <1>2, <1>4 DEF Resolved, TypeInv, TypeOK
<1>5. CASE c.link = None /\ identity[c.subject] = None
  BY <1>1, <1>2, <1>5 DEF Resolved
<1> QED
  BY <1>3, <1>4, <1>5

\* The provider answered: the tables keep their shape.
LEMMA CalledBackTypeInv ==
    ASSUME TypeInv, MadeOK, NEW c \in callbacks, NEW sid \in {None, c.subject}, CalledBack(c, sid)
    PROVE  TypeInv' /\ count'.challenges = count.challenges
<1>1. PICK u \in Users : u = Resolved(c)
  BY ResolvedIs DEF CalledBack
<1>2. c \in Callback /\ c.subject \in Subjects /\ c.held \in Invites \cup {None}
  BY DEF TypeInv, TypeOK, Callback
<1>3. create_session(u, TRUE, sid) /\ sid \in Subjects \cup {None}
  BY <1>1, <1>2 DEF CalledBack
<1>4. session' \in [Tokens -> UserSession \cup {None}] /\ count' \in Counts
      /\ count'.challenges = count.challenges
  BY <1>3, SessionOpened
<1>5. [made |-> TRUE, active |-> TRUE, password |-> FALSE] \in User
  BY DEF User
<1>6. IF account[u].made THEN account' = account
      ELSE account' = [account EXCEPT ![u] = [made |-> TRUE, active |-> TRUE, password |-> FALSE]]
  BY <1>1 DEF CalledBack
<1>7. account' \in [Users -> User] /\ account'[u].made
      /\ \A v \in Users : account[v].made => account'[v].made
  <2>1. CASE account[u].made
    BY <1>6, <2>1 DEF TypeInv, TypeOK
  <2>2. CASE ~account[u].made
    <3>1. account' = [account EXCEPT ![u] = [made |-> TRUE, active |-> TRUE, password |-> FALSE]]
      BY <1>6, <2>2
    <3>2. account \in [Users -> User]
      BY DEF TypeInv, TypeOK
    <3>3. account' \in [Users -> User]
      BY <1>5, <3>1, <3>2
    <3>4. account'[u].made /\ \A v \in Users : account[v].made => account'[v].made
      BY <3>1, <3>2
    <3> QED
      BY <3>3, <3>4
  <2> QED
    BY <2>1, <2>2
<1>8. identity' = [identity EXCEPT ![c.subject] = u]
  BY <1>1 DEF CalledBack
<1>9. /\ identity' \in [Subjects -> Users \cup {None}]
      /\ \A s \in Subjects : identity'[s] # None => account'[identity'[s]].made
  BY <1>2, <1>7, <1>8 DEF TypeInv, TypeOK
<1>10. invite' \in [Invites -> {"live", "expired", "used", "withdrawn"}]
  BY <1>2 DEF CalledBack, TypeInv, TypeOK
<1>11. /\ attempt' = [attempt EXCEPT ![c.attempt] = None]
       /\ cookie' = [cookie EXCEPT ![c.browser] = None]
       /\ callbacks' = callbacks \ {c}
       /\ UNCHANGED <<passkey, challenge, answered>>
  BY DEF CalledBack, keyed
<1>12. /\ attempt' \in [Attempts -> OidcState \cup {None}]
       /\ cookie' \in [Browsers -> Attempts \cup {None}]
       /\ callbacks' \subseteq Callback
  BY <1>11 DEF TypeInv, TypeOK
<1> QED
  BY <1>4, <1>7, <1>9, <1>10, <1>11, <1>12 DEF TypeInv, TypeOK

LEMMA AgeTypeInv ==
    ASSUME TypeInv, Age
    PROVE  TypeInv'
<1>1. UNCHANGED <<account, identity, invite, cookie, callbacks, passkey, answered, session, count>>
  BY DEF Age
<1>2. attempt' \in [Attempts -> OidcState \cup {None}]
  <2>1. \A a \in Attempts : attempt[a] # None =>
           [attempt[a] EXCEPT !.old = TRUE] \in OidcState
    BY DEF TypeInv, TypeOK, OidcState
  <2> QED
    BY <2>1 DEF Age, TypeInv, TypeOK
<1>3. challenge' \in [Challenges -> WebauthnChallenge \cup {None}]
  <2>1. \A c \in Challenges : challenge[c] # None =>
           [challenge[c] EXCEPT !.old = TRUE] \in WebauthnChallenge
    BY DEF TypeInv, TypeOK, WebauthnChallenge
  <2> QED
    BY <2>1 DEF Age, TypeInv, TypeOK
<1> QED
  BY <1>1, <1>2, <1>3 DEF TypeInv, TypeOK

LEMMA PurgesTypeInv ==
    ASSUME TypeInv, purge_oidc_states \/ purge_passkey_challenges
    PROVE  TypeInv'
<1>1. CASE purge_oidc_states
  BY <1>1 DEF purge_oidc_states, Fresh, TypeInv, TypeOK, keyed
<1>2. CASE purge_passkey_challenges
  BY <1>2 DEF purge_passkey_challenges, Fresh, TypeInv, TypeOK, signing
<1> QED
  BY <1>1, <1>2

LEMMA InvitationTypeInv ==
    ASSUME TypeInv, Invitation
    PROVE  TypeInv'
<1>1. PICK i \in Invites : Withdraw(i) \/ Expire(i) \/ \E u \in Users : TakenElsewhere(i, u)
  BY DEF Invitation
<1>2. CASE Withdraw(i)
  BY <1>2 DEF Withdraw, TypeInv, TypeOK, keyed
<1>3. CASE Expire(i)
  BY <1>3 DEF Expire, TypeInv, TypeOK, keyed
<1>4. CASE \E u \in Users : TakenElsewhere(i, u)
  <2>1. PICK u \in Users : TakenElsewhere(i, u)
    BY <1>4
  <2>2. [made |-> TRUE, active |-> TRUE, password |-> TRUE] \in User
    BY DEF User
  <2>3. account' = IF account[u].made THEN account
                   ELSE [account EXCEPT ![u] = [made |-> TRUE, active |-> TRUE,
                                                password |-> TRUE]]
    BY <2>1 DEF TakenElsewhere
  <2>4. account' \in [Users -> User] /\ \A v \in Users : account[v].made => account'[v].made
    BY <2>2, <2>3 DEF TypeInv, TypeOK
  <2> QED
    BY <2>1, <2>4 DEF TakenElsewhere, TypeInv, TypeOK, keyed
<1> QED
  BY <1>1, <1>2, <1>3, <1>4

\* The account page, of one account.
PageOf(u) ==
    \/ PasswordSignIn(u) \/ SetPassword(u) \/ Toggle(u)
    \/ \E s \in Subjects : profile_oidc_unlink(u, s)
    \/ \E k \in Passkeys : passkeys_remove(u, k)

LEMMA PageTypeInv ==
    ASSUME TypeInv, NEW u \in Users, PageOf(u)
    PROVE  TypeInv' /\ count'.challenges = count.challenges
<1>1. CASE PasswordSignIn(u)
  <2>1. create_session(u, FALSE, None)
    BY <1>1 DEF PasswordSignIn
  <2>2. session' \in [Tokens -> UserSession \cup {None}] /\ count' \in Counts
        /\ count'.challenges = count.challenges
    BY <2>1, SessionOpened
  <2> QED
    BY <1>1, <2>2 DEF PasswordSignIn, TypeInv, TypeOK, signing, keyed
<1>2. CASE SetPassword(u)
  <2>1. count' \in Counts /\ count'.challenges = count.challenges
    BY <1>2, EditOK DEF SetPassword
  <2>2. account' = [account EXCEPT ![u].password = TRUE] /\ session' = WithoutSessions(u)
        /\ UNCHANGED <<identity, invite, attempt, cookie, callbacks, letIn, taken, keyed>>
    BY <1>2 DEF SetPassword
  <2>5. account \in [Users -> User]
    BY DEF TypeInv, TypeOK
  <2>6. account[u] \in User
    BY <2>5
  <2>7. [account[u] EXCEPT !.password = TRUE] \in User
    BY <2>6 DEF User
  <2>3. account \in [Users -> User] /\ [account[u] EXCEPT !.password = TRUE] \in User
    BY <2>5, <2>7
  <2>4. account' \in [Users -> User] /\ \A v \in Users : account'[v].made = account[v].made
    BY <2>2, <2>3 DEF User
  <2> QED
    BY <2>1, <2>2, <2>4, WithoutSessionsOK DEF TypeInv, TypeOK, keyed
<1>3. CASE Toggle(u)
  <2>1. count' \in Counts /\ count'.challenges = count.challenges
    BY <1>3, EditOK DEF Toggle
  <2>2. account' = [account EXCEPT ![u].active = ~@]
        /\ session' \in {session, WithoutSessions(u)}
        /\ UNCHANGED <<identity, invite, attempt, cookie, callbacks, letIn, taken, keyed>>
    BY <1>3 DEF Toggle
  <2>3. account \in [Users -> User] /\ [account[u] EXCEPT !.active = ~@] \in User
    BY DEF TypeInv, TypeOK, User
  <2>4. account' \in [Users -> User] /\ \A v \in Users : account'[v].made = account[v].made
    BY <2>2, <2>3 DEF User
  <2> QED
    BY <2>1, <2>2, <2>4, WithoutSessionsOK DEF TypeInv, TypeOK, keyed
<1>4. CASE \E s \in Subjects : profile_oidc_unlink(u, s)
  <2>1. PICK s \in Subjects : profile_oidc_unlink(u, s)
    BY <1>4
  <2>2. count' \in Counts /\ count'.challenges = count.challenges
    BY <2>1, EditOK DEF profile_oidc_unlink
  <2> QED
    BY <2>1, <2>2 DEF profile_oidc_unlink, TypeInv, TypeOK, keyed
<1>5. CASE \E k \in Passkeys : passkeys_remove(u, k)
  <2>1. PICK k \in Passkeys : passkeys_remove(u, k)
    BY <1>5
  <2>2. count' \in Counts /\ count'.challenges = count.challenges
    BY <2>1, EditOK DEF passkeys_remove
  <2> QED
    BY <2>1, <2>2 DEF passkeys_remove, TypeInv, TypeOK, signing
<1> QED
  BY <1>1, <1>2, <1>3, <1>4, <1>5 DEF PageOf

\* A challenge is issued.
LEMMA IssueTypeInv ==
    ASSUME TypeInv, NEW u \in Users \cup {None}, issue_challenge(u)
    PROVE  TypeInv'
<1>1. /\ count.challenges < MaxChallenges
      /\ count' = [count EXCEPT !.challenges = @ + 1]
      /\ challenge' = [challenge EXCEPT ![count'.challenges] = [user |-> u, old |-> FALSE]]
      /\ UNCHANGED <<account, identity, invite, attempt, cookie, callbacks, passkey, answered,
                     session>>
  BY DEF issue_challenge, signing
<1>2. [user |-> u, old |-> FALSE] \in WebauthnChallenge
  BY DEF WebauthnChallenge
<1>3. count' \in Counts
  BY <1>1, CountUp DEF TypeInv
<1>4. challenge' \in [Challenges -> WebauthnChallenge \cup {None}]
  BY <1>1, <1>2 DEF TypeInv, TypeOK
<1> QED
  BY <1>1, <1>3, <1>4 DEF TypeInv, TypeOK

\* And answered.
LEMMA AnswerTypeInv ==
    ASSUME TypeInv, NEW c \in Challenges, NEW ok \in BOOLEAN, Answer(c, ok)
    PROVE  /\ challenge' \in [Challenges -> WebauthnChallenge \cup {None}]
           /\ answered' \in [Challenges -> Nat]
BY DEF Answer, take_challenge, TypeInv, TypeOK

LEMMA CeremonyTypeInv ==
    ASSUME TypeInv, Ceremony
    PROVE  TypeInv'
<1>1. CASE \E u \in Users \cup {None} : issue_challenge(u)
  BY <1>1, IssueTypeInv
<1>2. ASSUME NEW c \in Challenges, NEW k \in Passkeys, NEW ok \in BOOLEAN, NEW u \in Users,
             passkeys_register(u, c, k, ok)
      PROVE  TypeInv'
  <2>1. /\ challenge' \in [Challenges -> WebauthnChallenge \cup {None}]
        /\ answered' \in [Challenges -> Nat]
    BY <1>2, AnswerTypeInv DEF passkeys_register
  <2>2. passkey' \in [Passkeys -> Users \cup {None}]
    BY <1>2 DEF passkeys_register, TypeInv, TypeOK
  <2> QED
    BY <1>2, <2>1, <2>2 DEF passkeys_register, Answer, signing, TypeInv, TypeOK
<1>3. ASSUME NEW c \in Challenges, NEW k \in Passkeys, NEW ok \in BOOLEAN, login_passkey(c, k, ok)
      PROVE  TypeInv'
  <2>1. /\ challenge' \in [Challenges -> WebauthnChallenge \cup {None}]
        /\ answered' \in [Challenges -> Nat]
    BY <1>3, AnswerTypeInv DEF login_passkey
  <2>2. session' \in [Tokens -> UserSession \cup {None}] /\ count' \in Counts
    <3>1. CASE ok
      <4>1. passkey[k] \in Users
        BY <1>3, <3>1 DEF login_passkey, TypeInv, TypeOK
      <4>2. create_session(passkey[k], FALSE, None)
        BY <1>3, <3>1 DEF login_passkey
      <4> QED
        BY <4>1, <4>2, SessionOpened
    <3>2. CASE ~ok
      BY <1>3, <3>2 DEF login_passkey, TypeInv, TypeOK
    <3> QED
      BY <3>1, <3>2
  <2> QED
    BY <1>3, <2>1, <2>2 DEF login_passkey, Answer, signing, TypeInv, TypeOK
<1> QED
  BY <1>1, <1>2, <1>3 DEF Ceremony, registration_options, authentication_options

LEMMA ProviderTypeInv ==
    ASSUME TypeInv, MadeOK, Provider
    PROVE  TypeInv'
<1>1. CASE \E b \in Browsers, i \in Invites \cup {None}, u \in Users \cup {None} : begin(b, i, u)
  BY <1>1, BeginTypeInv
<1>2. CASE \E b \in Browsers, a \in Attempts, s \in Subjects : login_oidc_callback(b, a, s)
  BY <1>2, CallbackTypeInv
<1>3. CASE \E c \in callbacks : Refused(c)
  BY <1>3 DEF Refused, TypeInv, TypeOK, keyed
<1>4. CASE \E c \in callbacks : \E sid \in {None, c.subject} : CalledBack(c, sid)
  BY <1>4, CalledBackTypeInv
<1>5. CASE \E s \in Subjects, sid \in Subjects \cup {None} : oidc_backchannel_logout(sid, s)
  BY <1>5 DEF oidc_backchannel_logout, TypeInv, TypeOK, signing, keyed
<1>6. CASE \E b \in Browsers, i \in Invites \cup {None} : login_oidc(b, i)
  BY <1>1, <1>6 DEF login_oidc
<1>7. CASE \E b \in Browsers, u \in Users : profile_oidc_link(b, u)
  BY <1>1, <1>7 DEF profile_oidc_link
<1> QED
  BY <1>2, <1>3, <1>4, <1>5, <1>6, <1>7 DEF Provider

LEMMA NextTypeInv ==
    ASSUME TypeInv, MadeOK, Next
    PROVE  TypeInv'
<1>1. CASE AccountPage
  <2>1. PICK u \in Users : PageOf(u)
    BY <1>1, Zenon DEF AccountPage, PageOf
  <2> QED
    BY <2>1, PageTypeInv
<1> QED
  BY <1>1, ProviderTypeInv, InvitationTypeInv, CeremonyTypeInv, AgeTypeInv, PurgesTypeInv
  DEF Next

-----------------------------------------------------------------------------
(***************************************************************************)
(* Which steps touch what.                                                 *)
(***************************************************************************)
AnsweredBack == \E c \in callbacks : \E sid \in {None, c.subject} : CalledBack(c, sid)

\* A passkey's ceremony touches nothing a provider's sign-in uses.
LEMMA CeremonySteps ==
    ASSUME Ceremony
    PROVE  UNCHANGED signing
<1>1. CASE \E u \in Users : registration_options(u)
  BY <1>1 DEF registration_options, issue_challenge
<1>2. CASE authentication_options
  BY <1>2 DEF authentication_options, issue_challenge
<1>3. CASE \E c \in Challenges, k \in Passkeys, ok \in BOOLEAN : login_passkey(c, k, ok)
  BY <1>3, Zenon DEF login_passkey, Answer
<1>4. CASE \E c \in Challenges, k \in Passkeys, ok \in BOOLEAN, u \in Users :
              passkeys_register(u, c, k, ok)
  BY <1>4, Zenon DEF passkeys_register, Answer
<1> QED
  BY <1>1, <1>2, <1>3, <1>4, Zenon DEF Ceremony

\* Accounts and identities.
LEMMA AccountSteps ==
    ASSUME Next
    PROVE  \/ UNCHANGED <<account, identity>>
           \/ AnsweredBack
           \/ \E i \in Invites, u \in Users : TakenElsewhere(i, u)
           \/ \E u \in Users : SetPassword(u) \/ Toggle(u)
                  \/ \E s \in Subjects : profile_oidc_unlink(u, s)
<1>1. CASE Provider
  BY <1>1 DEF Provider, login_oidc, profile_oidc_link, begin, login_oidc_callback, Refused,
     oidc_backchannel_logout, signing, AnsweredBack
<1>2. CASE Invitation
  BY <1>2 DEF Invitation, Withdraw, Expire
<1>3. CASE AccountPage
  BY <1>3 DEF AccountPage, PasswordSignIn, passkeys_remove, signing
<1>4. CASE Ceremony
  BY <1>4, CeremonySteps DEF signing
<1>5. CASE Age
  BY <1>5 DEF Age
<1>6. CASE purge_oidc_states \/ purge_passkey_challenges
  BY <1>6 DEF purge_oidc_states, purge_passkey_challenges, signing
<1> QED
  BY <1>1, <1>2, <1>3, <1>4, <1>5, <1>6 DEF Next

\* Attempts and callbacks.
LEMMA AttemptSteps ==
    ASSUME TypeInv, Next
    PROVE  \/ UNCHANGED <<attempt, callbacks>>
           \/ \E b \in Browsers, i \in Invites \cup {None} : begin(b, i, None)
           \/ \E b \in Browsers, u \in Users : In(u) /\ begin(b, None, u)
           \/ \E b \in Browsers, a \in Attempts, s \in Subjects : login_oidc_callback(b, a, s)
           \/ \E c \in callbacks : Refused(c)
           \/ AnsweredBack
           \/ Age \/ purge_oidc_states
<1>1. CASE Provider
  BY <1>1 DEF Provider, login_oidc, profile_oidc_link, oidc_backchannel_logout, signing,
     AnsweredBack
<1>2. CASE Invitation
  BY <1>2 DEF Invitation, Withdraw, Expire, TakenElsewhere
<1>3. CASE AccountPage
  BY <1>3 DEF AccountPage, PasswordSignIn, passkeys_remove, SetPassword, Toggle,
     profile_oidc_unlink, signing
<1>4. CASE Ceremony
  BY <1>4, CeremonySteps DEF signing
<1>5. CASE purge_passkey_challenges
  BY <1>5 DEF purge_passkey_challenges, signing
<1> QED
  BY <1>1, <1>2, <1>3, <1>4, <1>5 DEF Next

\* Invitations, and whom they let in.
LEMMA InviteSteps ==
    ASSUME Next
    PROVE  \/ UNCHANGED <<invite, taken, letIn>>
           \/ AnsweredBack
           \/ \E i \in Invites : Withdraw(i) \/ Expire(i) \/ \E u \in Users : TakenElsewhere(i, u)
<1>1. CASE Provider
  BY <1>1 DEF Provider, login_oidc, profile_oidc_link, begin, login_oidc_callback, Refused,
     oidc_backchannel_logout, signing, AnsweredBack
<1>2. CASE AccountPage
  BY <1>2 DEF AccountPage, PasswordSignIn, passkeys_remove, SetPassword, Toggle,
     profile_oidc_unlink, signing
<1>3. CASE Ceremony
  BY <1>3, CeremonySteps DEF signing
<1>4. CASE Age
  BY <1>4 DEF Age
<1>5. CASE purge_oidc_states \/ purge_passkey_challenges
  BY <1>5 DEF purge_oidc_states, purge_passkey_challenges, signing
<1> QED
  BY <1>1, <1>2, <1>3, <1>4, <1>5 DEF Next, Invitation

-----------------------------------------------------------------------------
(***************************************************************************)
(* A way in.                                                               *)
(***************************************************************************)
\* What a callback that is accepted does to accounts and identities.
LEMMA CalledBackIs ==
    ASSUME TypeInv, MadeOK, AnsweredBack
    PROVE  \E c \in callbacks, u \in Users :
              /\ u = Resolved(c) /\ identity[c.subject] \in {None, u}
              /\ identity' = [identity EXCEPT ![c.subject] = u]
              /\ IF account[u].made THEN account' = account /\ letIn' = letIn
                 ELSE /\ account' = [account EXCEPT ![u] = [made |-> TRUE, active |-> TRUE,
                                                            password |-> FALSE]]
                      /\ letIn' = letIn \cup {[user |-> u, held |-> c.held]}
                      /\ Provisioned(c)
              /\ Claimed(c.held)
              /\ IF c.held = None THEN invite' = invite /\ taken' = taken
                 ELSE /\ invite' = [invite EXCEPT ![c.held] = "used"]
                      /\ taken' = [taken EXCEPT ![c.held] = @ + 1]
              /\ attempt' = [attempt EXCEPT ![c.attempt] = None]
              /\ callbacks' = callbacks \ {c}
<1>1. PICK c \in callbacks : \E sid \in {None, c.subject} : CalledBack(c, sid)
  BY DEF AnsweredBack
<1>2. PICK sid \in {None, c.subject} : CalledBack(c, sid)
  BY <1>1
<1>3. PICK u \in Users : u = Resolved(c)
  BY <1>2, ResolvedIs DEF CalledBack
<1>4. u # None
  BY SignInAssumption
<1>5. identity[c.subject] \in {None, u} /\ (~account[u].made => Provisioned(c))
  BY <1>3, <1>4, ResolvedIs
<1>6. /\ identity' = [identity EXCEPT ![c.subject] = u]
      /\ Claimed(c.held)
      /\ attempt' = [attempt EXCEPT ![c.attempt] = None]
      /\ callbacks' = callbacks \ {c}
  BY <1>2, <1>3 DEF CalledBack
<1>7. IF account[u].made THEN account' = account /\ letIn' = letIn
      ELSE /\ account' = [account EXCEPT ![u] = [made |-> TRUE, active |-> TRUE,
                                                 password |-> FALSE]]
           /\ letIn' = letIn \cup {[user |-> u, held |-> c.held]}
           /\ Provisioned(c)
  BY <1>2, <1>3, <1>5 DEF CalledBack
<1>8. IF c.held = None THEN invite' = invite /\ taken' = taken
      ELSE /\ invite' = [invite EXCEPT ![c.held] = "used"]
           /\ taken' = [taken EXCEPT ![c.held] = @ + 1]
  BY <1>2 DEF CalledBack
<1> QED
  BY <1>3, <1>5, <1>6, <1>7, <1>8

LEMMA NextWayIn ==
    ASSUME TypeInv, MadeOK, WayIn, Next
    PROVE  /\ WayIn'
           /\ \A u \in Users : (account[u].made => account'[u].made)
                               /\ (account'[u].active => account'[u].made)
<1> DEFINE Kept == \A u \in Users : (account[u].made => account'[u].made)
                                    /\ (account'[u].active => account'[u].made)
<1>0. /\ account \in [Users -> User] /\ identity \in [Subjects -> Users \cup {None}]
      /\ \A u \in Users : account[u].active => account[u].made
      /\ \A u \in Users : account[u].made =>
            account[u].password \/ \E s \in Subjects : identity[s] = u
  BY DEF TypeInv, TypeOK, MadeOK, WayIn
<1>1. CASE UNCHANGED <<account, identity>>
  BY <1>0, <1>1 DEF WayIn
<1>2. CASE AnsweredBack
  <2>1. PICK c \in callbacks, u \in Users :
           /\ identity[c.subject] \in {None, u}
           /\ identity' = [identity EXCEPT ![c.subject] = u]
           /\ \/ account' = account
              \/ account' = [account EXCEPT ![u] = [made |-> TRUE, active |-> TRUE,
                                                    password |-> FALSE]]
    BY <1>2, CalledBackIs
  <2>2. c.subject \in Subjects
    BY DEF TypeInv, TypeOK, Callback
  <2>3. \A v \in Users, s \in Subjects : identity[s] = v => identity'[s] = v
    BY <1>0, <2>1, <2>2, SignInAssumption
  <2>4. identity'[c.subject] = u
    BY <1>0, <2>1, <2>2
  <2>5. \A v \in Users : v # u => account'[v] = account[v]
    BY <1>0, <2>1
  <2>6. account'[u] = account[u] \/ (account'[u].made /\ account'[u].active)
    BY <1>0, <2>1
  <2>7. Kept
    BY <1>0, <2>5, <2>6
  <2>8. WayIn'
    <3>1. ASSUME NEW v \in Users, account'[v].made
          PROVE  account'[v].password \/ \E s \in Subjects : identity'[s] = v
      <4>1. CASE v = u
        BY <2>2, <2>4, <4>1
      <4>2. CASE v # u
        BY <1>0, <2>3, <2>5, <3>1, <4>2
      <4> QED
        BY <4>1, <4>2
    <3> QED
      BY <3>1 DEF WayIn
  <2> QED
    BY <2>7, <2>8
<1>3. CASE \E i \in Invites, u \in Users : TakenElsewhere(i, u)
  <2>1. PICK i \in Invites, u \in Users : TakenElsewhere(i, u)
    BY <1>3
  <2>2. /\ account' = IF account[u].made THEN account
                      ELSE [account EXCEPT ![u] = [made |-> TRUE, active |-> TRUE,
                                                   password |-> TRUE]]
        /\ identity' = identity
    BY <2>1 DEF TakenElsewhere
  <2>3. CASE account[u].made
    BY <1>0, <2>2, <2>3 DEF WayIn
  <2>4. CASE ~account[u].made
    <3>1. \A v \in Users : v # u => account'[v] = account[v]
      BY <1>0, <2>2, <2>4
    <3>2. account'[u].made /\ account'[u].password
      BY <1>0, <2>2, <2>4
    <3> QED
      BY <1>0, <2>2, <3>1, <3>2 DEF WayIn
  <2> QED
    BY <2>3, <2>4
<1>4. ASSUME NEW u \in Users, SetPassword(u)
      PROVE  Kept /\ WayIn'
  <2>1. account[u].made /\ account' = [account EXCEPT ![u].password = TRUE] /\ identity' = identity
    BY <1>4 DEF SetPassword
  <2>2. \A v \in Users : v # u => account'[v] = account[v]
    BY <1>0, <2>1
  <2>3. account'[u].made /\ account'[u].password
    BY <1>0, <2>1 DEF User
  <2> QED
    BY <1>0, <2>1, <2>2, <2>3 DEF WayIn
<1>5. ASSUME NEW u \in Users, Toggle(u)
      PROVE  Kept /\ WayIn'
  <2>1. account[u].made /\ account' = [account EXCEPT ![u].active = ~@] /\ identity' = identity
    BY <1>5 DEF Toggle
  <2>2. \A v \in Users : v # u => account'[v] = account[v]
    BY <1>0, <2>1
  <2>3. account'[u].made = account[u].made /\ account'[u].password = account[u].password
    BY <1>0, <2>1 DEF User
  <2> QED
    BY <1>0, <2>1, <2>2, <2>3 DEF WayIn
<1>6. ASSUME NEW u \in Users, NEW s \in Subjects, profile_oidc_unlink(u, s)
      PROVE  Kept /\ WayIn'
  <2>1. /\ identity[s] = u /\ ~OnlyWayIn(u, s) /\ account' = account
        /\ identity' = [identity EXCEPT ![s] = None]
    BY <1>6 DEF profile_oidc_unlink
  <2>2. ASSUME NEW v \in Users, account[v].made
        PROVE  account[v].password \/ \E r \in Subjects : identity'[r] = v
    <3>1. CASE v = u
      BY <1>0, <2>1, <2>2, <3>1 DEF OnlyWayIn
    <3>2. CASE v # u
      BY <1>0, <2>1, <2>2, <3>2
    <3> QED
      BY <3>1, <3>2
  <2> QED
    BY <1>0, <2>1, <2>2 DEF WayIn
<1> QED
  BY <1>1, <1>2, <1>3, <1>4, <1>5, <1>6, AccountSteps

LEMMA NextMadeOK ==
    ASSUME TypeInv, MadeOK, WayIn, Next
    PROVE  MadeOK'
<1>1. \A u \in Users : (account[u].made => account'[u].made)
                       /\ (account'[u].active => account'[u].made)
  BY NextWayIn
<1>2. /\ attempt \in [Attempts -> OidcState \cup {None}] /\ callbacks \subseteq Callback
      /\ \A a \in Attempts : attempt[a] # None /\ attempt[a].link # None =>
            account[attempt[a].link].made
      /\ \A c \in callbacks : c.link # None => account[c.link].made
      /\ \A u \in Users : account[u].active => account[u].made
      /\ \A a \in Attempts : attempt[a] # None =>
            attempt[a] \in OidcState /\ attempt[a].link \in Users \cup {None}
      /\ \A c \in callbacks : c.link \in Users \cup {None}
  BY DEF TypeInv, TypeOK, MadeOK, OidcState, Callback
\* An attempt there was, or one whose link has an account.
<1> DEFINE Bound(x) == x # None /\ x.link # None => x.link \in Users /\ account'[x.link].made
<1>3. \A a \in Attempts : Bound(attempt[a])
  BY <1>1, <1>2
<1>4. (\A a \in Attempts : Bound(attempt'[a])) /\ (\A c \in callbacks' : c.link # None => account'[c.link].made)
  <2>1. CASE UNCHANGED <<attempt, callbacks>>
    BY <1>1, <1>2, <1>3, <2>1
  <2>2. ASSUME NEW b \in Browsers, NEW i \in Invites \cup {None}, NEW u \in Users \cup {None},
               u = None \/ In(u), begin(b, i, u)
        PROVE  (\A a \in Attempts : Bound(attempt'[a])) /\ (\A c \in callbacks' : c.link # None => account'[c.link].made)
    <3>1. PICK a \in Attempts : attempt' = [attempt EXCEPT ![a] = [invite |-> i, link |-> u,
                                                                 old |-> FALSE]]
      BY <2>2, BeginTypeInv
    <3>2. u # None => u \in Users /\ account'[u].made
      BY <1>1, <1>2, <2>2 DEF In
    <3>3. callbacks' = callbacks
      BY <2>2 DEF begin
    <3> QED
      BY <1>1, <1>2, <1>3, <3>1, <3>2, <3>3
  <2>3. CASE \E b \in Browsers, a \in Attempts, s \in Subjects : login_oidc_callback(b, a, s)
    <3>1. PICK b \in Browsers, a \in Attempts, s \in Subjects : login_oidc_callback(b, a, s)
      BY <2>3
    <3>2. /\ attempt[a] # None /\ attempt' = attempt
          /\ callbacks' = callbacks \cup
                {[browser |-> b, attempt |-> a, held |-> Held(a), link |-> attempt[a].link,
                  subject |-> s]}
      BY <3>1 DEF login_oidc_callback, take_state
    <3>3. Bound(attempt[a])
      BY <1>3
    <3> QED
      BY <1>1, <1>2, <1>3, <3>2, <3>3
  <2>4. CASE \E c \in callbacks : Refused(c)
    <3>1. attempt' = attempt /\ callbacks' \subseteq callbacks
      BY <2>4 DEF Refused
    <3> QED
      BY <1>1, <1>2, <1>3, <3>1
  <2>5. CASE AnsweredBack
    <3>1. PICK c \in callbacks : /\ attempt' = [attempt EXCEPT ![c.attempt] = None]
                                 /\ callbacks' = callbacks \ {c}
      BY <2>5, CalledBackIs
    <3> QED
      BY <1>1, <1>2, <1>3, <3>1
  <2>6. CASE Age
    <3>1. \A a \in Attempts : attempt'[a] # None => attempt[a] # None /\ attempt'[a].link = attempt[a].link
      BY <1>2, <2>6 DEF Age, OidcState
    <3>2. callbacks' = callbacks
      BY <2>6 DEF Age
    <3> QED
      BY <1>1, <1>2, <1>3, <3>1, <3>2
  <2>7. CASE purge_oidc_states
    <3>1. \A a \in Attempts : attempt'[a] \in {None, attempt[a]}
      BY <1>2, <2>7 DEF purge_oidc_states, Fresh
    <3>2. callbacks' = callbacks
      BY <2>7 DEF purge_oidc_states
    <3> QED
      BY <1>1, <1>2, <1>3, <3>1, <3>2
  <2> QED
    BY <2>1, <2>2, <2>3, <2>4, <2>5, <2>6, <2>7, AttemptSteps
<1> QED
  BY <1>1, <1>4 DEF MadeOK

-----------------------------------------------------------------------------
(***************************************************************************)
(* Invitations.                                                            *)
(***************************************************************************)
\* An invitation is taken by one who finds it live or just expired, and is used from then on.
LEMMA TakenOnce ==
    ASSUME TypeInv, InvitesOK, NEW i \in Invites, invite[i] \in {"live", "expired"},
           invite' = [invite EXCEPT ![i] = "used"], taken' = [taken EXCEPT ![i] = @ + 1]
    PROVE  InvitesOK'
<1>1. taken \in [Invites -> 0 .. 1] /\ \A j \in Invites : taken[j] = 1 => invite[j] = "used"
  BY DEF InvitesOK
<1>2. invite \in [Invites -> {"live", "expired", "used", "withdrawn"}]
  BY DEF TypeInv, TypeOK
<1>3. taken[i] = 0
  BY <1>1
<1>4. taken' \in [Invites -> 0 .. 1]
  BY <1>1, <1>3
<1>5. \A j \in Invites : taken'[j] = 1 => invite'[j] = "used"
  BY <1>1, <1>2
<1> QED
  BY <1>4, <1>5 DEF InvitesOK

LEMMA NextInvitesOK ==
    ASSUME TypeInv, MadeOK, InvitesOK, LetInOK, Next
    PROVE  InvitesOK' /\ LetInOK'
<1>1. CASE UNCHANGED <<invite, taken, letIn>>
  BY <1>1 DEF InvitesOK, LetInOK
<1>2. CASE AnsweredBack
  <2>1. PICK c \in callbacks, u \in Users :
           /\ IF account[u].made THEN letIn' = letIn
              ELSE letIn' = letIn \cup {[user |-> u, held |-> c.held]} /\ Provisioned(c)
           /\ Claimed(c.held)
           /\ IF c.held = None THEN invite' = invite /\ taken' = taken
              ELSE /\ invite' = [invite EXCEPT ![c.held] = "used"]
                   /\ taken' = [taken EXCEPT ![c.held] = @ + 1]
    BY <1>2, CalledBackIs
  <2>2. InvitesOK'
    <3>1. CASE c.held = None
      BY <2>1, <3>1 DEF InvitesOK
    <3>2. CASE c.held # None
      <4>1. c.held \in Invites
        BY <3>2 DEF TypeInv, TypeOK, Callback
      <4> QED
        BY <2>1, <3>2, <4>1, TakenOnce DEF Claimed
    <3> QED
      BY <3>1, <3>2
  <2>3. LetInOK'
    BY <2>1 DEF LetInOK, Provisioned
  <2> QED
    BY <2>2, <2>3
<1>3. ASSUME NEW i \in Invites, Withdraw(i) \/ Expire(i)
      PROVE  InvitesOK' /\ LetInOK'
  <2>1. /\ invite[i] \in {"live", "expired"} /\ taken' = taken /\ letIn' = letIn
        /\ \E to \in {"withdrawn", "expired"} : invite' = [invite EXCEPT ![i] = to]
    BY <1>3 DEF Withdraw, Expire
  <2>2. taken \in [Invites -> 0 .. 1] /\ \A j \in Invites : taken[j] = 1 => invite[j] = "used"
    BY DEF InvitesOK
  <2>3. invite \in [Invites -> {"live", "expired", "used", "withdrawn"}]
    BY DEF TypeInv, TypeOK
  <2>4. taken[i] # 1
    BY <2>1, <2>2
  <2>5. \A j \in Invites : taken'[j] = 1 => invite'[j] = "used"
    BY <2>1, <2>2, <2>3, <2>4
  <2> QED
    BY <2>1, <2>2, <2>5 DEF InvitesOK, LetInOK
<1>4. ASSUME NEW i \in Invites, NEW u \in Users, TakenElsewhere(i, u)
      PROVE  InvitesOK' /\ LetInOK'
  BY <1>4, TakenOnce DEF TakenElsewhere, LetInOK
<1> QED
  BY <1>1, <1>2, <1>3, <1>4, InviteSteps

-----------------------------------------------------------------------------
(***************************************************************************)
(* Challenges.                                                             *)
(***************************************************************************)
LEMMA ChallengeSteps ==
    ASSUME TypeInv, MadeOK, Next
    PROVE  \/ UNCHANGED <<challenge, answered>> /\ count'.challenges = count.challenges
           \/ \E u \in Users \cup {None} : issue_challenge(u)
           \/ \E c \in Challenges, ok \in BOOLEAN :
                 challenge[c] # None /\ Answer(c, ok) /\ count'.challenges = count.challenges
           \/ Age \/ purge_passkey_challenges
<1> DEFINE Same == UNCHANGED <<challenge, answered>> /\ count'.challenges = count.challenges
<1>1. CASE Provider
  <2>1. ASSUME NEW b \in Browsers, NEW i \in Invites \cup {None}, NEW u \in Users \cup {None},
               begin(b, i, u)
        PROVE  Same
    BY <2>1, BeginTypeInv DEF begin, keyed
  <2>2. CASE \E b \in Browsers, i \in Invites \cup {None} : login_oidc(b, i)
    BY <2>1, <2>2 DEF login_oidc
  <2>3. CASE \E b \in Browsers, u \in Users : profile_oidc_link(b, u)
    BY <2>1, <2>3 DEF profile_oidc_link
  <2>4. CASE \E b \in Browsers, a \in Attempts, s \in Subjects : login_oidc_callback(b, a, s)
    BY <2>4 DEF login_oidc_callback, keyed
  <2>5. CASE \E c \in callbacks : Refused(c)
    BY <2>5 DEF Refused, keyed
  <2>6. CASE \E c \in callbacks : \E sid \in {None, c.subject} : CalledBack(c, sid)
    BY <2>6, CalledBackTypeInv DEF CalledBack, keyed
  <2>7. CASE \E s \in Subjects, sid \in Subjects \cup {None} : oidc_backchannel_logout(sid, s)
    BY <2>7 DEF oidc_backchannel_logout, keyed
  <2> QED
    BY <1>1, <2>2, <2>3, <2>4, <2>5, <2>6, <2>7 DEF Provider
<1>2. CASE Invitation
  BY <1>2 DEF Invitation, Withdraw, Expire, TakenElsewhere, keyed
<1>3. CASE AccountPage
  <2>1. PICK u \in Users : PageOf(u)
    BY <1>3, Zenon DEF AccountPage, PageOf
  <2>2. count'.challenges = count.challenges
    BY <2>1, PageTypeInv
  <2>3. UNCHANGED <<challenge, answered>>
    BY <2>1 DEF PageOf, PasswordSignIn, passkeys_remove, SetPassword, Toggle, profile_oidc_unlink,
       keyed
  <2> QED
    BY <2>2, <2>3
<1>4. ASSUME NEW c \in Challenges, NEW k \in Passkeys, NEW ok \in BOOLEAN, NEW u \in Users,
             passkeys_register(u, c, k, ok)
      PROVE  challenge[c] # None /\ Answer(c, ok) /\ count'.challenges = count.challenges
  BY <1>4 DEF passkeys_register
<1>5. ASSUME NEW c \in Challenges, NEW k \in Passkeys, NEW ok \in BOOLEAN, login_passkey(c, k, ok)
      PROVE  challenge[c] # None /\ Answer(c, ok) /\ count'.challenges = count.challenges
  <2>1. challenge[c] # None /\ Answer(c, ok)
    BY <1>5 DEF login_passkey
  <2>2. CASE ok
    <3>1. passkey[k] \in Users
      BY <1>5, <2>2 DEF login_passkey, TypeInv, TypeOK
    <3>2. create_session(passkey[k], FALSE, None)
      BY <1>5, <2>2 DEF login_passkey
    <3> QED
      BY <2>1, <3>1, <3>2, SessionOpened
  <2>3. CASE ~ok
    BY <1>5, <2>1, <2>3 DEF login_passkey
  <2> QED
    BY <2>2, <2>3
<1>6. CASE purge_oidc_states
  BY <1>6 DEF purge_oidc_states, keyed
<1>7. CASE Ceremony
  BY <1>4, <1>5, <1>7 DEF Ceremony, registration_options, authentication_options
<1> QED
  BY <1>1, <1>2, <1>3, <1>6, <1>7 DEF Next

LEMMA NextChallengesOK ==
    ASSUME TypeInv, MadeOK, ChallengesOK, Next
    PROVE  ChallengesOK'
<1>0. /\ challenge \in [Challenges -> WebauthnChallenge \cup {None}]
      /\ answered \in [Challenges -> Nat] /\ count \in Counts
      /\ \A c \in Challenges : /\ answered[c] \in 0 .. 1
                               /\ challenge[c] # None => answered[c] = 0
                               /\ c > count.challenges => challenge[c] = None /\ answered[c] = 0
  BY DEF TypeInv, TypeOK, ChallengesOK, ChallengeOK
<1> SUFFICES ASSUME NEW c \in Challenges PROVE ChallengeOK(c)'
  BY DEF ChallengesOK
<1>1. CASE UNCHANGED <<challenge, answered>> /\ count'.challenges = count.challenges
  BY <1>0, <1>1 DEF ChallengeOK
<1>2. CASE \E u \in Users \cup {None} : issue_challenge(u)
  <2>1. PICK u \in Users \cup {None} : issue_challenge(u)
    BY <1>2
  <2>2. /\ count.challenges < MaxChallenges
        /\ count' = [count EXCEPT !.challenges = @ + 1] /\ answered' = answered
        /\ challenge' = [challenge EXCEPT ![count'.challenges] = [user |-> u, old |-> FALSE]]
    BY <2>1 DEF issue_challenge
  <2>3. PICK n \in Nat : n = count.challenges
    BY <1>0, SignInAssumption DEF Counts
  <2>4. count'.challenges = n + 1
    BY <1>0, <2>2, <2>3 DEF Counts
  <2>5. challenge' = [challenge EXCEPT ![n + 1] = [user |-> u, old |-> FALSE]]
    BY <2>2, <2>4
  <2>6. c \in Nat
    BY SignInAssumption DEF Challenges
  <2>7. CASE c = n + 1
    BY <1>0, <2>2, <2>3, <2>4, <2>6, <2>7 DEF ChallengeOK
  <2>8. CASE c # n + 1
    <3>1. challenge'[c] = challenge[c] /\ answered'[c] = answered[c]
      BY <1>0, <2>2, <2>5, <2>8
    <3> QED
      BY <1>0, <2>3, <2>4, <2>6, <2>8, <3>1 DEF ChallengeOK
  <2> QED
    BY <2>7, <2>8
<1>3. CASE \E d \in Challenges, ok \in BOOLEAN :
              challenge[d] # None /\ Answer(d, ok) /\ count'.challenges = count.challenges
  <2>1. PICK d \in Challenges, ok \in BOOLEAN :
           challenge[d] # None /\ Answer(d, ok) /\ count'.challenges = count.challenges
    BY <1>3
  <2>2. /\ challenge' = [challenge EXCEPT ![d] = None]
        /\ answered' = [answered EXCEPT ![d] = @ + IF ok THEN 1 ELSE 0]
    BY <2>1 DEF Answer, take_challenge
  <2>3. CASE c = d
    <3>1. challenge'[c] = None /\ answered[c] = 0 /\ answered'[c] \in 0 .. 1
      BY <1>0, <2>1, <2>2, <2>3
    <3>2. ~(c > count.challenges)
      BY <1>0, <2>1, <2>3
    <3> QED
      BY <2>1, <3>1, <3>2 DEF ChallengeOK
  <2>4. CASE c # d
    <3>1. challenge'[c] = challenge[c] /\ answered'[c] = answered[c]
      BY <1>0, <2>2, <2>4
    <3> QED
      BY <1>0, <2>1, <3>1 DEF ChallengeOK
  <2> QED
    BY <2>3, <2>4
<1>4. CASE Age
  <2>1. /\ challenge[c] = None => challenge'[c] = None
        /\ UNCHANGED <<answered, count>>
    BY <1>0, <1>4 DEF Age
  <2> QED
    BY <1>0, <2>1 DEF ChallengeOK
<1>5. CASE purge_passkey_challenges
  <2>1. /\ challenge[c] = None => challenge'[c] = None
        /\ UNCHANGED <<answered, count>>
    BY <1>0, <1>5 DEF purge_passkey_challenges, Fresh
  <2> QED
    BY <1>0, <2>1 DEF ChallengeOK
<1> QED
  BY <1>1, <1>2, <1>3, <1>4, <1>5, ChallengeSteps

-----------------------------------------------------------------------------
(***************************************************************************)
(* The theorems.                                                           *)
(***************************************************************************)
LEMMA Inductive == Spec => []IInv
<1>1. IInv /\ [Next]_vars => IInv'
  <2> SUFFICES ASSUME IInv, [Next]_vars PROVE IInv'
    OBVIOUS
  <2>1. CASE Next
    <3>1. TypeInv /\ MadeOK /\ WayIn /\ InvitesOK /\ LetInOK /\ ChallengesOK
      BY DEF IInv
    <3> QED
      BY <2>1, <3>1, NextTypeInv, NextMadeOK, NextWayIn, NextInvitesOK, NextChallengesOK DEF IInv
  <2>2. CASE UNCHANGED vars
    <3>1. UNCHANGED <<account, identity, invite, attempt, cookie, callbacks, letIn, taken, passkey,
                      challenge, answered, session, count>>
      BY <2>2 DEF vars, signing, keyed
    <3>2. TypeInv'
      BY <3>1 DEF IInv, TypeInv, TypeOK
    <3>3. MadeOK' /\ WayIn'
      BY <3>1 DEF IInv, MadeOK, WayIn
    <3>4. InvitesOK' /\ LetInOK'
      BY <3>1 DEF IInv, InvitesOK, LetInOK
    <3>5. ChallengesOK'
      BY <3>1 DEF IInv, ChallengesOK, ChallengeOK
    <3> QED
      BY <3>2, <3>3, <3>4, <3>5 DEF IInv
  <2> QED
    BY <2>1, <2>2
<1> QED
  BY <1>1, InitIInv, PTL DEF Spec

\* Every table keeps its shape, and an identity is of an account that exists.
THEOREM TypeCorrect == Spec => []TypeOK
<1>1. IInv => TypeOK
  BY DEF IInv, TypeInv
<1> QED
  BY <1>1, Inductive, PTL

\* However identities are linked and unlinked, callbacks overlap, are refused or come
\* back late, every account has a password or an identity to sign in with.
THEOREM AWayInIsKept == Spec => []WayIn
<1>1. IInv => WayIn
  BY DEF IInv
<1> QED
  BY <1>1, Inductive, PTL

\* An invitation lets in one person and never once withdrawn, strangers get in with an
\* invitation where one is needed, and a challenge is accepted once.
THEOREM GoodOnce == Spec => []OnceEach
<1>1. IInv => OnceEach
  <2> SUFFICES ASSUME IInv PROVE OnceEach
    OBVIOUS
  <2>1. \A i \in Invites : taken[i] <= 1 /\ (invite[i] = "withdrawn" => taken[i] = 0)
    BY DEF IInv, InvitesOK
  <2>2. \A c \in Challenges : answered[c] <= 1
    BY DEF IInv, ChallengesOK, ChallengeOK
  <2> QED
    BY <2>1, <2>2 DEF IInv, LetInOK, OnceEach
<1> QED
  BY <1>1, Inductive, PTL
=============================================================================
