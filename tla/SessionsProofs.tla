---------------------------- MODULE SessionsProofs ----------------------------
(***************************************************************************)
(* Proofs about Sessions, for any people, browsers and settings: the shape *)
(* of every row, that a code proves one thing once, that a recovery code   *)
(* never stands in for the second factor, that signing an account out      *)
(* leaves none of its sessions, and how many guesses a window allows.      *)
(***************************************************************************)
EXTENDS Sessions, FiniteSetTheorems, TLAPS

-----------------------------------------------------------------------------
(***************************************************************************)
(* The inductive invariant.                                                *)
(***************************************************************************)
\* A browser's cookie is its own, and no session is one not opened yet.
CookiesOK ==
    /\ \A t \in Tokens : sessions[t] # None => t <= minted
    /\ \A b \in Browsers : cookie[b] # None => cookie[b] <= minted
    /\ \A b, d \in Browsers : cookie[b] # None /\ cookie[b] = cookie[d] => b = d

\* A request that holds its session's row still has that session.
Holds(b) ==
    LET t == request[b].token IN
    /\ t = cookie[b] /\ t \in Tokens /\ sessions[t] # None
    /\ ~sessions[t].pending /\ sessions[t].user = request[b].user

HoldersOK ==
    \A b \in Browsers : request[b] # None /\ request[b].kind \in {"disable", "change"} => Holds(b)

\* Of the codes that prove a session one at most is a recovery code, and none that
\* opened it with a password; a second factor is given before a session is whole.
Factors(s) ==
    /\ \A c, d \in s.proofs : c.kind = "code" /\ d.kind = "code" => c = d
    /\ s.pending /\ ~s.spent => \A c \in s.proofs : c.kind # "code"
    /\ s.asked /\ ~s.pending => \E c \in s.proofs : s.spent => c.kind = "step"

FactorsOK == \A t \in Tokens : sessions[t] # None => Factors(sessions[t])

\* A secret on its way to a profile page is nobody's yet.
Shows(b) == request[b] # None /\ request[b].kind = "page"
Turns(b) == request[b] # None /\ request[b].kind = "disable"

SecretsOK ==
    /\ \A u \in Users : account[u].secret # None => account[u].secret <= issued
    /\ \A d \in Browsers : Turns(d) /\ request[d].read.secret # None =>
          request[d].read.secret <= issued
    /\ \A b \in Browsers : Shows(b) =>
          /\ request[b].code <= issued
          /\ \A u \in Users : account[u].secret # request[b].code
          /\ \A d \in Browsers : Turns(d) => request[d].read.secret # request[b].code
          /\ \A d \in Browsers : Shows(d) /\ request[d].code = request[b].code => d = b

\* An accepted code cannot be again: it is gone from its list, or the step stored for
\* its secret is no earlier, or its secret is gone for good.
Over(c) ==
    /\ c \in Proof
    /\ c.kind = "code" =>
          /\ c.of <= codes[c.user].list
          /\ c.of = codes[c.user].list => c.n \notin codes[c.user].unused
    /\ c.kind = "step" =>
          /\ c.of \in 1 .. issued
          /\ account[c.user].secret = c.of =>
                account[c.user].lastStep # None /\ c.n <= account[c.user].lastStep
          /\ \A b \in Browsers : Shows(b) => request[b].code # c.of

AcceptedOK == \A c \in accepted : Over(c)

\* The guesses made in the window, and those under way.
Guessed(u) == {f \in failures[u] : f.at > now - Window}
Trying(u) == {b \in Browsers : request[b] # None /\ request[b].kind = "login" /\ request[b].user = u}

GuessesOK ==
    /\ \A u \in Users : IsFiniteSet(failures[u])
    /\ Lockout = Window /\ Retention >= Window => \A u \in Users :
          Cardinality(Guessed(u)) + Cardinality(Trying(u)) < MaxAttempts + Cardinality(Browsers)

-----------------------------------------------------------------------------
(***************************************************************************)
(* Sessions: what a step leaves of them.                                   *)
(***************************************************************************)
\* The part of the invariant that is about sessions and cookies.
SessionRows ==
    /\ sessions \in [Tokens -> UserSession \cup {None}]
    /\ \A t \in Tokens : sessions[t] # None /\ sessions[t].seen > sessions[t].created =>
          sessions[t].expires <= sessions[t].created + Absolute
    /\ cookie \in [Browsers -> Tokens \cup {None}]
    /\ minted \in 0 .. MaxTokens /\ epoch \in [Users -> Nat]
    /\ CookiesOK /\ FactorsOK /\ SignedOutEverywhere

\* One session on, by the activity of its browser.
LEMMA SlidIs ==
    ASSUME now \in 0 .. LastTick, NEW s \in UserSession
    PROVE  /\ Slid(s) \in UserSession
           /\ Slid(s).seen > Slid(s).created => Slid(s).expires <= Slid(s).created + Absolute
           /\ Slid(s).pending = s.pending /\ Slid(s).user = s.user /\ Slid(s).opened = s.opened
           /\ Slid(s).spent = s.spent /\ Slid(s).asked = s.asked /\ Slid(s).proofs = s.proofs
<1>1. now \in Nat /\ Ttl \in Nat /\ Absolute \in Nat /\ LastTick \in Nat
  BY SessionsAssumption
<1>2. s.created \in 0 .. LastTick /\ s.created \in Nat
  BY <1>1 DEF UserSession
<1>3. Lesser(now + Ttl, s.created + Absolute) \in Nat
      /\ Lesser(now + Ttl, s.created + Absolute) <= s.created + Absolute
  BY <1>1, <1>2 DEF Lesser
<1>4. Slid(s) = [s EXCEPT !.seen = now, !.expires = Lesser(now + Ttl, s.created + Absolute)]
  BY DEF Slid
<1>5. Slid(s) \in UserSession
  BY <1>3, <1>4 DEF UserSession
<1>6. /\ Slid(s).expires = Lesser(now + Ttl, s.created + Absolute) /\ Slid(s).created = s.created
      /\ Slid(s).pending = s.pending /\ Slid(s).user = s.user /\ Slid(s).opened = s.opened
      /\ Slid(s).spent = s.spent /\ Slid(s).asked = s.asked /\ Slid(s).proofs = s.proofs
  BY <1>4 DEF UserSession
<1> QED
  BY <1>3, <1>5, <1>6

\* Nothing new: every session is as it was, gone, or one activity on.
Touch(t) ==
    \/ sessions'[t] \in {None, sessions[t]}
    \/ sessions[t] # None /\ sessions'[t] = Slid(sessions[t])

Thin ==
    /\ sessions' = [t \in Tokens |-> sessions'[t]]
    /\ \A t \in Tokens : Touch(t)
    /\ cookie' \in [Browsers -> Tokens \cup {None}] /\ minted' = minted
    /\ \A b \in Browsers : cookie'[b] \in {None, cookie[b]}
    /\ \/ epoch' = epoch
       \/ \E u \in Users : /\ epoch' = [epoch EXCEPT ![u] = @ + 1]
                           /\ \A t \in Tokens : sessions'[t] # None => sessions[t].user # u

LEMMA ThinRows ==
    ASSUME SessionRows, now \in 0 .. LastTick, Thin
    PROVE  SessionRows'
<1>1. /\ sessions \in [Tokens -> UserSession \cup {None}]
      /\ \A t \in Tokens : sessions[t] # None /\ sessions[t].seen > sessions[t].created =>
            sessions[t].expires <= sessions[t].created + Absolute
      /\ epoch \in [Users -> Nat] /\ minted \in 0 .. MaxTokens
      /\ CookiesOK /\ FactorsOK /\ SignedOutEverywhere
  BY DEF SessionRows
<1>2. ASSUME NEW t \in Tokens, sessions'[t] # None
      PROVE  /\ sessions[t] # None /\ sessions'[t] \in UserSession
             /\ sessions'[t].seen > sessions'[t].created =>
                   sessions'[t].expires <= sessions'[t].created + Absolute
             /\ sessions'[t].pending = sessions[t].pending /\ sessions'[t].user = sessions[t].user
             /\ sessions'[t].spent = sessions[t].spent /\ sessions'[t].asked = sessions[t].asked
             /\ sessions'[t].proofs = sessions[t].proofs
             /\ sessions'[t].opened = sessions[t].opened
  <2>1. Touch(t)
    BY DEF Thin
  <2>2. CASE sessions'[t] = sessions[t]
    BY <1>1, <1>2, <2>2
  <2>3. CASE sessions[t] # None /\ sessions'[t] = Slid(sessions[t])
    <3>1. sessions[t] \in UserSession
      BY <1>1, <2>3
    <3> QED
      BY <2>3, <3>1, SlidIs
  <2> QED
    BY <1>2, <2>1, <2>2, <2>3 DEF Touch
<1>3. sessions' \in [Tokens -> UserSession \cup {None}]
  BY <1>2 DEF Thin
<1>4. CookiesOK'
  BY <1>1, <1>2 DEF CookiesOK, Thin
<1>5. FactorsOK'
  <2>1. ASSUME NEW t \in Tokens, sessions'[t] # None
        PROVE  Factors(sessions'[t])
    <3>1. Factors(sessions[t])
      BY <1>1, <1>2, <2>1 DEF FactorsOK
    <3> QED
      BY <1>2, <2>1, <3>1 DEF Factors
  <2> QED
    BY <2>1 DEF FactorsOK
<1>6. epoch' \in [Users -> Nat]
  BY <1>1 DEF Thin
<1>7. SignedOutEverywhere'
  <2>1. ASSUME NEW t \in Tokens, sessions'[t] # None
        PROVE  sessions'[t].opened = epoch'[sessions'[t].user]
    <3>1. sessions[t].opened = epoch[sessions[t].user] /\ sessions[t].user \in Users
      BY <1>1, <1>2, <2>1 DEF SignedOutEverywhere, UserSession
    <3>2. epoch'[sessions[t].user] = epoch[sessions[t].user]
      BY <1>1, <2>1, <3>1 DEF Thin
    <3> QED
      BY <1>2, <2>1, <3>1, <3>2
  <2> QED
    BY <2>1 DEF SignedOutEverywhere
<1> QED
  BY <1>1, <1>2, <1>3, <1>4, <1>5, <1>6, <1>7 DEF SessionRows, Thin

\* A session is opened, with the browser's cookie.
LEMMA OpensRows ==
    ASSUME SessionRows, NEW b \in Browsers, NEW base \in [Tokens -> UserSession \cup {None}],
           NEW s \in UserSession, Opens(b, base, s), Factors(s), s.seen = s.created,
           \A t \in Tokens : base[t] \in {None, sessions[t]},
           epoch' \in [Users -> Nat], s.opened = epoch'[s.user],
           \A t \in Tokens : base[t] # None => epoch'[base[t].user] = epoch[base[t].user]
    PROVE  SessionRows'
<1>1. /\ sessions \in [Tokens -> UserSession \cup {None}]
      /\ \A t \in Tokens : sessions[t] # None /\ sessions[t].seen > sessions[t].created =>
            sessions[t].expires <= sessions[t].created + Absolute
      /\ epoch \in [Users -> Nat] /\ minted \in 0 .. MaxTokens /\ MaxTokens \in Nat
      /\ cookie \in [Browsers -> Tokens \cup {None}]
      /\ CookiesOK /\ FactorsOK /\ SignedOutEverywhere
  BY SessionsAssumption DEF SessionRows
<1>2. /\ minted < MaxTokens /\ minted' = minted + 1 /\ minted + 1 \in Tokens
      /\ sessions' = [base EXCEPT ![minted + 1] = s]
      /\ cookie' = [cookie EXCEPT ![b] = minted + 1]
  BY <1>1 DEF Opens, Tokens
<1>3. minted' \in 0 .. MaxTokens /\ sessions' \in [Tokens -> UserSession \cup {None}]
      /\ cookie' \in [Browsers -> Tokens \cup {None}]
  BY <1>1, <1>2
<1>4. /\ sessions'[minted + 1] = s
      /\ \A t \in Tokens : t # minted + 1 => sessions'[t] \in {None, sessions[t]} /\ sessions'[t] = base[t]
  BY <1>2
<1>6. \A t \in Tokens : sessions'[t] # None /\ sessions'[t].seen > sessions'[t].created =>
         sessions'[t].expires <= sessions'[t].created + Absolute
  BY <1>1, <1>4 DEF UserSession
<1>7. FactorsOK'
  <2>1. \A t \in Tokens : sessions'[t] # None => Factors(sessions'[t])
    BY <1>1, <1>4 DEF FactorsOK
  <2> QED
    BY <2>1 DEF FactorsOK
<1>8. SignedOutEverywhere'
  <2>1. \A t \in Tokens : sessions'[t] # None => sessions'[t].opened = epoch'[sessions'[t].user]
    BY <1>1, <1>4 DEF SignedOutEverywhere
  <2> QED
    BY <2>1 DEF SignedOutEverywhere
<1>9. CookiesOK'
  <2>1. \A t \in Tokens : t \in Nat
    BY <1>1 DEF Tokens
  <2>2. \A t \in Tokens : sessions'[t] # None => t <= minted + 1
    BY <1>1, <1>4, <2>1 DEF CookiesOK
  <2>3. \A d \in Browsers : cookie'[d] # None => cookie'[d] <= minted + 1
    BY <1>1, <1>2, <2>1 DEF CookiesOK
  <2>4. ASSUME NEW d \in Browsers
        PROVE  cookie[d] # minted + 1
    <3>1. None # minted + 1 /\ minted \in Nat
      BY <1>1, SessionsAssumption
    <3>2. CASE cookie[d] # None
      <4>1. cookie[d] \in Nat /\ cookie[d] <= minted
        BY <1>1, <2>1, <3>2 DEF CookiesOK
      <4> QED
        BY <3>1, <4>1
    <3> QED
      BY <3>1, <3>2
  <2>5. \A d, e \in Browsers : cookie'[d] # None /\ cookie'[d] = cookie'[e] => d = e
    BY <1>1, <1>2, <2>4 DEF CookiesOK
  <2> QED
    BY <1>2, <2>2, <2>3, <2>5 DEF CookiesOK
<1> QED
  BY <1>3, <1>6, <1>7, <1>8, <1>9 DEF SessionRows

\* Requests that go on keep the session whose row they hold.
Keeps ==
    \A d \in Browsers : request'[d] # None /\ request'[d].kind \in {"disable", "change"} =>
       request'[d] = request[d] /\ cookie'[d] = cookie[d] /\ sessions'[cookie[d]] # None

LEMMA ThinHolders ==
    ASSUME SessionRows, HoldersOK, now \in 0 .. LastTick, Thin, Keeps
    PROVE  HoldersOK'
<1> SUFFICES ASSUME NEW d \in Browsers, request'[d] # None, request'[d].kind \in {"disable", "change"}
             PROVE  /\ request'[d].token = cookie'[d] /\ request'[d].token \in Tokens
                    /\ sessions'[request'[d].token] # None
                    /\ ~sessions'[request'[d].token].pending
                    /\ sessions'[request'[d].token].user = request'[d].user
  BY DEF HoldersOK, Holds
<1>1. request'[d] = request[d] /\ cookie'[d] = cookie[d] /\ sessions'[cookie[d]] # None
  BY DEF Keeps
<1>2. PICK t \in Tokens : t = request[d].token
  BY <1>1 DEF HoldersOK, Holds
<1>3. /\ t = cookie[d] /\ sessions[t] # None /\ ~sessions[t].pending
      /\ sessions[t].user = request[d].user
  BY <1>1, <1>2 DEF HoldersOK, Holds
<1>4. Touch(t) /\ sessions[t] \in UserSession
  BY <1>3 DEF Thin, SessionRows
<1>5. ~sessions'[t].pending /\ sessions'[t].user = request[d].user
  BY <1>1, <1>3, <1>4, SlidIs DEF Touch
<1> QED
  BY <1>1, <1>2, <1>3, <1>5

\* The steps that leave sessions and cookies alone, and start no request that holds a row.
LEMMA QuietRows ==
    ASSUME SessionRows, HoldersOK, UNCHANGED <<sessions, cookie, minted, epoch>>,
           \A d \in Browsers : request'[d] # None /\ request'[d].kind \in {"disable", "change"} =>
              request'[d] = request[d]
    PROVE  SessionRows' /\ HoldersOK'
<1>1. SessionRows'
  BY DEF SessionRows, CookiesOK, FactorsOK, Factors, SignedOutEverywhere
<1>2. HoldersOK'
  BY DEF HoldersOK, Holds
<1> QED
  BY <1>1, <1>2

LEMMA SignedIs ==
    ASSUME SessionRows, now \in 0 .. LastTick, NEW b \in Browsers, Signed(b)
    PROVE  /\ cookie[b] \in Tokens /\ sessions[cookie[b]] # None /\ ~sessions[cookie[b]].pending
           /\ sessions[cookie[b]] \in UserSession /\ Who(b) \in Users
           /\ Touched(b) = [t \in Tokens |-> IF t = cookie[b] THEN Slid(sessions[t]) ELSE sessions[t]]
           /\ Slid(sessions[cookie[b]]) # None
<1>1. cookie[b] # None /\ sessions[cookie[b]] # None /\ ~sessions[cookie[b]].pending
  BY DEF Signed, Full, Live
<1>2. cookie[b] \in Tokens /\ sessions[cookie[b]] \in UserSession
  BY <1>1 DEF SessionRows
<1>3. Who(b) \in Users
  BY <1>2 DEF Who, UserSession
<1>4. Slid(sessions[cookie[b]]) \in UserSession
  BY <1>2, SlidIs
<1>5. Touched(b) = [t \in Tokens |-> IF t = cookie[b] THEN Slid(sessions[t]) ELSE sessions[t]]
  BY <1>2 DEF Touched, SessionRows
<1> QED
  BY <1>1, <1>2, <1>3, <1>4, <1>5, AccountsAssumption

\* The steps of a signed-in browser that do no more to its session than slide it.
LEMMA TouchedRows ==
    ASSUME SessionRows, HoldersOK, now \in 0 .. LastTick, NEW b \in Browsers, Signed(b),
           sessions' = Touched(b), UNCHANGED <<cookie, minted, epoch>>
    PROVE  /\ SessionRows' /\ Thin
           /\ \A d \in Browsers : request[d] # None /\ request[d].kind \in {"disable", "change"} =>
                 cookie'[d] = cookie[d] /\ sessions'[cookie[d]] # None
           /\ sessions'[cookie[b]] # None /\ ~sessions'[cookie[b]].pending
           /\ sessions'[cookie[b]].user = Who(b)
<1>1. /\ cookie[b] \in Tokens /\ sessions[cookie[b]] \in UserSession /\ sessions[cookie[b]] # None
      /\ ~sessions[cookie[b]].pending /\ Slid(sessions[cookie[b]]) # None
      /\ sessions' = [t \in Tokens |-> IF t = cookie[b] THEN Slid(sessions[t]) ELSE sessions[t]]
  BY SignedIs
<1>2. Thin
  BY <1>1 DEF Thin, Touch, SessionRows
<1>3. \A d \in Browsers : request[d] # None /\ request[d].kind \in {"disable", "change"} =>
         cookie'[d] = cookie[d] /\ sessions'[cookie[d]] # None
  BY <1>1 DEF HoldersOK, Holds
<1>4. sessions'[cookie[b]] # None /\ ~sessions'[cookie[b]].pending
      /\ sessions'[cookie[b]].user = Who(b)
  BY <1>1, SlidIs DEF Who
<1> QED
  BY <1>2, <1>3, <1>4, ThinRows

\* Somebody else's step that ends an account's sessions, none of which is held.
LEMMA SignedOutRows ==
    ASSUME SessionRows, HoldersOK, now \in 0 .. LastTick, NEW u \in Users, SignedOut(u),
           UNCHANGED <<cookie, request, minted>>
    PROVE  SessionRows' /\ HoldersOK'
<1>1. /\ \A t \in Tokens : sessions[t] # None /\ sessions[t].user = u => ~Held(t)
      /\ sessions' = [t \in Tokens |-> IF sessions[t] # None /\ sessions[t].user = u
                                       THEN None ELSE sessions[t]]
      /\ epoch' = [epoch EXCEPT ![u] = @ + 1]
  BY DEF SignedOut, Free, WithoutSessions
<1>2. Thin
  BY <1>1 DEF Thin, Touch, SessionRows
<1>3. Keeps
  <2>1. ASSUME NEW d \in Browsers, request[d] # None, request[d].kind \in {"disable", "change"}
        PROVE  sessions'[cookie[d]] # None
    <3>1. PICK t \in Tokens : t = request[d].token
      BY <2>1 DEF HoldersOK, Holds
    <3>2. t = cookie[d] /\ sessions[t] # None
      BY <2>1, <3>1 DEF HoldersOK, Holds
    <3>3. t # None
      BY SessionsAssumption DEF Tokens
    <3>4. Held(t)
      BY <2>1, <3>1, <3>3 DEF Held
    <3> QED
      BY <1>1, <3>2, <3>4
  <2> QED
    BY <2>1 DEF Keeps
<1> QED
  BY <1>2, <1>3, ThinRows, ThinHolders

LEMMA OpensHolders ==
    ASSUME SessionRows, HoldersOK, NEW b \in Browsers,
           NEW base \in [Tokens -> UserSession \cup {None}], NEW s, Opens(b, base, s),
           \A d \in Browsers : request'[d] # None /\ request'[d].kind \in {"disable", "change"} =>
              d # b /\ request'[d] = request[d] /\ base[cookie[d]] = sessions[cookie[d]]
    PROVE  HoldersOK'
<1> SUFFICES ASSUME NEW d \in Browsers, request'[d] # None, request'[d].kind \in {"disable", "change"}
             PROVE  /\ request'[d].token = cookie'[d] /\ request'[d].token \in Tokens
                    /\ sessions'[request'[d].token] # None
                    /\ ~sessions'[request'[d].token].pending
                    /\ sessions'[request'[d].token].user = request'[d].user
  BY DEF HoldersOK, Holds
<1>1. d # b /\ request'[d] = request[d] /\ base[cookie[d]] = sessions[cookie[d]]
  OBVIOUS
<1>2. PICK t \in Tokens : t = request[d].token
  BY <1>1 DEF HoldersOK, Holds
<1>3. /\ t = cookie[d] /\ sessions[t] # None /\ ~sessions[t].pending
      /\ sessions[t].user = request[d].user
  BY <1>1, <1>2 DEF HoldersOK, Holds
<1>4. minted \in Nat /\ t \in Nat
  BY SessionsAssumption DEF SessionRows, Tokens
<1>5. t # minted + 1
  BY <1>3, <1>4 DEF SessionRows, CookiesOK
<1>6. sessions'[t] = sessions[t] /\ cookie'[d] = cookie[d]
  BY <1>1, <1>2, <1>3, <1>5 DEF Opens, SessionRows
<1> QED
  BY <1>1, <1>2, <1>3, <1>6

\* What a browser opens with a password, or with a recovery code for one.
JustCreated(s) == s \in UserSession /\ s.seen = s.created

LEMMA CreatedIs ==
    ASSUME now \in 0 .. LastTick
    PROVE  \A u \in Users, pending, spent, asked \in BOOLEAN, proofs \in SUBSET Proof, at \in Nat :
              JustCreated(create_session(u, pending, spent, proofs, asked, at))
<1> SUFFICES ASSUME NEW u \in Users, NEW pending \in BOOLEAN, NEW spent \in BOOLEAN,
                    NEW proofs \in SUBSET Proof, NEW asked \in BOOLEAN, NEW at \in Nat
             PROVE  JustCreated(create_session(u, pending, spent, proofs, asked, at))
  BY Zenon
<1>1. now + Ttl \in Nat
  BY SessionsAssumption
<1>2. /\ create_session(u, pending, spent, proofs, asked, at) \in UserSession
      /\ create_session(u, pending, spent, proofs, asked, at).seen
            = create_session(u, pending, spent, proofs, asked, at).created
  BY <1>1 DEF create_session, UserSession
<1> QED
  BY <1>2, Zenon DEF JustCreated

LEMMA PasswordCheckedRows ==
    ASSUME TypeOK, SessionRows, HoldersOK, NEW b \in Browsers, PasswordChecked(b)
    PROVE  SessionRows' /\ HoldersOK'
<1>1. /\ request[b] # None /\ Request(request[b]) /\ request[b].kind = "login"
      /\ request' = [request EXCEPT ![b] = None] /\ DOMAIN request = Browsers
      /\ now \in 0 .. LastTick /\ sessions \in [Tokens -> UserSession \cup {None}]
      /\ epoch \in [Users -> Nat] /\ epoch' = epoch
  BY DEF PasswordChecked, TypeOK
<1>2. PICK u \in Users : u = request[b].user
  BY <1>1 DEF Request
<1>3. PICK on \in BOOLEAN : on = request[b].read.enabled
  BY <1>1 DEF Request, User
<1>4. \A d \in Browsers : request'[d] # None => d # b /\ request'[d] = request[d]
  BY <1>1
<1>5. CASE UNCHANGED <<sessions, cookie, minted>>
  BY <1>1, <1>4, <1>5, QuietRows
<1>6. CASE ~UNCHANGED <<sessions, cookie, minted>>
  <2> DEFINE s == create_session(u, on, FALSE, {}, on, epoch[u])
  <2>1. Opens(b, sessions, s)
    BY <1>1, <1>2, <1>3, <1>6 DEF PasswordChecked
  <2>7. {} \in SUBSET Proof /\ epoch[u] \in Nat /\ FALSE \in BOOLEAN
    BY <1>1
  <2>2. s \in UserSession /\ s.seen = s.created
    <3>1. JustCreated(create_session(u, on, FALSE, {}, on, epoch[u]))
      BY <1>1, <2>7, CreatedIs, Zenon
    <3> QED
      BY <3>1, Zenon DEF JustCreated
  <2>3. Factors(s) /\ s.user = u /\ s.opened = epoch[u]
    BY DEF create_session, Factors
  <2> HIDE DEF s
  <2>4. SessionRows'
    BY <1>1, <2>1, <2>2, <2>3, OpensRows
  <2>5. HoldersOK'
    BY <1>1, <1>4, <2>1, OpensHolders
  <2> QED
    BY <2>4, <2>5
<1> QED
  BY <1>5, <1>6

LEMMA RecoverRows ==
    ASSUME TypeOK, SessionRows, HoldersOK, NEW b \in Browsers, NEW u \in Users, NEW c \in Typed(u),
           Recover(b, u, c)
    PROVE  SessionRows' /\ HoldersOK'
<1>1. /\ request[b] = None /\ request' = request /\ now \in 0 .. LastTick
      /\ sessions \in [Tokens -> UserSession \cup {None}]
      /\ epoch \in [Users -> Nat] /\ epoch' = epoch
  BY DEF Recover, TypeOK
<1>2. CASE UNCHANGED <<sessions, cookie, minted>>
  BY <1>1, <1>2, QuietRows
<1>3. CASE ~UNCHANGED <<sessions, cookie, minted>>
  <2>1. PICK on \in BOOLEAN : on = account[u].enabled
    BY DEF TypeOK, User
  <2> DEFINE s == create_session(u, on, TRUE, {c}, on, epoch[u])
  <2>2. Opens(b, sessions, s) /\ Usable(u, c)
    BY <1>3, <2>1 DEF Recover
  <2>3. c \in Proof /\ c.kind = "code"
    <3>1. c # None /\ c.kind = "code" /\ c.of = codes[u].list /\ c.n \in codes[u].unused
      BY <2>2 DEF Usable
    <3>2. codes[u].list \in Nat /\ now \in Int
      BY <1>1, SessionsAssumption DEF TypeOK, RecoveryCode
    <3> QED
      BY <3>1, <3>2 DEF Typed, StepProof, CodeProof, Proof
  <2>8. {c} \in SUBSET Proof /\ epoch[u] \in Nat /\ TRUE \in BOOLEAN
    BY <1>1, <2>3
  <2>4. s \in UserSession /\ s.seen = s.created
    <3>1. JustCreated(create_session(u, on, TRUE, {c}, on, epoch[u]))
      BY <1>1, <2>8, CreatedIs, Zenon
    <3> QED
      BY <3>1, Zenon DEF JustCreated
  <2>5. Factors(s) /\ s.user = u /\ s.opened = epoch[u]
    BY <2>3 DEF create_session, Factors
  <2> HIDE DEF s
  <2>6. SessionRows'
    BY <1>1, <2>2, <2>4, <2>5, OpensRows
  <2>7. HoldersOK'
    BY <1>1, <2>2, OpensHolders
  <2> QED
    BY <2>6, <2>7
<1> QED
  BY <1>2, <1>3

LEMMA TypedIs ==
    ASSUME TypeOK, NEW u \in Users, NEW c \in Typed(u), c # None
    PROVE  c \in Proof /\ c.user = u
<1>1. codes[u].list \in Nat /\ now \in Int
  BY SessionsAssumption DEF TypeOK, RecoveryCode
<1>2. account[u].secret \in Secrets \cup {None} /\ Secrets \subseteq Nat
  BY SessionsAssumption DEF TypeOK, User, Secrets
<1>3. CASE \E s \in {account[u].secret} \ {None}, n \in now - 1 .. now + 1 : c = StepProof(u, s, n)
  <2>1. PICK s \in {account[u].secret} \ {None}, n \in now - 1 .. now + 1 : c = StepProof(u, s, n)
    BY <1>3
  <2>3. s \in Nat
    BY <1>2, <2>1
  <2>4. n \in Int
    BY <1>1, <2>1
  <2>2. s \in Nat /\ n \in Int
    BY <2>3, <2>4
  <2> QED
    BY <2>1, <2>2 DEF StepProof, Proof
<1>4. CASE \E g \in {codes[u].list} \ {0}, n \in 1 .. PerList : c = CodeProof(u, g, n)
  BY <1>1, <1>4 DEF CodeProof, Proof
<1> QED
  BY <1>3, <1>4 DEF Typed

LEMMA EnterCodeRows ==
    ASSUME TypeOK, SessionRows, HoldersOK, NEW b \in Browsers, cookie[b] # None,
           NEW c \in Typed(Who(b)), EnterCode(b, c)
    PROVE  SessionRows' /\ HoldersOK'
<1>1. PICK t \in Tokens : t = cookie[b]
  BY DEF SessionRows
<1>2. /\ request[b] = None /\ sessions[t] # None /\ sessions[t].pending /\ request' = request
      /\ UNCHANGED <<cookie, minted, epoch>>
  BY <1>1 DEF EnterCode, Live
<1>3. sessions[t] \in UserSession /\ Factors(sessions[t])
  BY <1>2 DEF SessionRows, FactorsOK
<1>4. PICK u \in Users : u = sessions[t].user
  BY <1>3 DEF UserSession
<1>5. CASE UNCHANGED sessions
  BY <1>2, <1>5, QuietRows
<1>6. CASE ~UNCHANGED sessions
  <2>1. /\ accept_code(u, account[u].secret, c) \/ SecondCode(sessions[t], u, c)
        /\ sessions' = [sessions EXCEPT ![t].pending = FALSE, ![t].proofs = @ \cup {c}]
    BY <1>1, <1>2, <1>4, <1>6 DEF EnterCode
  <2>2. c # None /\ (c.kind = "step" \/ (c.kind = "code" /\ ~sessions[t].spent))
    BY <2>1 DEF accept_code, matching_step, SecondCode, Usable
  <2>3. c \in Proof
    BY <1>1, <2>2, TypedIs, <1>4 DEF Who
  <2> DEFINE s == [sessions[t] EXCEPT !.pending = FALSE, !.proofs = @ \cup {c}]
  <2>4. sessions' = [sessions EXCEPT ![t] = s]
    BY <1>1, <2>1, <1>2 DEF SessionRows
  <2>5. s \in UserSession
    BY <1>3, <2>3 DEF UserSession
  <2>6. /\ s.created = sessions[t].created /\ s.seen = sessions[t].seen /\ ~s.pending
        /\ s.expires = sessions[t].expires /\ s.user = sessions[t].user
        /\ s.opened = sessions[t].opened /\ s.spent = sessions[t].spent
        /\ s.asked = sessions[t].asked /\ s.proofs = sessions[t].proofs \cup {c}
    BY <1>3 DEF UserSession
  <2> HIDE DEF s
  <2>7. Factors(s)
    <3>1. CASE c.kind = "step"
      BY <1>3, <2>6, <3>1 DEF Factors
    <3>2. CASE c.kind = "code" /\ ~sessions[t].spent
      BY <1>2, <1>3, <2>6, <3>2 DEF Factors
    <3> QED
      BY <2>2, <3>1, <3>2
  <2>8. s # None
    BY <2>5, AccountsAssumption
  <2>9. sessions'[t] = s /\ \A d \in Tokens : d # t => sessions'[d] = sessions[d]
    BY <2>4 DEF SessionRows
  <2>10. sessions' \in [Tokens -> UserSession \cup {None}]
    BY <2>4, <2>5 DEF SessionRows
  <2>11. \A d \in Tokens : sessions'[d] # None /\ sessions'[d].seen > sessions'[d].created =>
            sessions'[d].expires <= sessions'[d].created + Absolute
    BY <1>2, <2>6, <2>9 DEF SessionRows
  <2>12. CookiesOK'
    BY <1>2, <2>9 DEF SessionRows, CookiesOK
  <2>13. FactorsOK'
    <3>1. \A d \in Tokens : sessions'[d] # None => Factors(sessions'[d])
      BY <2>7, <2>9 DEF SessionRows, FactorsOK
    <3> QED
      BY <3>1 DEF FactorsOK
  <2>14. SignedOutEverywhere'
    BY <1>2, <2>6, <2>9 DEF SessionRows, SignedOutEverywhere
  <2>15. SessionRows'
    BY <1>2, <2>10, <2>11, <2>12, <2>13, <2>14 DEF SessionRows
  <2>16. HoldersOK'
    BY <1>2, <2>6, <2>8, <2>9 DEF HoldersOK, Holds
  <2> QED
    BY <2>15, <2>16
<1> QED
  BY <1>5, <1>6

LEMMA ChangeCheckedRows ==
    ASSUME TypeOK, SessionRows, HoldersOK, NEW b \in Browsers, ChangeChecked(b)
    PROVE  SessionRows' /\ HoldersOK'
<1>1. /\ request[b] # None /\ Request(request[b]) /\ request[b].kind = "change"
      /\ request' = [request EXCEPT ![b] = None] /\ DOMAIN request = Browsers
      /\ now \in 0 .. LastTick /\ sessions \in [Tokens -> UserSession \cup {None}]
      /\ epoch \in [Users -> Nat]
  BY DEF ChangeChecked, TypeOK
<1>2. PICK u \in Users : u = request[b].user
  BY <1>1 DEF Request
<1>3. \A d \in Browsers : request'[d] # None => d # b /\ request'[d] = request[d]
  BY <1>1
<1>4. CASE UNCHANGED <<sessions, cookie, minted, epoch>>
  BY <1>1, <1>3, <1>4, QuietRows
<1>5. CASE ~UNCHANGED <<sessions, cookie, minted, epoch>>
  <2>1. Holds(b)
    BY <1>1 DEF HoldersOK
  <2>2. PICK t \in Tokens : t = request[b].token
    BY <2>1 DEF Holds
  <2>3. /\ t = cookie[b] /\ sessions[t] # None /\ ~sessions[t].pending
        /\ sessions[t] \in UserSession /\ Factors(sessions[t])
    BY <1>1, <2>1, <2>2 DEF Holds, SessionRows, FactorsOK
  <2> DEFINE s == create_session(u, FALSE, FALSE, sessions[t].proofs, sessions[t].asked, epoch[u] + 1)
             base == WithoutSessions(u)
  <2>4. /\ \A d \in Tokens \ {t} : sessions[d] # None /\ sessions[d].user = u => ~Held(d)
        /\ epoch' = [epoch EXCEPT ![u] = @ + 1]
        /\ Opens(b, base, s)
    BY <1>2, <1>5, <2>2 DEF ChangeChecked
  <2>5. sessions[t].proofs \in SUBSET Proof /\ sessions[t].asked \in BOOLEAN
        /\ epoch[u] + 1 \in Nat /\ FALSE \in BOOLEAN
    BY <1>1, <2>3 DEF UserSession
  <2>6. s \in UserSession /\ s.seen = s.created
    <3>1. JustCreated(s)
      BY <1>1, <2>5, CreatedIs, Zenon
    <3> QED
      BY <3>1, Zenon DEF JustCreated
  <2>7. Factors(s) /\ s.user = u /\ s.opened = epoch[u] + 1
    BY <2>3 DEF create_session, Factors
  <2>8. /\ base \in [Tokens -> UserSession \cup {None}]
        /\ \A d \in Tokens : base[d] \in {None, sessions[d]}
        /\ \A d \in Tokens : sessions[d] # None /\ sessions[d].user # u => base[d] = sessions[d]
        /\ \A d \in Tokens : base[d] # None => base[d] = sessions[d] /\ sessions[d].user # u
    BY <1>1 DEF WithoutSessions
  <2> HIDE DEF s, base
  <2>9. epoch' \in [Users -> Nat] /\ epoch'[u] = epoch[u] + 1
        /\ \A v \in Users : v # u => epoch'[v] = epoch[v]
    BY <1>1, <2>4
  <2>10. \A d \in Tokens : base[d] # None => epoch'[base[d].user] = epoch[base[d].user]
    BY <1>1, <2>8, <2>9 DEF UserSession
  <2>11. SessionRows'
    BY <2>4, <2>6, <2>7, <2>8, <2>9, <2>10, OpensRows
  <2>12. ASSUME NEW d \in Browsers, request'[d] # None, request'[d].kind \in {"disable", "change"}
         PROVE  d # b /\ request'[d] = request[d] /\ base[cookie[d]] = sessions[cookie[d]]
    <3>1. d # b /\ request'[d] = request[d]
      BY <1>3, <2>12
    <3>2. PICK e \in Tokens : e = request[d].token
      BY <2>12, <3>1 DEF HoldersOK, Holds
    <3>3. e = cookie[d] /\ sessions[e] # None
      BY <2>12, <3>1, <3>2 DEF HoldersOK, Holds
    <3>4. e # None
      BY SessionsAssumption DEF Tokens
    <3>5. e # t
      BY <2>3, <3>1, <3>3, <3>4 DEF SessionRows, CookiesOK
    <3>6. Held(e)
      BY <2>12, <3>1, <3>2, <3>4 DEF Held
    <3>7. sessions[e].user # u
      BY <2>4, <3>3, <3>5, <3>6
    <3> QED
      BY <2>8, <3>1, <3>3, <3>7
  <2>13. HoldersOK'
    BY <2>4, <2>8, <2>12, OpensHolders
  <2> QED
    BY <2>11, <2>13
<1> QED
  BY <1>4, <1>5

\* A session whose row a request holds is another than the cookie of a browser that
\* has none under way, and none that a step finds free.
LEMMA HeldIs ==
    ASSUME SessionRows, HoldersOK, NEW d \in Browsers, request[d] # None,
           request[d].kind \in {"disable", "change"}
    PROVE  /\ cookie[d] \in Tokens /\ sessions[cookie[d]] # None /\ Held(cookie[d])
           /\ \A b \in Browsers : request[b] = None => cookie[b] # cookie[d]
<1>1. PICK t \in Tokens : t = request[d].token
  BY DEF HoldersOK, Holds
<1>2. t = cookie[d] /\ sessions[t] # None
  BY <1>1 DEF HoldersOK, Holds
<1>3. t # None
  BY SessionsAssumption DEF Tokens
<1>4. Held(t)
  BY <1>1, <1>3 DEF Held
<1>5. \A b \in Browsers : request[b] = None => cookie[b] # t
  BY <1>2, <1>3 DEF SessionRows, CookiesOK
<1> QED
  BY <1>2, <1>4, <1>5

\* Signing out, here or elsewhere.
LEMMA EndedRows ==
    ASSUME SessionRows, HoldersOK, now \in 0 .. LastTick, NEW b \in Browsers,
           TurnedAway(b) \/ Logout(b)
    PROVE  SessionRows' /\ HoldersOK'
<1>1. PICK t \in Tokens : t = cookie[b]
  BY DEF TurnedAway, Logout, SessionRows
<1>2. /\ request[b] = None /\ sessions' = [sessions EXCEPT ![t] = None]
      /\ cookie' = cookie \/ cookie' = [cookie EXCEPT ![b] = None]
      /\ UNCHANGED <<request, minted, epoch>>
  BY <1>1 DEF TurnedAway, Logout
<1>3. Thin
  BY <1>2 DEF Thin, Touch, SessionRows
<1>4. Keeps
  <2>1. ASSUME NEW d \in Browsers, request[d] # None, request[d].kind \in {"disable", "change"}
        PROVE  cookie'[d] = cookie[d] /\ sessions'[cookie[d]] # None
    <3>1. cookie[d] \in Tokens /\ sessions[cookie[d]] # None /\ cookie[d] # t /\ d # b
      BY <1>1, <1>2, <2>1, HeldIs
    <3> QED
      BY <1>2, <3>1 DEF SessionRows
  <2> QED
    BY <1>2, <2>1 DEF Keeps
<1> QED
  BY <1>3, <1>4, ThinRows, ThinHolders

LEMMA RevokedRows ==
    ASSUME SessionRows, HoldersOK, now \in 0 .. LastTick, NEW b \in Browsers,
           RevokeOthers(b) \/ \E t \in Tokens : Revoke(b, t)
    PROVE  SessionRows' /\ HoldersOK'
<1>1. /\ request[b] = None /\ Signed(b) /\ UNCHANGED <<request, cookie, minted, epoch>>
  BY DEF RevokeOthers, Revoke, Through
<1>2. /\ cookie[b] \in Tokens /\ sessions[cookie[b]] # None
      /\ Touched(b) = [t \in Tokens |-> IF t = cookie[b] THEN Slid(sessions[t]) ELSE sessions[t]]
      /\ Slid(sessions[cookie[b]]) # None
  BY <1>1, SignedIs
<1>3. /\ sessions' = [t \in Tokens |-> sessions'[t]] /\ \A t \in Tokens : Touch(t)
      /\ sessions'[cookie[b]] # None
      /\ \A t \in Tokens : t # cookie[b] /\ sessions[t] # None /\ Held(t) => sessions'[t] = sessions[t]
  <2>1. CASE RevokeOthers(b)
    <3>1. /\ \A t \in Tokens \ {cookie[b]} :
                sessions[t] # None /\ sessions[t].user = Who(b) => ~Held(t)
          /\ sessions' = [WithoutSessions(Who(b)) EXCEPT ![cookie[b]] = Touched(b)[cookie[b]]]
      BY <2>1 DEF RevokeOthers
    <3>2. sessions' = [t \in Tokens |-> IF t = cookie[b] THEN Slid(sessions[t])
                         ELSE IF sessions[t] # None /\ sessions[t].user = Who(b) THEN None
                         ELSE sessions[t]]
      BY <1>2, <3>1 DEF WithoutSessions
    <3> QED
      BY <1>2, <3>1, <3>2 DEF Touch
  <2>2. CASE \E t \in Tokens : Revoke(b, t)
    <3>1. PICK t \in Tokens : Revoke(b, t)
      BY <2>2
    <3>2. t # cookie[b] /\ ~Held(t) /\ sessions' = [Touched(b) EXCEPT ![t] = None]
      BY <3>1 DEF Revoke
    <3>3. sessions' = [d \in Tokens |-> IF d = t THEN None ELSE
                                        IF d = cookie[b] THEN Slid(sessions[d]) ELSE sessions[d]]
      BY <1>2, <3>2
    <3> QED
      BY <1>2, <3>2, <3>3 DEF Touch
  <2> QED
    BY <2>1, <2>2, <1>1
<1>4. Thin
  BY <1>1, <1>3 DEF Thin, SessionRows
<1>5. Keeps
  BY <1>1, <1>3, HeldIs DEF Keeps
<1> QED
  BY <1>4, <1>5, ThinRows, ThinHolders

LEMMA PurgedRows ==
    ASSUME SessionRows, HoldersOK, now \in 0 .. LastTick, purge_expired_sessions
    PROVE  SessionRows' /\ HoldersOK'
<1> DEFINE old == {t \in Tokens : sessions[t] # None /\ sessions[t].expires < now}
<1>1. /\ \A t \in old : ~Held(t)
      /\ sessions' = [t \in Tokens |-> IF t \in old THEN None ELSE sessions[t]]
      /\ UNCHANGED <<cookie, request, minted, epoch>>
  BY DEF purge_expired_sessions
<1> HIDE DEF old
<1>2. Thin
  BY <1>1 DEF Thin, Touch, SessionRows
<1>3. Keeps
  BY <1>1, HeldIs DEF Keeps
<1> QED
  BY <1>2, <1>3, ThinRows, ThinHolders

\* A signed-in browser's pages and forms.
LEMMA PageRows ==
    ASSUME SessionRows, HoldersOK, now \in 0 .. LastTick, DOMAIN request = Browsers,
           NEW b \in Browsers,
           \/ Visit(b) \/ ReissueCodes(b) \/ ReadProfile(b)
           \/ \E c \in Typed(Who(b)) : Enable(b, c)
    PROVE  SessionRows' /\ HoldersOK'
<1>1. /\ request[b] = None /\ Signed(b) /\ sessions' = Touched(b)
      /\ UNCHANGED <<cookie, minted, epoch>>
      /\ \A d \in Browsers : request'[d] # None /\ request'[d].kind \in {"disable", "change"} =>
            request'[d] = request[d]
  BY DEF Visit, ReissueCodes, ReadProfile, Enable, Through
<1>2. /\ SessionRows' /\ Thin
      /\ \A d \in Browsers : request[d] # None /\ request[d].kind \in {"disable", "change"} =>
            cookie'[d] = cookie[d] /\ sessions'[cookie[d]] # None
  BY <1>1, TouchedRows
<1>3. Keeps
  BY <1>1, <1>2 DEF Keeps
<1> QED
  BY <1>2, <1>3, ThinHolders

LEMMA SubmitRows ==
    ASSUME SessionRows, HoldersOK, now \in 0 .. LastTick, DOMAIN request = Browsers,
           NEW b \in Browsers, NEW p, NEW c, NEW q, SubmitDisable(b, p, c) \/ SubmitChange(b, p, q)
    PROVE  SessionRows' /\ HoldersOK'
<1>1. /\ request[b] = None /\ Signed(b) /\ sessions' = Touched(b)
      /\ UNCHANGED <<cookie, minted, epoch>>
      /\ request'[b].token = cookie[b] /\ request'[b].user = Who(b)
      /\ \A d \in Browsers : d # b => request'[d] = request[d]
  BY DEF SubmitDisable, SubmitChange, Through
<1>2. /\ SessionRows' /\ Thin
      /\ \A d \in Browsers : request[d] # None /\ request[d].kind \in {"disable", "change"} =>
            cookie'[d] = cookie[d] /\ sessions'[cookie[d]] # None
      /\ sessions'[cookie[b]] # None /\ ~sessions'[cookie[b]].pending
      /\ sessions'[cookie[b]].user = Who(b)
  BY <1>1, TouchedRows
<1>3. cookie[b] \in Tokens
  BY <1>1, SignedIs
<1>4. Holds(b)'
  BY <1>1, <1>2, <1>3 DEF Holds
<1>5. ASSUME NEW d \in Browsers, d # b, request[d] # None, request[d].kind \in {"disable", "change"}
      PROVE  Holds(d)'
  <2>1. PICK t \in Tokens : t = request[d].token
    BY <1>5 DEF HoldersOK, Holds
  <2>2. /\ t = cookie[d] /\ sessions[t] # None /\ ~sessions[t].pending
        /\ sessions[t].user = request[d].user
    BY <1>5, <2>1 DEF HoldersOK, Holds
  <2>3. Touch(t) /\ sessions[t] \in UserSession /\ sessions'[t] # None /\ cookie'[d] = cookie[d]
    BY <1>2, <1>5, <2>2 DEF Thin, SessionRows
  <2>4. ~sessions'[t].pending /\ sessions'[t].user = request[d].user
    BY <2>2, <2>3, SlidIs DEF Touch
  <2> QED
    BY <1>1, <1>5, <2>1, <2>2, <2>3, <2>4 DEF Holds
<1> QED
  BY <1>1, <1>2, <1>4, <1>5 DEF HoldersOK

LEMMA NextRows ==
    ASSUME TypeOK, SessionRows, HoldersOK, Next
    PROVE  SessionRows' /\ HoldersOK'
<1>0. now \in 0 .. LastTick /\ DOMAIN request = Browsers
  BY DEF TypeOK
<1>1. ASSUME NEW b \in Browsers, SigningIn(b)
      PROVE  SessionRows' /\ HoldersOK'
  <2>1. ASSUME NEW u \in Users, NEW p \in Chosen \cup {Temporary}, SubmitPassword(b, u, p)
        PROVE  SessionRows' /\ HoldersOK'
    <3>1. UNCHANGED <<sessions, cookie, minted, epoch>>
      BY <2>1 DEF SubmitPassword
    <3>2. \A d \in Browsers : request'[d] # None /\ request'[d].kind \in {"disable", "change"} =>
             request'[d] = request[d]
      BY <1>0, <2>1 DEF SubmitPassword
    <3> QED
      BY <3>1, <3>2, QuietRows
  <2>2. CASE PasswordChecked(b)
    BY <2>2, PasswordCheckedRows
  <2>3. CASE \E u \in Users : \E c \in Typed(u) : Recover(b, u, c)
    BY <2>3, RecoverRows
  <2>4. CASE cookie[b] # None /\ \E c \in Typed(Who(b)) : EnterCode(b, c)
    BY <2>4, EnterCodeRows
  <2> QED
    BY <1>1, <2>1, <2>2, <2>3, <2>4 DEF SigningIn
<1>2. ASSUME NEW b \in Browsers, Staying(b)
      PROVE  SessionRows' /\ HoldersOK'
  <2>1. CASE Visit(b)
    BY <1>0, <2>1, PageRows
  <2>2. CASE TurnedAway(b) \/ Logout(b)
    BY <1>0, <2>2, EndedRows
  <2>3. CASE RevokeOthers(b) \/ \E t \in Tokens : Revoke(b, t)
    BY <1>0, <2>3, RevokedRows
  <2> QED
    BY <1>2, <2>1, <2>2, <2>3 DEF Staying
<1>3. ASSUME NEW b \in Browsers, Profile(b)
      PROVE  SessionRows' /\ HoldersOK'
  <2>1. CASE ReadProfile(b) \/ ReissueCodes(b) \/ \E c \in Typed(Who(b)) : Enable(b, c)
    BY <1>0, <2>1, PageRows
  <2>2. ASSUME NEW c, NEW p, SubmitDisable(b, p, c)
        PROVE  SessionRows' /\ HoldersOK'
    BY <1>0, <2>2, SubmitRows
  <2>3. ASSUME NEW p, NEW q, SubmitChange(b, p, q)
        PROVE  SessionRows' /\ HoldersOK'
    BY <1>0, <2>3, SubmitRows
  <2>4. CASE ShowProfile(b) \/ DisableChecked(b)
    <3>1. UNCHANGED <<sessions, cookie, minted, epoch>>
      BY <2>4 DEF ShowProfile, DisableChecked
    <3>2. \A d \in Browsers : request'[d] # None => request'[d] = request[d]
      BY <1>0, <2>4 DEF ShowProfile, DisableChecked
    <3> QED
      BY <3>1, <3>2, QuietRows
  <2>5. CASE ChangeChecked(b)
    BY <2>5, ChangeCheckedRows
  <2> QED
    BY <1>3, <2>1, <2>2, <2>3, <2>4, <2>5 DEF Profile
<1>4. ASSUME NEW u \in Users, Others(u)
      PROVE  SessionRows' /\ HoldersOK'
  <2>1. CASE Activate(u)
    BY <2>1, QuietRows DEF Activate
  <2>2. CASE SignedOut(u) /\ UNCHANGED <<cookie, request, minted>>
    BY <1>0, <2>2, SignedOutRows
  <2> QED
    BY <1>4, <2>1, <2>2 DEF Others, Deactivate, ResetPassword, ClearFactor, RecoverCommand
<1>5. CASE housekeeping
  <2>1. CASE purge_expired_sessions
    BY <1>0, <2>1, PurgedRows
  <2>2. CASE purge_old_login_attempts
    BY <2>2, QuietRows DEF purge_old_login_attempts
  <2> QED
    BY <1>5, <2>1, <2>2 DEF housekeeping
<1>6. CASE Tick
  BY <1>6, QuietRows DEF Tick
<1> QED
  BY <1>1, <1>2, <1>3, <1>4, <1>5, <1>6 DEF Next

-----------------------------------------------------------------------------
(***************************************************************************)
(* One-time codes: what a step does to secrets, steps and lists.           *)
(***************************************************************************)
\* The part of the invariant that is about accounts, codes and requests.
FactorRows ==
    /\ account \in [Users -> User] /\ codes \in [Users -> RecoveryCode]
    /\ issued \in 0 .. MaxSecrets /\ DOMAIN request = Browsers
    /\ \A b \in Browsers : request[b] # None => Request(request[b])
    /\ SecretsOK /\ AcceptedOK /\ OneUseEach

\* An account keeps its secret and its step, or has no secret any more.
Plain(u) ==
    \/ account'[u].secret = None
    \/ account'[u].secret = account[u].secret /\ account'[u].lastStep = account[u].lastStep

\* A request goes on, or begins, with its account as it is.
Asks(b) ==
    request'[b] # None =>
       \/ request'[b] = request[b]
       \/ /\ Request(request'[b]) /\ request'[b].kind # "page"
          /\ request'[b].kind = "disable" => request'[b].read = account[request'[b].user]

\* A list has only codes taken from it, or is another.
Lists ==
    /\ codes' \in [Users -> RecoveryCode]
    /\ \A u \in Users : /\ codes[u].list <= codes'[u].list
                        /\ codes'[u].list = codes[u].list => codes'[u].unused \subseteq codes[u].unused

\* What is over stays so.
LEMMA StaysOver ==
    ASSUME FactorRows, issued' \in Nat, issued <= issued', Lists, NEW c \in accepted,
           c.kind = "step" /\ account'[c.user].secret = c.of =>
              account[c.user].secret = c.of /\ account'[c.user].lastStep # None
                 /\ account[c.user].lastStep <= account'[c.user].lastStep
                 /\ account'[c.user].lastStep \in Int,
           \A b \in Browsers : Shows(b)' => (Shows(b) /\ request'[b].code = request[b].code)
                                               \/ issued < request'[b].code
    PROVE  Over(c)'
<1>1. Over(c) /\ c \in Proof /\ c.user \in Users /\ c.of \in Nat /\ c.n \in Int
  BY DEF FactorRows, AcceptedOK, Over, Proof
<1>2. issued \in Nat
  BY SessionsAssumption DEF FactorRows
<1>3. CASE c.kind = "code"
  <2>1. codes[c.user].list \in Nat /\ codes'[c.user].list \in Nat
    BY <1>1, SessionsAssumption DEF FactorRows, Lists, RecoveryCode
  <2> QED
    BY <1>1, <1>3, <2>1 DEF Over, Lists
<1>4. CASE c.kind = "step"
  <2>1. c.of \in 1 .. issued'
    BY <1>1, <1>2, <1>4 DEF Over
  <2>2. account[c.user].lastStep \in Int \cup {None}
    BY <1>1 DEF FactorRows, User
  <2>3. account'[c.user].secret = c.of =>
           account'[c.user].lastStep # None /\ c.n <= account'[c.user].lastStep
    BY <1>1, <1>4, <2>2 DEF Over
  <2>4. \A b \in Browsers : Shows(b)' => request'[b].code # c.of
    BY <1>1, <1>2, <1>4 DEF Over
  <2> QED
    BY <1>1, <1>4, <2>1, <2>3, <2>4 DEF Over
<1> QED
  BY <1>1, <1>3, <1>4 DEF Proof

\* The steps that show no secret.
LEMMA PlainRows ==
    ASSUME FactorRows, account' \in [Users -> User], Lists,
           \A u \in Users : account'[u].secret \in {None, account[u].secret},
           DOMAIN request' = Browsers, \A b \in Browsers : Asks(b), issued' = issued
    PROVE  /\ codes' \in [Users -> RecoveryCode] /\ issued' \in 0 .. MaxSecrets
           /\ \A b \in Browsers : request'[b] # None => Request(request'[b])
           /\ SecretsOK'
           /\ \A b \in Browsers : Shows(b)' => Shows(b) /\ request'[b].code = request[b].code
<1>1. /\ codes' \in [Users -> RecoveryCode] /\ issued' \in 0 .. MaxSecrets
      /\ \A b \in Browsers : request'[b] # None => Request(request'[b])
  BY DEF FactorRows, Lists, Asks
<1>2. \A b \in Browsers : Shows(b)' => Shows(b) /\ request'[b].code = request[b].code
  BY DEF Shows, Asks
<1>3. ASSUME NEW d \in Browsers, Turns(d)'
      PROVE  \/ Turns(d) /\ request'[d].read = request[d].read
             \/ \E u \in Users : request'[d].read = account[u]
  <2>1. CASE request'[d] = request[d]
    BY <1>3, <2>1 DEF Turns
  <2>2. CASE request'[d] # request[d]
    <3>1. Request(request'[d]) /\ request'[d].read = account[request'[d].user]
      BY <1>3, <2>2 DEF Turns, Asks
    <3> QED
      BY <3>1 DEF Request
  <2> QED
    BY <2>1, <2>2
<1>4. \A u \in Users : account'[u].secret # None => account'[u].secret = account[u].secret
  OBVIOUS
<1>5. SecretsOK
  BY DEF FactorRows
<1>6. \A u \in Users : account'[u].secret # None => account'[u].secret <= issued
  BY <1>4, <1>5 DEF SecretsOK
<1>7. \A d \in Browsers : Turns(d)' /\ request'[d].read.secret # None =>
         request'[d].read.secret <= issued
  BY <1>3, <1>5 DEF SecretsOK
<1>8. ASSUME NEW b \in Browsers, Shows(b)'
      PROVE  /\ request'[b].code <= issued
             /\ \A u \in Users : account'[u].secret # request'[b].code
             /\ \A d \in Browsers : Turns(d)' => request'[d].read.secret # request'[b].code
             /\ \A d \in Browsers : Shows(d)' /\ request'[d].code = request'[b].code => d = b
  <2>1. Shows(b) /\ request'[b].code = request[b].code /\ request[b].code \in Secrets
    BY <1>2, <1>8 DEF Shows, FactorRows, Request
  <2>2. request[b].code # None
    BY <2>1, SessionsAssumption DEF Secrets
  <2>3. /\ request[b].code <= issued
        /\ \A u \in Users : account[u].secret # request[b].code
        /\ \A d \in Browsers : Turns(d) => request[d].read.secret # request[b].code
        /\ \A d \in Browsers : Shows(d) /\ request[d].code = request[b].code => d = b
    BY <1>5, <2>1 DEF SecretsOK
  <2>4. \A u \in Users : account'[u].secret # request'[b].code
    BY <1>4, <2>1, <2>2, <2>3
  <2>5. \A d \in Browsers : Turns(d)' => request'[d].read.secret # request'[b].code
    BY <1>3, <2>1, <2>3
  <2>6. \A d \in Browsers : Shows(d)' /\ request'[d].code = request'[b].code => d = b
    BY <1>2, <2>1, <2>3
  <2> QED
    BY <2>1, <2>3, <2>4, <2>5, <2>6
<1>9. SecretsOK'
  BY <1>6, <1>7, <1>8 DEF SecretsOK
<1> QED
  BY <1>1, <1>2, <1>9

\* A code is accepted: the account's step moves to it, or its list has it no more.
Moves(u, c) ==
    /\ u = c.user /\ account[u].secret = c.of /\ account'[u].secret = c.of
    /\ account'[u].lastStep = c.n
    /\ account[u].lastStep # None => account[u].lastStep < c.n

LEMMA AnyStaysOver ==
    ASSUME FactorRows, account' \in [Users -> User], Lists, NEW d \in Proof,
           \A u \in Users : Plain(u) \/ Moves(u, d),
           DOMAIN request' = Browsers, \A b \in Browsers : Asks(b), issued' = issued
    PROVE  \A c \in accepted : Over(c)'
<1>1. \A b \in Browsers : Shows(b)' => Shows(b) /\ request'[b].code = request[b].code
  BY PlainRows DEF Plain, Moves
<1>2. ASSUME NEW c \in accepted
      PROVE  Over(c)'
  <2>1. Over(c) /\ c.user \in Users /\ d.n \in Int
    BY DEF FactorRows, AcceptedOK, Over, Proof
  <2>2. issued' \in Nat /\ issued <= issued'
    BY SessionsAssumption DEF FactorRows
  <2>3. ASSUME c.kind = "step", account'[c.user].secret = c.of
        PROVE  /\ account[c.user].secret = c.of /\ account'[c.user].lastStep # None
               /\ account[c.user].lastStep <= account'[c.user].lastStep
               /\ account'[c.user].lastStep \in Int
    <3>1. c.of # None
      BY <2>1, <2>2, <2>3, SessionsAssumption DEF Over
    <3>2. account[c.user].lastStep \in Int \cup {None}
      BY <2>1 DEF FactorRows, User
    <3>3. account[c.user].secret = c.of
      BY <2>1, <2>3, <3>1 DEF Plain, Moves
    <3>4. account[c.user].lastStep \in Int
      BY <2>1, <2>3, <3>2, <3>3 DEF Over
    <3>5. CASE Plain(c.user)
      BY <2>3, <3>1, <3>3, <3>4, <3>5, SessionsAssumption DEF Plain
    <3>6. CASE Moves(c.user, d)
      BY <2>1, <3>3, <3>4, <3>6, SessionsAssumption DEF Moves
    <3> QED
      BY <2>1, <3>3, <3>5, <3>6
  <2> QED
    BY <1>1, <2>2, <2>3, StaysOver
<1> QED
  BY <1>2

LEMMA PlainFactors ==
    ASSUME FactorRows, account' \in [Users -> User], \A u \in Users : Plain(u), Lists,
           DOMAIN request' = Browsers, \A b \in Browsers : Asks(b),
           UNCHANGED <<issued, accepted, reused>>
    PROVE  FactorRows'
<1>1. /\ codes' \in [Users -> RecoveryCode] /\ issued' \in 0 .. MaxSecrets
      /\ \A b \in Browsers : request'[b] # None => Request(request'[b])
      /\ SecretsOK'
  BY PlainRows DEF Plain
<1>2. \A c \in accepted : Over(c)'
  BY AnyStaysOver DEF FactorRows, AcceptedOK, Over
<1>3. AcceptedOK' /\ OneUseEach'
  BY <1>2 DEF AcceptedOK, OneUseEach, FactorRows
<1> QED
  BY <1>1, <1>3 DEF FactorRows

LEMMA AcceptFactors ==
    ASSUME FactorRows, account' \in [Users -> User], Lists,
           NEW u \in Users, NEW c \in Proof, c.user = u, Accepting(u, c),
           \A v \in Users : Plain(v) \/ Moves(v, c),
           DOMAIN request' = Browsers, \A b \in Browsers : Asks(b), issued' = issued,
           \/ /\ Usable(u, c) /\ codes'[u].list = codes[u].list /\ c.n \notin codes'[u].unused
           \/ /\ c.kind = "step" /\ c.of \in 1 .. issued
              /\ account[u].lastStep # None => account[u].lastStep < c.n
              /\ \A b \in Browsers : Shows(b) => request[b].code # c.of
              /\ account'[u].secret = c.of => account'[u].lastStep = c.n
    PROVE  FactorRows'
<1>1. /\ codes' \in [Users -> RecoveryCode] /\ issued' \in 0 .. MaxSecrets
      /\ \A b \in Browsers : request'[b] # None => Request(request'[b])
      /\ SecretsOK'
      /\ \A b \in Browsers : Shows(b)' => Shows(b) /\ request'[b].code = request[b].code
  BY PlainRows DEF Plain, Moves
<1>2. \A d \in accepted : Over(d)'
  BY AnyStaysOver
<1>3. Over(c)'
  <2>1. CASE /\ Usable(u, c) /\ codes'[u].list = codes[u].list /\ c.n \notin codes'[u].unused
    <3>1. codes[u].list \in Nat
      BY SessionsAssumption DEF FactorRows, RecoveryCode
    <3> QED
      BY <2>1, <3>1 DEF Usable, Over
  <2>2. CASE /\ c.kind = "step" /\ c.of \in 1 .. issued
             /\ \A b \in Browsers : Shows(b) => request[b].code # c.of
             /\ account'[u].secret = c.of => account'[u].lastStep = c.n
    <3>1. c.n \in Int /\ c.n # None
      BY SessionsAssumption DEF Proof
    <3> QED
      BY <1>1, <2>2, <3>1 DEF Over
  <2> QED
    BY <2>1, <2>2
<1>4. accepted' = accepted \cup {c}
  BY DEF Accepting
<1>5. AcceptedOK'
  BY <1>2, <1>3, <1>4 DEF AcceptedOK
<1>6. ASSUME c \in accepted
      PROVE  Current(u, c) = FALSE
  <2>1. Over(c)
    BY <1>6 DEF FactorRows, AcceptedOK
  <2>2. ~Usable(u, c)
    BY <2>1 DEF Over, Usable
  <2>3. c.kind = "step" /\ c.n \in Int /\ (account[u].lastStep # None => account[u].lastStep < c.n)
    BY <2>2 DEF Proof
  <2>4. account[u].lastStep \in Int \cup {None}
    BY DEF FactorRows, User
  <2>5. account[u].secret # c.of
    BY <2>1, <2>3, <2>4 DEF Over
  <2> QED
    BY <2>3, <2>5 DEF Current
<1>7. OneUseEach'
  <2>1. CASE c \in accepted
    <3>1. reused' = reused \cup {[code |-> c, current |-> FALSE]}
      BY <1>6, <2>1 DEF Accepting
    <3> QED
      BY <3>1 DEF FactorRows, OneUseEach
  <2>2. CASE c \notin accepted
    BY <2>2 DEF Accepting, FactorRows, OneUseEach
  <2> QED
    BY <2>1, <2>2
<1> QED
  BY <1>1, <1>5, <1>7 DEF FactorRows

-----------------------------------------------------------------------------
(* What the handlers do to accounts, lists and requests. *)

LEMMA Unedited ==
    ASSUME FactorRows, UNCHANGED account
    PROVE  account' \in [Users -> User] /\ \A u \in Users : Plain(u)
BY DEF FactorRows, Plain

LEMMA Edited ==
    ASSUME FactorRows, NEW u \in Users, NEW a \in User, account' = [account EXCEPT ![u] = a],
           a.secret = None \/ (a.secret = account[u].secret /\ a.lastStep = account[u].lastStep)
    PROVE  account' \in [Users -> User] /\ \A v \in Users : Plain(v)
BY DEF FactorRows, Plain

LEMMA Unlisted ==
    ASSUME FactorRows, UNCHANGED codes
    PROVE  Lists
<1>1. \A u \in Users : codes[u].list \in Nat
  BY SessionsAssumption DEF FactorRows, RecoveryCode
<1> QED
  BY <1>1 DEF Lists, FactorRows

LEMMA FreshListed ==
    ASSUME FactorRows, NEW u \in Users, FreshList(u)
    PROVE  Lists
<1>1. /\ codes[u].list < MaxLists
      /\ codes' = [codes EXCEPT ![u] = [list |-> codes[u].list + 1, unused |-> 1 .. PerList]]
  BY DEF FreshList, FactorRows
<1>2. \A v \in Users : codes[v] \in RecoveryCode /\ codes[v].list \in Nat
  BY SessionsAssumption DEF FactorRows, RecoveryCode
<1>3. [list |-> codes[u].list + 1, unused |-> 1 .. PerList] \in RecoveryCode
  BY <1>1, <1>2, SessionsAssumption DEF RecoveryCode
<1> QED
  BY <1>1, <1>2, <1>3 DEF Lists, FactorRows

LEMMA SpentListed ==
    ASSUME FactorRows, NEW u \in Users, NEW c, Usable(u, c), Spend(u, c)
    PROVE  Lists /\ codes'[u].list = codes[u].list /\ c.n \notin codes'[u].unused
<1> DEFINE row == [codes[u] EXCEPT !.unused = @ \ {c.n}]
<1>1. codes' = [codes EXCEPT ![u] = row]
  BY DEF Spend, FactorRows
<1>2. \A v \in Users : codes[v] \in RecoveryCode /\ codes[v].list \in Nat
  BY SessionsAssumption DEF FactorRows, RecoveryCode
<1>3. row \in RecoveryCode /\ row.list = codes[u].list /\ row.unused = codes[u].unused \ {c.n}
  BY <1>2 DEF RecoveryCode
<1> HIDE DEF row
<1> QED
  BY <1>1, <1>2, <1>3 DEF Lists, FactorRows

LEMMA Unasked ==
    ASSUME FactorRows, request' = request \/ \E b \in Browsers : request' = [request EXCEPT ![b] = None]
    PROVE  DOMAIN request' = Browsers /\ \A b \in Browsers : Asks(b)
BY DEF FactorRows, Asks

LEMMA Asked ==
    ASSUME FactorRows, NEW b \in Browsers, NEW r, request' = [request EXCEPT ![b] = r],
           Request(r), r.kind # "page", r.kind = "disable" => r.read = account[r.user]
    PROVE  DOMAIN request' = Browsers /\ \A d \in Browsers : Asks(d)
BY DEF FactorRows, Asks

\* Requests begin, and passwords are checked.
LEMMA LoginFactors ==
    ASSUME FactorRows, NEW b \in Browsers,
           \/ \E u \in Users, p \in Chosen \cup {Temporary} : SubmitPassword(b, u, p)
           \/ PasswordChecked(b)
    PROVE  FactorRows'
<1>1. ASSUME NEW u \in Users, NEW p \in Chosen \cup {Temporary}, SubmitPassword(b, u, p)
      PROVE  FactorRows'
  <2> DEFINE r == [kind |-> "login", user |-> u, typed |-> p, code |-> None, next |-> None,
                   read |-> account[u], token |-> None]
  <2>1. request' = [request EXCEPT ![b] = r]
        /\ UNCHANGED <<account, codes, issued, accepted, reused>>
    BY <1>1 DEF SubmitPassword
  <2>2. Request(r) /\ r.kind # "page" /\ r.kind # "disable"
    BY DEF Request, FactorRows
  <2> HIDE DEF r
  <2> QED
    BY <2>1, <2>2, Asked, Unedited, Unlisted, PlainFactors
<1>2. CASE PasswordChecked(b)
  <2>1. /\ request[b] # None /\ request' = [request EXCEPT ![b] = None]
        /\ UNCHANGED <<codes, issued, accepted, reused>>
    BY <1>2 DEF PasswordChecked
  <2>2. PICK u \in Users : u = request[b].user
    BY <2>1 DEF FactorRows, Request
  <2>3. account[u] \in User /\ request[b].typed \in Chosen \cup {Temporary, None}
    BY <2>1 DEF FactorRows, Request
  <2> DEFINE a == [account[u] EXCEPT !.password = request[b].typed, !.outdated = FALSE]
  <2>4. account' = account \/ account' = [account EXCEPT ![u] = a]
    BY <1>2, <2>2 DEF PasswordChecked, FactorRows
  <2>5. a \in User /\ a.secret = account[u].secret /\ a.lastStep = account[u].lastStep
    BY <2>3 DEF User
  <2> HIDE DEF a
  <2>6. account' \in [Users -> User] /\ \A v \in Users : Plain(v)
    BY <2>4, <2>5, Unedited, Edited
  <2> QED
    BY <2>1, <2>6, Unasked, Unlisted, PlainFactors
<1> QED
  BY <1>1, <1>2

LEMMA RecoverFactors ==
    ASSUME TypeOK, FactorRows, NEW b \in Browsers, NEW u \in Users, NEW c \in Typed(u),
           Recover(b, u, c)
    PROVE  FactorRows'
<1>1. UNCHANGED <<request, issued>>
  BY DEF Recover
<1>2. CASE account[u].active /\ Usable(u, c)
  <2>1. Spend(u, c) /\ Accepting(u, c)
        /\ account' = [account EXCEPT ![u].mustChange = TRUE]
    BY <1>2 DEF Recover
  <2>2. account[u] \in User
    BY DEF FactorRows
  <2> DEFINE a == [account[u] EXCEPT !.mustChange = TRUE]
  <2>3. account' = [account EXCEPT ![u] = a]
    BY <2>1 DEF FactorRows
  <2>4. a \in User /\ a.secret = account[u].secret /\ a.lastStep = account[u].lastStep
    BY <2>2 DEF User
  <2> HIDE DEF a
  <2>5. account' \in [Users -> User] /\ \A v \in Users : Plain(v)
    BY <2>3, <2>4, Edited
  <2>6. c \in Proof /\ c.user = u
    BY <1>2, TypedIs DEF Usable
  <2> QED
    BY <1>1, <1>2, <2>1, <2>5, <2>6, SpentListed, Unasked, AcceptFactors
<1>3. CASE ~(account[u].active /\ Usable(u, c))
  <2>1. UNCHANGED <<account, codes, accepted, reused>>
    BY <1>3 DEF Recover
  <2> QED
    BY <1>1, <2>1, Unasked, Unedited, Unlisted, PlainFactors
<1> QED
  BY <1>2, <1>3

\* A step of the account's own secret, which nobody is being shown.
LEMMA StepIs ==
    ASSUME FactorRows, NEW u \in Users, NEW c \in Proof, accept_code(u, account[u].secret, c)
    PROVE  /\ c.kind = "step" /\ c.of = account[u].secret /\ c.of \in 1 .. issued
           /\ account[u].lastStep # None => account[u].lastStep < c.n
           /\ \A b \in Browsers : Shows(b) => request[b].code # c.of
<1>1. /\ c.kind = "step" /\ c.of = account[u].secret
      /\ account[u].lastStep # None => account[u].lastStep < c.n
  BY DEF accept_code, matching_step
<1>2. c.of \in Nat /\ c.of # None
  BY SessionsAssumption DEF Proof
<1>3. c.of \in Secrets
  BY <1>1, <1>2 DEF FactorRows, User
<1>4. c.of <= issued /\ issued \in Nat
  BY <1>1, <1>2, SessionsAssumption DEF FactorRows, SecretsOK
<1>5. \A b \in Browsers : Shows(b) => request[b].code # c.of
  BY <1>1 DEF FactorRows, SecretsOK
<1> QED
  BY <1>1, <1>3, <1>4, <1>5 DEF Secrets

LEMMA EnterCodeFactors ==
    ASSUME TypeOK, FactorRows, SessionRows, NEW b \in Browsers, cookie[b] # None,
           NEW c \in Typed(Who(b)), EnterCode(b, c)
    PROVE  FactorRows'
<1>1. PICK u \in Users : u = Who(b)
  BY DEF EnterCode, Live, Who, SessionRows, UserSession
<1>2. UNCHANGED <<request, issued>>
  BY DEF EnterCode
<1>3. CASE UNCHANGED <<account, codes, accepted, reused>>
  BY <1>2, <1>3, Unasked, Unedited, Unlisted, PlainFactors
<1>4. CASE ~UNCHANGED <<account, codes, accepted, reused>>
  <2>1. /\ accept_code(u, account[u].secret, c) \/ SecondCode(sessions[cookie[b]], u, c)
        /\ Accepting(u, c)
        /\ IF c.kind = "step"
           THEN account' = [account EXCEPT ![u].lastStep = c.n] /\ UNCHANGED codes
           ELSE Spend(u, c) /\ UNCHANGED account
    BY <1>1, <1>4 DEF EnterCode, Who
  <2>2. c # None
    BY <2>1 DEF accept_code, matching_step, SecondCode, Usable
  <2>3. c \in Proof /\ c.user = u
    BY <1>1, <2>2, TypedIs
  <2>4. CASE c.kind = "step"
    <3>1. accept_code(u, account[u].secret, c) /\ account' = [account EXCEPT ![u].lastStep = c.n]
          /\ UNCHANGED codes
      BY <2>1, <2>4 DEF SecondCode, Usable
    <3>2. /\ c.of = account[u].secret /\ c.of \in 1 .. issued
          /\ account[u].lastStep # None => account[u].lastStep < c.n
          /\ \A d \in Browsers : Shows(d) => request[d].code # c.of
      BY <2>3, <3>1, StepIs
    <3>3. account[u] \in User /\ c.n \in Int
      BY <2>3 DEF FactorRows, Proof
    <3> DEFINE a == [account[u] EXCEPT !.lastStep = c.n]
    <3>4. account' = [account EXCEPT ![u] = a]
      BY <3>1 DEF FactorRows
    <3>5. a \in User /\ a.secret = account[u].secret /\ a.lastStep = c.n
      BY <3>3 DEF User
    <3> HIDE DEF a
    <3>6. account' \in [Users -> User] /\ account'[u] = a
          /\ \A v \in Users : v # u => account'[v] = account[v]
      BY <3>4, <3>5 DEF FactorRows
    <3>7. \A v \in Users : Plain(v) \/ Moves(v, c)
      BY <2>3, <3>2, <3>5, <3>6 DEF Plain, Moves
    <3> QED
      BY <1>2, <2>1, <2>3, <2>4, <3>1, <3>2, <3>5, <3>6, <3>7, Unlisted, Unasked, AcceptFactors
  <2>5. CASE c.kind # "step"
    <3>1. Usable(u, c) /\ Spend(u, c) /\ UNCHANGED account
      BY <2>1, <2>5 DEF SecondCode, accept_code, matching_step
    <3> QED
      BY <1>2, <2>1, <2>3, <3>1, SpentListed, Unedited, Unasked, AcceptFactors
  <2> QED
    BY <2>4, <2>5
<1> QED
  BY <1>3, <1>4

LEMMA EnableFactors ==
    ASSUME TypeOK, FactorRows, SessionRows, NEW b \in Browsers, NEW c \in Typed(Who(b)), Enable(b, c)
    PROVE  FactorRows'
<1>1. PICK u \in Users : u = Who(b)
  BY SignedIs DEF Enable, Through, TypeOK
<1>2. /\ UNCHANGED <<request, issued>> /\ accept_code(u, account[u].secret, c)
      /\ account' = [account EXCEPT ![u].enabled = TRUE, ![u].lastStep = c.n]
      /\ FreshList(u) \/ UNCHANGED codes
      /\ Accepting(u, c)
  BY <1>1 DEF Enable
<1>3. c \in Proof /\ c.user = u
  BY <1>1, <1>2, TypedIs DEF accept_code, matching_step
<1>4. /\ c.kind = "step" /\ c.of = account[u].secret /\ c.of \in 1 .. issued
      /\ account[u].lastStep # None => account[u].lastStep < c.n
      /\ \A d \in Browsers : Shows(d) => request[d].code # c.of
  BY <1>2, <1>3, StepIs
<1>5. account[u] \in User /\ c.n \in Int
  BY <1>3 DEF FactorRows, Proof
<1> DEFINE a == [account[u] EXCEPT !.enabled = TRUE, !.lastStep = c.n]
<1>6. account' = [account EXCEPT ![u] = a]
  BY <1>2 DEF FactorRows
<1>7. a \in User /\ a.secret = account[u].secret /\ a.lastStep = c.n
  BY <1>5 DEF User
<1> HIDE DEF a
<1>8. account' \in [Users -> User] /\ account'[u] = a
      /\ \A v \in Users : v # u => account'[v] = account[v]
  BY <1>6, <1>7 DEF FactorRows
<1>9. \A v \in Users : Plain(v) \/ Moves(v, c)
  BY <1>3, <1>4, <1>7, <1>8 DEF Plain, Moves
<1>10. Lists
  BY <1>2, FreshListed, Unlisted
<1> QED
  BY <1>2, <1>3, <1>4, <1>7, <1>8, <1>9, <1>10, Unasked, AcceptFactors

LEMMA SubmitFactors ==
    ASSUME TypeOK, FactorRows, SessionRows, NEW b \in Browsers, NEW p \in Chosen \cup {Temporary},
           \/ \E c \in Typed(Who(b)) : SubmitDisable(b, p, c)
           \/ \E q \in Chosen : SubmitChange(b, p, q)
    PROVE  FactorRows'
<1>1. Signed(b) /\ UNCHANGED <<account, codes, issued, accepted, reused>>
  BY DEF SubmitDisable, SubmitChange, Through
<1>2. PICK u \in Users : u = Who(b)
  BY <1>1, SignedIs DEF TypeOK
<1>3. cookie[b] \in Tokens /\ account[u] \in User
  BY <1>1, SignedIs DEF TypeOK
<1>4. CASE \E c \in Typed(Who(b)) : SubmitDisable(b, p, c)
  <2>1. PICK c \in Typed(u) : SubmitDisable(b, p, c)
    BY <1>2, <1>4
  <2> DEFINE r == [kind |-> "disable", user |-> u, typed |-> p, code |-> c, next |-> None,
                   read |-> account[u], token |-> cookie[b]]
  <2>2. request' = [request EXCEPT ![b] = r]
    BY <1>2, <2>1 DEF SubmitDisable
  <2>3. c # None => c \in Proof /\ c.user = u
    BY TypedIs
  <2>4. Request(r) /\ r.kind # "page" /\ r.read = account[r.user]
    BY <1>3, <2>3 DEF Request
  <2> HIDE DEF r
  <2> QED
    BY <1>1, <2>2, <2>4, Asked, Unedited, Unlisted, PlainFactors
<1>5. CASE \E q \in Chosen : SubmitChange(b, p, q)
  <2>1. PICK q \in Chosen : SubmitChange(b, p, q)
    BY <1>5
  <2> DEFINE r == [kind |-> "change", user |-> u, typed |-> p, code |-> None, next |-> q,
                   read |-> account[u], token |-> cookie[b]]
  <2>2. request' = [request EXCEPT ![b] = r]
    BY <1>2, <2>1 DEF SubmitChange
  <2>3. Request(r) /\ r.kind # "page" /\ r.kind # "disable"
    BY <1>3 DEF Request
  <2> HIDE DEF r
  <2> QED
    BY <1>1, <2>2, <2>3, Asked, Unedited, Unlisted, PlainFactors
<1> QED
  BY <1>4, <1>5

\* The factor goes off on a code of the secret that was read, or of the list there is.
LEMMA DisableCheckedFactors ==
    ASSUME FactorRows, NEW b \in Browsers, DisableChecked(b)
    PROVE  FactorRows'
<1>1. /\ request[b] # None /\ request[b].kind = "disable" /\ UNCHANGED issued
      /\ request' = [request EXCEPT ![b] = None] /\ Request(request[b])
  BY DEF DisableChecked, FactorRows
<1>2. PICK u \in Users : u = request[b].user
  BY <1>1 DEF Request
<1>3. PICK c : c = request[b].code
  OBVIOUS
<1>4. PICK secret \in Secrets \cup {None} : secret = request[b].read.secret
  BY <1>1 DEF Request, User
<1>5. CASE UNCHANGED <<account, codes, accepted, reused>>
  BY <1>1, <1>5, Unasked, Unedited, Unlisted, PlainFactors
<1>6. CASE ~UNCHANGED <<account, codes, accepted, reused>>
  <2>1. /\ accept_code(u, secret, c) \/ Usable(u, c)
        /\ account' = [account EXCEPT ![u] = Disabled(account[u])]
        /\ IF accept_code(u, secret, c) THEN UNCHANGED codes ELSE Spend(u, c)
        /\ Accepting(u, c)
    BY <1>1, <1>2, <1>3, <1>4, <1>6 DEF DisableChecked, FactorRows
  <2>2. c \in Proof /\ c.user = u
    BY <1>1, <1>2, <1>3, <2>1 DEF Request, accept_code, matching_step, Usable
  <2>3. account[u] \in User
    BY DEF FactorRows
  <2>4. Disabled(account[u]) \in User /\ Disabled(account[u]).secret = None
    BY <2>3 DEF Disabled, User
  <2>5. account' \in [Users -> User] /\ account'[u].secret = None
        /\ \A v \in Users : Plain(v)
    BY <2>1, <2>4 DEF FactorRows, Plain
  <2>6. CASE accept_code(u, secret, c)
    <3>1. /\ c.kind = "step" /\ c.of = secret
          /\ account[u].lastStep # None => account[u].lastStep < c.n
      BY <2>6 DEF accept_code, matching_step
    <3>2. c.of \in Nat /\ c.of # None
      BY <2>2, SessionsAssumption DEF Proof
    <3>3. c.of \in Secrets /\ Turns(b)
      BY <1>1, <3>1, <3>2 DEF Turns
    <3>4. c.of <= issued /\ issued \in Nat
      BY <1>4, <3>1, <3>2, <3>3, SessionsAssumption DEF FactorRows, SecretsOK
    <3>5. c.of \in 1 .. issued
      BY <3>3, <3>4 DEF Secrets
    <3>6. \A d \in Browsers : Shows(d) => request[d].code # c.of
      BY <1>4, <3>1, <3>3 DEF FactorRows, SecretsOK
    <3>7. account'[u].secret # c.of
      BY <2>5, <3>2
    <3> QED
      BY <1>1, <2>1, <2>2, <2>5, <2>6, <3>1, <3>5, <3>6, <3>7, Unlisted, Unasked, AcceptFactors
  <2>7. CASE ~accept_code(u, secret, c)
    <3>1. Usable(u, c) /\ Spend(u, c)
      BY <2>1, <2>7
    <3> QED
      BY <1>1, <2>1, <2>2, <2>5, <3>1, SpentListed, Unasked, AcceptFactors
  <2> QED
    BY <2>6, <2>7
<1> QED
  BY <1>5, <1>6

\* A new secret is decided on, nobody's yet.
LEMMA ReadProfileFactors ==
    ASSUME TypeOK, FactorRows, SessionRows, NEW b \in Browsers, ReadProfile(b)
    PROVE  FactorRows'
<1>1. Signed(b) /\ UNCHANGED <<account, codes, accepted, reused>>
      /\ issued < MaxSecrets /\ issued' = issued + 1 /\ request[b] = None
  BY DEF ReadProfile
<1>2. PICK u \in Users : u = Who(b)
  BY <1>1, SignedIs DEF TypeOK
<1>3. PICK n \in Nat : n = issued + 1 /\ n \in Secrets
  BY <1>1, SessionsAssumption DEF FactorRows, Secrets
<1> DEFINE r == [kind |-> "page", user |-> u, typed |-> None, code |-> n, next |-> None,
                 read |-> account[u], token |-> None]
<1>4. request' = [request EXCEPT ![b] = r]
  BY <1>2, <1>3 DEF ReadProfile
<1>5. Request(r) /\ r.kind = "page" /\ r.code = n
  BY <1>3 DEF Request, FactorRows
<1> HIDE DEF r
<1>6. DOMAIN request' = Browsers /\ request'[b] = r
      /\ \A d \in Browsers : d # b => request'[d] = request[d]
  BY <1>4 DEF FactorRows
<1>7. issued' \in 0 .. MaxSecrets /\ issued \in Nat /\ issued' = n /\ n = issued + 1
  BY <1>1, <1>3, SessionsAssumption DEF FactorRows
<1>8. \A d \in Browsers : request'[d] # None => Request(request'[d])
  BY <1>5, <1>6 DEF FactorRows
<1>9. \A v \in Users : account[v].secret \in Nat \cup {None}
  BY SessionsAssumption DEF FactorRows, User, Secrets
<1>10. \A d \in Browsers : Turns(d)' => Turns(d) /\ request'[d] = request[d]
                                        /\ request[d].read.secret \in Nat \cup {None}
  BY <1>5, <1>6, SessionsAssumption DEF Turns, FactorRows, Request, User, Secrets
<1>11. \A d \in Browsers : Shows(d)' /\ d # b => Shows(d) /\ request'[d] = request[d]
                                                 /\ request[d].code \in Nat
  BY <1>6, SessionsAssumption DEF Shows, FactorRows, Request, Secrets
<1>12. SecretsOK /\ n # None
  BY SessionsAssumption DEF FactorRows
<1>13. SecretsOK'
  <2>1. \A v \in Users : account'[v].secret # None => account'[v].secret <= issued'
    BY <1>1, <1>7, <1>9, <1>12 DEF SecretsOK
  <2>2. \A d \in Browsers : Turns(d)' /\ request'[d].read.secret # None =>
           request'[d].read.secret <= issued'
    BY <1>7, <1>10, <1>12 DEF SecretsOK
  <2>3. \A v \in Users : account'[v].secret # n
    BY <1>1, <1>7, <1>9, <1>12 DEF SecretsOK
  <2>4. \A d \in Browsers : Turns(d)' => request'[d].read.secret # n
    BY <1>7, <1>10, <1>12 DEF SecretsOK
  <2>5. \A d \in Browsers : Shows(d)' /\ d # b => request'[d].code <= issued /\ request'[d].code # n
    BY <1>7, <1>11, <1>12 DEF SecretsOK
  <2>6. ASSUME NEW e \in Browsers, Shows(e)'
        PROVE  /\ request'[e].code <= issued'
               /\ \A v \in Users : account'[v].secret # request'[e].code
               /\ \A d \in Browsers : Turns(d)' => request'[d].read.secret # request'[e].code
               /\ \A d \in Browsers : Shows(d)' /\ request'[d].code = request'[e].code => d = e
    <3>1. CASE e = b
      BY <1>5, <1>6, <1>7, <2>3, <2>4, <2>5, <3>1
    <3>2. CASE e # b
      <4>1. Shows(e) /\ request'[e] = request[e] /\ request[e].code \in Nat
        BY <1>11, <2>6, <3>2
      <4>2. /\ request[e].code <= issued
            /\ \A v \in Users : account[v].secret # request[e].code
            /\ \A d \in Browsers : Turns(d) => request[d].read.secret # request[e].code
            /\ \A d \in Browsers : Shows(d) /\ request[d].code = request[e].code => d = e
        BY <1>12, <4>1 DEF SecretsOK
      <4>3. request'[b].code # request'[e].code
        BY <1>5, <1>6, <2>5, <2>6, <3>2
      <4>4. \A d \in Browsers : Shows(d)' /\ request'[d].code = request'[e].code => d = e
        BY <1>11, <4>1, <4>2, <4>3
      <4> QED
        BY <1>1, <1>7, <1>10, <4>1, <4>2, <4>4
    <3> QED
      BY <3>1, <3>2
  <2> QED
    BY <2>1, <2>2, <2>6 DEF SecretsOK
<1>14. Lists
  BY <1>1, Unlisted
<1>15. \A d \in Browsers : Shows(d)' => (Shows(d) /\ request'[d].code = request[d].code)
                                            \/ issued < request'[d].code
  BY <1>5, <1>6, <1>7, <1>11
<1>16. ASSUME NEW c \in accepted
       PROVE  Over(c)'
  <2>1. Over(c) /\ c.user \in Users
    BY DEF FactorRows, AcceptedOK, Over, Proof
  <2>2. account[c.user].lastStep \in Int \cup {None}
    BY <2>1 DEF FactorRows, User
  <2>3. c.kind = "step" /\ account'[c.user].secret = c.of =>
           account[c.user].secret = c.of /\ account'[c.user].lastStep # None
              /\ account[c.user].lastStep <= account'[c.user].lastStep
              /\ account'[c.user].lastStep \in Int
    BY <1>1, <2>1, <2>2 DEF Over
  <2>4. issued' \in Nat /\ issued <= issued'
    BY <1>7
  <2> QED
    BY <1>14, <1>15, <2>3, <2>4, StaysOver
<1> QED
  BY <1>1, <1>6, <1>7, <1>8, <1>13, <1>16 DEF FactorRows, AcceptedOK, OneUseEach

\* The secret shown becomes the account's: no code of it has been accepted.
LEMMA ShowProfileFactors ==
    ASSUME FactorRows, NEW b \in Browsers, ShowProfile(b)
    PROVE  FactorRows'
<1>1. /\ request[b] # None /\ request[b].kind = "page" /\ Shows(b) /\ Request(request[b])
      /\ request' = [request EXCEPT ![b] = None]
      /\ UNCHANGED <<codes, issued, accepted, reused>>
  BY DEF ShowProfile, FactorRows, Shows
<1>2. PICK u \in Users : u = request[b].user
  BY <1>1 DEF Request
<1>3. PICK s \in Secrets : s = request[b].code
  BY <1>1 DEF Request
<1>4. account[u] \in User
  BY DEF FactorRows
<1> DEFINE a == [account[u] EXCEPT !.secret = s]
<1>5. account' = [account EXCEPT ![u] = a]
  BY <1>2, <1>3 DEF ShowProfile, FactorRows
<1>6. a \in User /\ a.secret = s /\ a.lastStep = account[u].lastStep
  BY <1>4 DEF User
<1> HIDE DEF a
<1>7. account' \in [Users -> User] /\ account'[u].secret = s
      /\ \A v \in Users : v # u => account'[v] = account[v]
      /\ account'[u].lastStep = account[u].lastStep
  BY <1>5, <1>6 DEF FactorRows
<1>8. DOMAIN request' = Browsers /\ \A d \in Browsers : Asks(d)
  BY <1>1, Unasked
<1>9. \A d \in Browsers : request'[d] # None => d # b /\ request'[d] = request[d]
  BY <1>1 DEF FactorRows
<1>10. \A d \in Browsers : request'[d] # None => Request(request'[d])
  BY <1>9 DEF FactorRows
<1>11. SecretsOK /\ s # None /\ s \in Nat
  BY SessionsAssumption DEF FactorRows, Secrets
<1>12. /\ s <= issued
       /\ \A v \in Users : account[v].secret # s
       /\ \A d \in Browsers : Turns(d) => request[d].read.secret # s
       /\ \A d \in Browsers : Shows(d) /\ request[d].code = s => d = b
  BY <1>1, <1>3, <1>11 DEF SecretsOK
<1>13. SecretsOK'
  <2>1. \A v \in Users : account'[v].secret # None => account'[v].secret <= issued'
    BY <1>1, <1>7, <1>11, <1>12 DEF SecretsOK
  <2>2. \A d \in Browsers : Turns(d)' => Turns(d) /\ request'[d] = request[d]
    BY <1>9 DEF Turns
  <2>3. \A d \in Browsers : Shows(d)' => Shows(d) /\ request'[d] = request[d] /\ d # b
    BY <1>9 DEF Shows
  <2>4. \A d \in Browsers : Turns(d)' /\ request'[d].read.secret # None =>
           request'[d].read.secret <= issued'
    BY <1>1, <1>11, <2>2 DEF SecretsOK
  <2>5. ASSUME NEW e \in Browsers, Shows(e)'
        PROVE  /\ request'[e].code <= issued'
               /\ \A v \in Users : account'[v].secret # request'[e].code
               /\ \A d \in Browsers : Turns(d)' => request'[d].read.secret # request'[e].code
               /\ \A d \in Browsers : Shows(d)' /\ request'[d].code = request'[e].code => d = e
    <3>1. Shows(e) /\ request'[e] = request[e] /\ e # b
      BY <2>3, <2>5
    <3>2. request[e].code # s
      BY <1>12, <3>1
    <3>3. /\ request[e].code <= issued
          /\ \A v \in Users : account[v].secret # request[e].code
          /\ \A d \in Browsers : Turns(d) => request[d].read.secret # request[e].code
          /\ \A d \in Browsers : Shows(d) /\ request[d].code = request[e].code => d = e
      BY <1>11, <3>1 DEF SecretsOK
    <3> QED
      BY <1>1, <1>7, <2>2, <2>3, <3>1, <3>2, <3>3
  <2> QED
    BY <2>1, <2>4, <2>5 DEF SecretsOK
<1>14. Lists
  BY <1>1, Unlisted
<1>15. \A d \in Browsers : Shows(d)' => Shows(d) /\ request'[d].code = request[d].code
  BY <1>9 DEF Shows
<1>16. ASSUME NEW c \in accepted
       PROVE  Over(c)'
  <2>1. Over(c) /\ c.user \in Users
    BY DEF FactorRows, AcceptedOK, Over, Proof
  <2>2. account[c.user].lastStep \in Int \cup {None}
    BY <2>1 DEF FactorRows, User
  <2>3. c.kind = "step" => c.of # s
    BY <1>1, <1>3, <2>1 DEF Over
  <2>4. c.kind = "step" /\ account'[c.user].secret = c.of =>
           account[c.user].secret = c.of /\ account'[c.user].lastStep # None
              /\ account[c.user].lastStep <= account'[c.user].lastStep
              /\ account'[c.user].lastStep \in Int
    BY <1>7, <2>1, <2>2, <2>3 DEF Over
  <2>5. issued' \in Nat /\ issued <= issued'
    BY <1>1, SessionsAssumption DEF FactorRows
  <2> QED
    BY <1>14, <1>15, <2>4, <2>5, StaysOver
<1> QED
  BY <1>1, <1>7, <1>8, <1>10, <1>13, <1>16 DEF FactorRows, AcceptedOK, OneUseEach

LEMMA ChangeCheckedFactors ==
    ASSUME FactorRows, NEW b \in Browsers, ChangeChecked(b)
    PROVE  FactorRows'
<1>1. /\ request[b] # None /\ request[b].kind = "change" /\ Request(request[b])
      /\ request' = [request EXCEPT ![b] = None]
      /\ UNCHANGED <<codes, issued, accepted, reused>>
  BY DEF ChangeChecked, FactorRows
<1>2. PICK u \in Users : u = request[b].user
  BY <1>1 DEF Request
<1>3. account[u] \in User /\ request[b].next \in Chosen
  BY <1>1 DEF FactorRows, Request
<1> DEFINE a == [account[u] EXCEPT !.password = request[b].next, !.mustChange = FALSE,
                                   !.outdated = FALSE]
<1>4. account' = account \/ account' = [account EXCEPT ![u] = a]
  BY <1>2 DEF ChangeChecked, FactorRows
<1>5. a \in User /\ a.secret = account[u].secret /\ a.lastStep = account[u].lastStep
  BY <1>3 DEF User
<1> HIDE DEF a
<1>6. account' \in [Users -> User] /\ \A v \in Users : Plain(v)
  BY <1>4, <1>5, Unedited, Edited
<1> QED
  BY <1>1, <1>6, Unasked, Unlisted, PlainFactors

LEMMA OthersFactors ==
    ASSUME FactorRows, NEW u \in Users, Others(u)
    PROVE  FactorRows'
<1>1. UNCHANGED <<codes, request, issued, accepted, reused>>
  BY DEF Others, Deactivate, Activate, ResetPassword, ClearFactor, RecoverCommand
<1>2. account[u] \in User
  BY DEF FactorRows
<1> DEFINE Kept(a) == a.secret = None \/ (a.secret = account[u].secret /\ a.lastStep = account[u].lastStep)
<1>3. \A a \in User : /\ Handed(a) \in User /\ Disabled(a) \in User
                      /\ Handed(a).secret = a.secret /\ Handed(a).lastStep = a.lastStep
                      /\ Disabled(a).secret = None
  BY DEF User, Handed, Disabled
<1>4. \A a \in User, on \in BOOLEAN : /\ [a EXCEPT !.active = on] \in User
                                      /\ [a EXCEPT !.active = on].secret = a.secret
                                      /\ [a EXCEPT !.active = on].lastStep = a.lastStep
  BY DEF User
<1>5. CASE Deactivate(u) \/ Activate(u)
  <2>1. \E on \in BOOLEAN : account' = [account EXCEPT ![u] = [account[u] EXCEPT !.active = on]]
    BY <1>5 DEF Deactivate, Activate, FactorRows
  <2>2. account' \in [Users -> User] /\ \A v \in Users : Plain(v)
    BY <1>2, <1>4, <2>1, Edited
  <2> QED
    BY <1>1, <2>2, Unasked, Unlisted, PlainFactors
<1>6. CASE ResetPassword(u) \/ ClearFactor(u)
  <2>1. account' = [account EXCEPT ![u] = Handed(account[u])]
        \/ account' = [account EXCEPT ![u] = Disabled(account[u])]
    BY <1>6 DEF ResetPassword, ClearFactor, FactorRows
  <2>2. account' \in [Users -> User] /\ \A v \in Users : Plain(v)
    BY <1>2, <1>3, <2>1, Edited
  <2> QED
    BY <1>1, <2>2, Unasked, Unlisted, PlainFactors
<1>7. CASE \E asked \in SUBSET {"--password", "--keep-2fa", "--clear-2fa", "--activate"} :
              RecoverCommand(u, asked)
  <2>1. PICK asked \in SUBSET {"--password", "--keep-2fa", "--clear-2fa", "--activate"} :
                RecoverCommand(u, asked)
    BY <1>7
  <2> DEFINE a == account[u]
             recovered == IF "--password" \in asked THEN set_password(a, "--keep-2fa" \in asked)
                          ELSE IF "--clear-2fa" \in asked THEN Disabled(a) ELSE a
  <2>2. account' = [account EXCEPT ![u] = [recovered EXCEPT !.active = @ \/ "--activate" \in asked]]
    BY <2>1 DEF RecoverCommand
  <2>3. recovered \in User /\ Kept(recovered)
    BY <1>2, <1>3 DEF set_password
  <2> HIDE DEF recovered
  <2>4. PICK row \in User : row = recovered
    BY <2>3
  <2>5. PICK on \in BOOLEAN : on = (recovered.active \/ "--activate" \in asked)
    OBVIOUS
  <2>6. account' = [account EXCEPT ![u] = [row EXCEPT !.active = on]]
    BY <2>2, <2>4, <2>5
  <2>7. [row EXCEPT !.active = on] \in User /\ Kept([row EXCEPT !.active = on])
    BY <1>4, <2>3, <2>4
  <2>8. account' \in [Users -> User] /\ \A v \in Users : Plain(v)
    BY <2>6, <2>7, Edited
  <2> QED
    BY <1>1, <2>8, Unasked, Unlisted, PlainFactors
<1> QED
  BY <1>5, <1>6, <1>7 DEF Others

LEMMA NextFactors ==
    ASSUME TypeOK, FactorRows, SessionRows, Next
    PROVE  FactorRows'
<1> DEFINE Still == UNCHANGED <<account, codes, issued, accepted, reused, request>>
<1>0. CASE Still
  BY <1>0, Unedited, Unasked, Unlisted, PlainFactors
<1>1. ASSUME NEW b \in Browsers, SigningIn(b)
      PROVE  FactorRows'
  BY <1>1, LoginFactors, RecoverFactors, EnterCodeFactors DEF SigningIn
<1>2. ASSUME NEW b \in Browsers, Staying(b)
      PROVE  FactorRows'
  BY <1>0, <1>2 DEF Staying, Visit, TurnedAway, Logout, RevokeOthers, Revoke
<1>3. ASSUME NEW b \in Browsers, Profile(b)
      PROVE  FactorRows'
  <2>1. CASE ReissueCodes(b)
    <3>1. FreshList(Who(b)) /\ Signed(b) /\ UNCHANGED <<account, request, issued, accepted, reused>>
      BY <2>1 DEF ReissueCodes, Through
    <3>2. Who(b) \in Users
      BY <3>1, SignedIs DEF TypeOK
    <3> QED
      BY <3>1, <3>2, FreshListed, Unedited, Unasked, PlainFactors
  <2>2. CASE \E p \in Chosen \cup {Temporary} :
                (\E c \in Typed(Who(b)) : SubmitDisable(b, p, c)) \/ \E q \in Chosen : SubmitChange(b, p, q)
    BY <2>2, SubmitFactors
  <2> QED
    BY <1>3, <2>1, <2>2, ReadProfileFactors, ShowProfileFactors, EnableFactors,
       DisableCheckedFactors, ChangeCheckedFactors DEF Profile
<1>4. ASSUME NEW u \in Users, Others(u)
      PROVE  FactorRows'
  BY <1>4, OthersFactors
<1>5. CASE housekeeping \/ Tick
  BY <1>0, <1>5 DEF housekeeping, purge_expired_sessions, purge_old_login_attempts, Tick
<1> QED
  BY <1>1, <1>2, <1>3, <1>4, <1>5 DEF Next

-----------------------------------------------------------------------------
(***************************************************************************)
(* Guesses.                                                                *)
(***************************************************************************)
GuessRows ==
    /\ failures \in [Users -> SUBSET LoginAttempt] /\ now \in 0 .. LastTick /\ GuessesOK

LEMMA Counted ==
    ASSUME GuessRows, NEW u \in Users
    PROVE  /\ IsFiniteSet(failures[u]) /\ IsFiniteSet(Recent(u)) /\ IsFiniteSet(Guessed(u))
           /\ IsFiniteSet(Trying(u))
           /\ Cardinality(Recent(u)) \in Nat /\ Cardinality(Guessed(u)) \in Nat
           /\ Cardinality(Trying(u)) \in Nat /\ Cardinality(Browsers) \in Nat
           /\ Cardinality(Guessed(u)) <= Cardinality(Recent(u))
           /\ Cardinality(Trying(u)) <= Cardinality(Browsers)
<1>1. IsFiniteSet(failures[u]) /\ IsFiniteSet(Browsers)
  BY SessionsAssumption DEF GuessRows, GuessesOK
<1>2. \A f \in failures[u] : f.at \in Nat
  BY SessionsAssumption DEF GuessRows, LoginAttempt
<1>3. now - Window \in Int
  BY SessionsAssumption DEF GuessRows
<1>4. Recent(u) \in SUBSET failures[u] /\ Guessed(u) \in SUBSET Recent(u)
      /\ Trying(u) \in SUBSET Browsers
  BY <1>2, <1>3 DEF Recent, Guessed, Trying
<1> QED
  BY <1>1, <1>4, FS_Subset, FS_CardinalityType

\* While an account may be tried at all, fewer guesses than the limit are in the window.
LEMMA OpenMeansFew ==
    ASSUME GuessRows, Lockout = Window, NEW u \in Users, ~is_locked(u)
    PROVE  Cardinality(Guessed(u)) <= MaxAttempts - 1
<1>1. /\ Cardinality(Recent(u)) \in Nat /\ Cardinality(Guessed(u)) \in Nat
      /\ Cardinality(Guessed(u)) <= Cardinality(Recent(u)) /\ IsFiniteSet(Guessed(u))
      /\ MaxAttempts \in Nat \ {0}
  BY Counted, SessionsAssumption
<1>2. CASE Cardinality(Recent(u)) < MaxAttempts
  BY <1>1, <1>2
<1>3. CASE ~(Cardinality(Recent(u)) < MaxAttempts)
  <2>1. \A f \in Recent(u) : ~(now < f.at + Window)
    BY <1>1, <1>3 DEF is_locked
  <2>2. now \in Int /\ Window \in Int /\ \A f \in failures[u] : f.at \in Int
    BY SessionsAssumption DEF GuessRows, LoginAttempt
  <2>3. Guessed(u) = {}
    BY <2>1, <2>2 DEF Guessed, Recent
  <2> QED
    BY <1>1, <2>3, FS_EmptySet
<1> QED
  BY <1>2, <1>3

\* The guesses and those under way, when both only become fewer.
LEMMA FewerGuesses ==
    ASSUME GuessRows, now' \in 0 .. LastTick, now <= now',
           failures' \in [Users -> SUBSET LoginAttempt],
           \A u \in Users : failures'[u] \subseteq failures[u],
           \A b \in Browsers : request'[b] # None /\ request'[b].kind = "login" =>
              request'[b] = request[b]
    PROVE  GuessRows'
<1>1. ASSUME NEW u \in Users
      PROVE  /\ IsFiniteSet(failures'[u])
             /\ Cardinality(Guessed(u)') <= Cardinality(Guessed(u)) /\ Cardinality(Guessed(u)') \in Nat
             /\ Cardinality(Trying(u)') <= Cardinality(Trying(u)) /\ Cardinality(Trying(u)') \in Nat
  <2>1. IsFiniteSet(failures[u]) /\ IsFiniteSet(Guessed(u)) /\ IsFiniteSet(Trying(u))
    BY Counted
  <2>2. Trying(u)' \in SUBSET Trying(u)
    BY DEF Trying
  <2>3. now \in Int /\ now' \in Int /\ Window \in Int /\ \A f \in failures[u] : f.at \in Int
    BY SessionsAssumption DEF GuessRows, LoginAttempt
  <2>4. Guessed(u)' \in SUBSET Guessed(u)
    BY <2>3 DEF Guessed
  <2> QED
    BY <2>1, <2>2, <2>4, FS_Subset, FS_CardinalityType
<1>2. \A u \in Users : Cardinality(Guessed(u)) \in Nat /\ Cardinality(Trying(u)) \in Nat
  BY Counted
<1>3. Cardinality(Browsers) \in Nat /\ MaxAttempts \in Nat
  BY SessionsAssumption, FS_CardinalityType
<1>4. GuessesOK
  BY DEF GuessRows
<1>5. Lockout = Window /\ Retention >= Window => \A u \in Users :
         Cardinality(Guessed(u)') + Cardinality(Trying(u)') < MaxAttempts + Cardinality(Browsers)
  BY <1>1, <1>2, <1>3, <1>4 DEF GuessesOK
<1> QED
  BY <1>1, <1>5 DEF GuessRows, GuessesOK

LEMMA Transits ==
    ASSUME NEW i \in Nat, NEW j \in Nat, NEW k \in Nat, i <= j, j <= k + 1
    PROVE  i <= k + 1
  OBVIOUS

\* One attempt more has failed.
LEMMA FailedIs ==
    ASSUME GuessRows, NEW u \in Users, Failed(u), now' = now
    PROVE  /\ failures' \in [Users -> SUBSET LoginAttempt]
           /\ \A v \in Users : IsFiniteSet(failures'[v]) /\ (v # u => failures'[v] = failures[v])
           /\ Cardinality(Guessed(u)') <= Cardinality(Guessed(u)) + 1
           /\ Cardinality(Guessed(u)') \in Nat
<1> DEFINE row == [at |-> now, nth |-> Cardinality({f \in failures[u] : f.at = now}) + 1]
<1>1. failures' = [failures EXCEPT ![u] = Recent(u) \cup {row}]
  BY DEF Failed
<1>2. {f \in failures[u] : f.at = now} \in SUBSET failures[u] /\ IsFiniteSet(failures[u])
  BY Counted
<1>3. Cardinality({f \in failures[u] : f.at = now}) \in Nat
  BY <1>2, FS_Subset, FS_CardinalityType
<1>4. row \in LoginAttempt
  BY <1>3 DEF LoginAttempt, GuessRows
<1> HIDE DEF row
<1>5. Recent(u) \subseteq failures[u]
  BY DEF Recent
<1>6. failures' \in [Users -> SUBSET LoginAttempt] /\ failures'[u] = Recent(u) \cup {row}
      /\ \A v \in Users : v # u => failures'[v] = failures[v]
  BY <1>1, <1>4, <1>5 DEF GuessRows
<1>7. IsFiniteSet(Recent(u)) /\ IsFiniteSet(Guessed(u)) /\ \A v \in Users : IsFiniteSet(failures[v])
  BY Counted
<1>8. IsFiniteSet(Recent(u) \cup {row})
  BY <1>7, FS_AddElement
<1>9. Guessed(u)' \in SUBSET (Guessed(u) \cup {row})
  BY <1>5, <1>6 DEF Guessed
<1>10. /\ IsFiniteSet(Guessed(u) \cup {row})
       /\ Cardinality(Guessed(u) \cup {row}) <= Cardinality(Guessed(u)) + 1
       /\ Cardinality(Guessed(u)) \in Nat
  <2>1. Cardinality(Guessed(u)) \in Nat
    BY <1>7, FS_CardinalityType
  <2>2. IsFiniteSet(Guessed(u) \cup {row})
    BY <1>7, FS_AddElement
  <2>3. CASE row \in Guessed(u)
    <3>1. Guessed(u) \cup {row} = Guessed(u)
      BY <2>3
    <3>2. Cardinality(Guessed(u) \cup {row}) = Cardinality(Guessed(u))
      BY ONLY <3>1, Zenon
    <3>3. Cardinality(Guessed(u)) <= Cardinality(Guessed(u)) + 1
      BY <2>1
    <3> QED
      BY <2>1, <2>2, <3>2, <3>3
  <2>4. CASE row \notin Guessed(u)
    <3>1. Cardinality(Guessed(u) \cup {row}) = Cardinality(Guessed(u)) + 1
      BY <1>7, <2>4, FS_AddElement
    <3> QED
      BY <2>1, <2>2, <3>1
  <2> QED
    BY <2>3, <2>4
<1>11. IsFiniteSet(Guessed(u)') /\ Cardinality(Guessed(u)') <= Cardinality(Guessed(u) \cup {row})
  BY <1>9, <1>10, FS_Subset
<1>12. Cardinality(Guessed(u)') \in Nat /\ Cardinality(Guessed(u) \cup {row}) \in Nat
  BY <1>10, <1>11, FS_CardinalityType
<1>13. Cardinality(Guessed(u)') <= Cardinality(Guessed(u)) + 1
  <2> HIDE DEF row
  <2> QED
    BY <1>10, <1>11, <1>12, Transits
<1>14. \A v \in Users : IsFiniteSet(failures'[v])
  <2>1. IsFiniteSet(failures'[u])
    BY <1>6, <1>8
  <2> QED
    BY <1>6, <1>7, <2>1
<1> QED
  BY <1>6, <1>12, <1>13, <1>14

\* One attempt more has failed, and there was room for it.
LEMMA FailedGuesses ==
    ASSUME GuessRows, NEW u \in Users, Failed(u), now' = now,
           \A v \in Users : v # u => Trying(v)' \subseteq Trying(v),
           Cardinality(Trying(u)') \in Nat,
           Lockout = Window /\ Retention >= Window =>
              Cardinality(Guessed(u)) + 1 + Cardinality(Trying(u)')
                 < MaxAttempts + Cardinality(Browsers)
    PROVE  GuessRows'
<1>1. /\ failures' \in [Users -> SUBSET LoginAttempt]
      /\ \A v \in Users : IsFiniteSet(failures'[v]) /\ (v # u => failures'[v] = failures[v])
      /\ Cardinality(Guessed(u)') <= Cardinality(Guessed(u)) + 1
      /\ Cardinality(Guessed(u)') \in Nat
  BY FailedIs
<1>2. ASSUME Lockout = Window /\ Retention >= Window, NEW v \in Users
      PROVE  Cardinality(Guessed(v)') + Cardinality(Trying(v)') < MaxAttempts + Cardinality(Browsers)
  <2>1. /\ Cardinality(Guessed(v)) \in Nat /\ Cardinality(Trying(v)) \in Nat
        /\ IsFiniteSet(Trying(v)) /\ Cardinality(Browsers) \in Nat /\ MaxAttempts \in Nat
    BY Counted, SessionsAssumption
  <2>2. Cardinality(Guessed(v)) + Cardinality(Trying(v)) < MaxAttempts + Cardinality(Browsers)
    BY <1>2 DEF GuessRows, GuessesOK
  <2>3. CASE v = u
    <3>1. Cardinality(Guessed(u)) \in Nat
      BY <2>1, <2>3
    <3>2. Cardinality(Guessed(u)) + 1 + Cardinality(Trying(u)')
             < MaxAttempts + Cardinality(Browsers)
      BY <1>2
    <3>3. Cardinality(Guessed(u)') + Cardinality(Trying(u)') < MaxAttempts + Cardinality(Browsers)
      BY <1>1, <2>1, <3>1, <3>2
    <3> QED
      BY <2>3, <3>3
  <2>4. CASE v # u
    <3>1. Guessed(v)' = Guessed(v)
      BY <1>1, <2>4 DEF Guessed
    <3>2. Cardinality(Guessed(v)') = Cardinality(Guessed(v))
      BY ONLY <3>1, Zenon
    <3>3. Trying(v)' \in SUBSET Trying(v)
      BY <2>4
    <3>4. Cardinality(Trying(v)') <= Cardinality(Trying(v)) /\ Cardinality(Trying(v)') \in Nat
      BY <2>1, <3>3, FS_Subset, FS_CardinalityType
    <3> QED
      BY <2>1, <2>2, <3>2, <3>4
  <2> QED
    BY <2>3, <2>4
<1>3. now' \in 0 .. LastTick
  BY DEF GuessRows
<1> QED
  BY <1>1, <1>2, <1>3 DEF GuessRows, GuessesOK

\* A code that failed, of a browser with nothing else under way.
LEMMA CodeFailed ==
    ASSUME GuessRows, NEW b \in Browsers, request[b] = None, NEW u \in Users, ~is_locked(u),
           Failed(u), now' = now, request' = request
    PROVE  GuessRows'
<1>1. \A v \in Users : Trying(v)' = Trying(v)
  BY DEF Trying
<1>2. Trying(u) \in SUBSET (Browsers \ {b})
  BY DEF Trying
<1>3. /\ IsFiniteSet(Browsers) /\ Cardinality(Browsers) \in Nat /\ Cardinality(Trying(u)) \in Nat
      /\ Cardinality(Guessed(u)) \in Nat /\ MaxAttempts \in Nat
  BY Counted, SessionsAssumption
<1>4. IsFiniteSet(Browsers \ {b}) /\ Cardinality(Browsers \ {b}) = Cardinality(Browsers) - 1
  BY <1>3, FS_RemoveElement
<1>5. Cardinality(Trying(u)) <= Cardinality(Browsers) - 1
  BY <1>2, <1>4, FS_Subset
<1>6. Lockout = Window => Cardinality(Guessed(u)) <= MaxAttempts - 1
  BY OpenMeansFew
<1>7. Cardinality(Trying(u)') = Cardinality(Trying(u))
  BY <1>1, Zenon
<1>8. Lockout = Window => Cardinality(Guessed(u)) + 1 + Cardinality(Trying(u)')
                            < MaxAttempts + Cardinality(Browsers)
  BY <1>3, <1>5, <1>6, <1>7
<1> QED
  BY <1>1, <1>3, <1>7, <1>8, FailedGuesses

LEMMA SubmitPasswordGuesses ==
    ASSUME TypeOK, GuessRows, NEW b \in Browsers, NEW u \in Users, NEW p, SubmitPassword(b, u, p)
    PROVE  GuessRows'
<1>1. /\ request[b] = None /\ ~is_locked(u) /\ failures' = failures /\ now' = now
      /\ \A d \in Browsers : d # b => request'[d] = request[d]
      /\ request'[b].user = u
  BY DEF SubmitPassword, TypeOK
<1>2. ASSUME Lockout = Window /\ Retention >= Window, NEW v \in Users
      PROVE  Cardinality(Guessed(v)') + Cardinality(Trying(v)') < MaxAttempts + Cardinality(Browsers)
  <2>1. /\ Cardinality(Guessed(v)) \in Nat /\ Cardinality(Trying(v)) \in Nat
        /\ IsFiniteSet(Trying(v)) /\ Cardinality(Browsers) \in Nat /\ MaxAttempts \in Nat
    BY Counted, SessionsAssumption
  <2>2. Guessed(v)' = Guessed(v)
    BY <1>1 DEF Guessed
  <2>3. Cardinality(Guessed(v)') = Cardinality(Guessed(v))
    BY ONLY <2>2, Zenon
  <2>4. CASE v = u
    <3>1. Cardinality(Guessed(v)) <= MaxAttempts - 1
      BY <1>1, <1>2, <2>4, OpenMeansFew
    <3>2. Trying(v)' \in SUBSET Browsers
      BY DEF Trying
    <3>3. Cardinality(Trying(v)') <= Cardinality(Browsers) /\ Cardinality(Trying(v)') \in Nat
      BY <3>2, SessionsAssumption, FS_Subset, FS_CardinalityType
    <3> QED
      BY <2>1, <2>3, <3>1, <3>3
  <2>5. CASE v # u
    <3>1. Trying(v)' \in SUBSET Trying(v)
      BY <1>1, <2>5 DEF Trying
    <3>2. Cardinality(Trying(v)') <= Cardinality(Trying(v)) /\ Cardinality(Trying(v)') \in Nat
      BY <2>1, <3>1, FS_Subset, FS_CardinalityType
    <3>3. Cardinality(Guessed(v)) + Cardinality(Trying(v)) < MaxAttempts + Cardinality(Browsers)
      BY <1>2 DEF GuessRows, GuessesOK
    <3> QED
      BY <2>1, <2>3, <3>2, <3>3
  <2> QED
    BY <2>4, <2>5
<1> QED
  BY <1>1, <1>2 DEF GuessRows, GuessesOK

LEMMA PasswordCheckedGuesses ==
    ASSUME TypeOK, GuessRows, NEW b \in Browsers, PasswordChecked(b)
    PROVE  GuessRows'
<1>0. PICK u \in Users : u = request[b].user
  BY DEF PasswordChecked, TypeOK, Request
<1>1. /\ request[b] # None /\ request[b].kind = "login" /\ now' = now /\ DOMAIN request = Browsers
      /\ request' = [request EXCEPT ![b] = None]
      /\ failures' = failures \/ Failed(u)
  BY <1>0 DEF PasswordChecked, TypeOK
<1>2. request'[b] = None /\ \A d \in Browsers : d # b => request'[d] = request[d]
  BY <1>1
<1>3. CASE failures' = failures
  <2>1. \A v \in Users : failures'[v] \subseteq failures[v]
    BY <1>3
  <2>2. now' \in 0 .. LastTick /\ now <= now' /\ failures' \in [Users -> SUBSET LoginAttempt]
    BY <1>1, <1>3, SessionsAssumption DEF GuessRows
  <2> QED
    BY <1>2, <2>1, <2>2, FewerGuesses
<1>4. CASE Failed(u)
  <2>1. \A v \in Users : Trying(v)' \subseteq Trying(v)
    BY <1>2 DEF Trying
  <2>2. b \in Trying(u) /\ Trying(u)' \in SUBSET (Trying(u) \ {b})
    BY <1>0, <1>1, <1>2 DEF Trying
  <2>3. /\ IsFiniteSet(Trying(u)) /\ Cardinality(Trying(u)) \in Nat /\ Cardinality(Guessed(u)) \in Nat
        /\ MaxAttempts \in Nat /\ Cardinality(Browsers) \in Nat
    BY <1>1, Counted, SessionsAssumption
  <2>4. IsFiniteSet(Trying(u) \ {b}) /\ Cardinality(Trying(u) \ {b}) = Cardinality(Trying(u)) - 1
    BY <2>2, <2>3, FS_RemoveElement
  <2>5. Cardinality(Trying(u)') <= Cardinality(Trying(u)) - 1 /\ Cardinality(Trying(u)') \in Nat
    BY <2>2, <2>4, FS_Subset, FS_CardinalityType
  <2>6. Lockout = Window /\ Retention >= Window =>
           Cardinality(Guessed(u)) + Cardinality(Trying(u)) < MaxAttempts + Cardinality(Browsers)
    BY <1>1 DEF GuessRows, GuessesOK
  <2>7. Lockout = Window /\ Retention >= Window =>
           Cardinality(Guessed(u)) + 1 + Cardinality(Trying(u)') < MaxAttempts + Cardinality(Browsers)
    BY <2>3, <2>5, <2>6
  <2> QED
    BY <1>1, <1>4, <2>1, <2>5, <2>7, FailedGuesses
<1> QED
  BY <1>1, <1>3, <1>4

LEMMA NextGuesses ==
    ASSUME TypeOK, GuessRows, Next
    PROVE  GuessRows'
<1> DEFINE Quiet == \A b \in Browsers : request'[b] # None /\ request'[b].kind = "login" =>
                                          request'[b] = request[b]
<1>0. ASSUME UNCHANGED <<failures, now>>, Quiet
      PROVE  GuessRows'
  BY <1>0, FewerGuesses, SessionsAssumption DEF GuessRows
<1>1. ASSUME NEW b \in Browsers, SigningIn(b)
      PROVE  GuessRows'
  <2>1. ASSUME NEW u \in Users, NEW c, Recover(b, u, c)
        PROVE  GuessRows'
    <3>1. request[b] = None /\ ~is_locked(u) /\ request' = request /\ now' = now
          /\ (failures' = failures \/ Failed(u))
      BY <2>1 DEF Recover
    <3> QED
      BY <1>0, <3>1, CodeFailed
  <2>2. ASSUME NEW c, EnterCode(b, c), cookie[b] # None, sessions[cookie[b]] # None
        PROVE  GuessRows'
    <3>1. Who(b) \in Users
      BY <2>2 DEF Who, TypeOK, UserSession
    <3>2. request[b] = None /\ ~is_locked(Who(b)) /\ request' = request /\ now' = now
          /\ (failures' = failures \/ Failed(Who(b)))
      BY <2>2 DEF EnterCode, Who
    <3> QED
      BY <1>0, <3>1, <3>2, CodeFailed
  <2> QED
    BY <1>1, <2>1, <2>2, SubmitPasswordGuesses, PasswordCheckedGuesses DEF SigningIn
<1>2. ASSUME NEW b \in Browsers, Staying(b)
      PROVE  GuessRows'
  BY <1>0, <1>2 DEF Staying, Visit, TurnedAway, Logout, RevokeOthers, Revoke
<1>3. ASSUME NEW b \in Browsers, Profile(b)
      PROVE  GuessRows'
  <2>1. UNCHANGED <<failures, now>>
    BY <1>3 DEF Profile, ReadProfile, ShowProfile, ReissueCodes, Enable, SubmitDisable,
                SubmitChange, DisableChecked, ChangeChecked
  <2>2. DOMAIN request = Browsers
    BY DEF TypeOK
  <2>3. CASE request' = request \/ request' = [request EXCEPT ![b] = None]
    <3>1. Quiet
      BY <2>2, <2>3
    <3> QED
      BY <1>0, <2>1, <3>1
  <2>4. ASSUME NEW r, request' = [request EXCEPT ![b] = r], r.kind # "login"
        PROVE  GuessRows'
    <3>1. Quiet
      BY <2>2, <2>4
    <3> QED
      BY <1>0, <2>1, <3>1
  <2>5. CASE ReadProfile(b)
    <3> DEFINE r == [kind |-> "page", user |-> Who(b), typed |-> None, code |-> issued + 1,
                     next |-> None, read |-> account[Who(b)], token |-> None]
    <3>1. request' = [request EXCEPT ![b] = r] /\ r.kind # "login"
      BY <2>5 DEF ReadProfile
    <3> HIDE DEF r
    <3> QED
      BY <2>4, <3>1
  <2>6. ASSUME NEW c, NEW p, SubmitDisable(b, p, c)
        PROVE  GuessRows'
    <3> DEFINE r == [kind |-> "disable", user |-> Who(b), typed |-> p, code |-> c,
                     next |-> None, read |-> account[Who(b)], token |-> cookie[b]]
    <3>1. request' = [request EXCEPT ![b] = r] /\ r.kind # "login"
      BY <2>6 DEF SubmitDisable
    <3> HIDE DEF r
    <3> QED
      BY <2>4, <3>1
  <2>7. ASSUME NEW p, NEW q, SubmitChange(b, p, q)
        PROVE  GuessRows'
    <3> DEFINE r == [kind |-> "change", user |-> Who(b), typed |-> p, code |-> None,
                     next |-> q, read |-> account[Who(b)], token |-> cookie[b]]
    <3>1. request' = [request EXCEPT ![b] = r] /\ r.kind # "login"
      BY <2>7 DEF SubmitChange
    <3> HIDE DEF r
    <3> QED
      BY <2>4, <3>1
  <2>8. CASE ShowProfile(b) \/ DisableChecked(b) \/ ChangeChecked(b) \/ ReissueCodes(b)
                \/ \E c \in Typed(Who(b)) : Enable(b, c)
    BY <2>3, <2>8 DEF ShowProfile, DisableChecked, ChangeChecked, ReissueCodes, Enable
  <2> QED
    BY <1>3, <2>5, <2>6, <2>7, <2>8 DEF Profile
<1>4. ASSUME NEW u \in Users, Others(u)
      PROVE  GuessRows'
  BY <1>0, <1>4 DEF Others, Deactivate, Activate, ResetPassword, ClearFactor, RecoverCommand
<1>5. CASE purge_expired_sessions
  BY <1>0, <1>5 DEF purge_expired_sessions
<1>6. CASE purge_old_login_attempts
  <2>1. failures' = [u \in Users |-> {f \in failures[u] : f.at >= now - Retention}]
        /\ UNCHANGED <<request, now>>
    BY <1>6 DEF purge_old_login_attempts
  <2>2. failures' \in [Users -> SUBSET LoginAttempt]
        /\ \A u \in Users : failures'[u] \subseteq failures[u]
    BY <2>1 DEF GuessRows
  <2> QED
    BY <2>1, <2>2, FewerGuesses, SessionsAssumption DEF GuessRows
<1>7. CASE Tick
  <2>1. failures' = failures /\ request' = request /\ now < LastTick /\ now' = now + 1
    BY <1>7 DEF Tick
  <2>2. now' \in 0 .. LastTick /\ now <= now'
    BY <2>1, SessionsAssumption DEF GuessRows
  <2> QED
    BY <2>1, <2>2, FewerGuesses DEF GuessRows
<1> QED
  BY <1>1, <1>2, <1>3, <1>4, <1>5, <1>6, <1>7 DEF Next, housekeeping

-----------------------------------------------------------------------------
(***************************************************************************)
(* The whole, from the start.                                              *)
(***************************************************************************)
IInv == TypeOK /\ SessionRows /\ HoldersOK /\ FactorRows /\ GuessRows

LEMMA TypeIs ==
    ASSUME SessionRows, FactorRows, GuessRows
    PROVE  TypeOK
  BY DEF SessionRows, FactorRows, GuessRows, TypeOK

LEMMA InitSessions ==
    ASSUME Init
    PROVE  SessionRows /\ HoldersOK
<1>1. /\ sessions = [t \in Tokens |-> None] /\ cookie = [b \in Browsers |-> None]
      /\ request = [b \in Browsers |-> None] /\ minted = 0 /\ epoch = [u \in Users |-> 0]
  BY DEF Init
<1>2. CookiesOK /\ FactorsOK /\ SignedOutEverywhere /\ HoldersOK
  BY <1>1 DEF CookiesOK, FactorsOK, SignedOutEverywhere, HoldersOK
<1> QED
  BY <1>1, <1>2, SessionsAssumption DEF SessionRows

LEMMA InitFactors ==
    ASSUME Init
    PROVE  FactorRows
<1>1. account \in [Users -> User] /\ \A u \in Users : account[u].secret \in {1, None}
  BY AccountsAssumption DEF Init
<1>2. codes \in [Users -> RecoveryCode]
  <2>1. codes = [u \in Users |-> [list |-> IF account[u].enabled THEN 1 ELSE 0,
                                  unused |-> IF account[u].enabled THEN 1 .. PerList ELSE {}]]
    BY DEF Init
  <2>2. ASSUME NEW u \in Users
        PROVE  codes[u] \in RecoveryCode
    BY <2>1, SessionsAssumption DEF RecoveryCode
  <2> QED
    BY <2>1, <2>2
<1>3. issued \in 0 .. MaxSecrets /\ \A u \in Users : account[u].secret # None => 1 <= issued
  BY SessionsAssumption DEF Init
<1>4. request = [b \in Browsers |-> None] /\ accepted = {} /\ reused = {}
  BY DEF Init
<1>5. SecretsOK
  BY <1>1, <1>3, <1>4 DEF SecretsOK, Shows, Turns
<1>6. AcceptedOK /\ OneUseEach
  BY <1>4 DEF AcceptedOK, OneUseEach
<1> QED
  BY <1>1, <1>2, <1>3, <1>4, <1>5, <1>6 DEF FactorRows

LEMMA InitGuesses ==
    ASSUME Init
    PROVE  GuessRows
<1>1. failures = [u \in Users |-> {}] /\ request = [b \in Browsers |-> None] /\ now = 0
  BY DEF Init
<1>2. ASSUME NEW u \in Users
      PROVE  Guessed(u) = {} /\ Trying(u) = {} /\ failures[u] = {}
  BY <1>1, <1>2 DEF Guessed, Trying
<1>3. Cardinality(Browsers) \in Nat /\ MaxAttempts \in Nat \ {0}
  BY SessionsAssumption, FS_CardinalityType
<1>4. ASSUME NEW u \in Users
      PROVE  /\ IsFiniteSet(failures[u])
             /\ Cardinality(Guessed(u)) = 0 /\ Cardinality(Trying(u)) = 0
  <2>1. Guessed(u) = {} /\ Trying(u) = {} /\ failures[u] = {}
    BY <1>2
  <2>2. IsFiniteSet({}) /\ Cardinality({}) = 0
    BY FS_EmptySet
  <2> QED
    BY <2>1, <2>2, Zenon
<1>5. GuessesOK
  BY <1>3, <1>4 DEF GuessesOK
<1> QED
  BY <1>1, <1>5, SessionsAssumption DEF GuessRows

LEMMA Unchanged ==
    ASSUME IInv, UNCHANGED vars
    PROVE  IInv'
<1>1. UNCHANGED <<account, codes, sessions, cookie, request, failures, issued, minted, now,
                  epoch, accepted, reused>>
  BY DEF vars
<1>2. SessionRows' /\ HoldersOK'
  BY <1>1, QuietRows DEF IInv
<1>3. FactorRows'
  BY <1>1, Unedited, Unasked, Unlisted, PlainFactors DEF IInv
<1>4. GuessRows'
  BY <1>1, FewerGuesses, SessionsAssumption DEF IInv, GuessRows
<1>5. TypeOK'
  BY <1>1 DEF IInv, TypeOK, Request, User, Proof, UserSession, Tokens, Secrets, LoginAttempt,
              RecoveryCode
<1> QED
  BY <1>2, <1>3, <1>4, <1>5 DEF IInv

LEMMA Inductive == Spec => []IInv
<1>1. Init => IInv
  BY InitSessions, InitFactors, InitGuesses, TypeIs DEF IInv
<1>2. ASSUME IInv, [Next]_vars
      PROVE  IInv'
  <2>1. CASE Next
    <3>1. SessionRows' /\ HoldersOK' /\ FactorRows' /\ GuessRows'
      BY <2>1, <1>2, NextRows, NextFactors, NextGuesses DEF IInv
    <3>2. TypeOK'
      BY <3>1 DEF SessionRows, FactorRows, GuessRows, TypeOK
    <3> QED
      BY <3>1, <3>2 DEF IInv
  <2>2. CASE UNCHANGED vars
    BY <1>2, <2>2, Unchanged
  <2> QED
    BY <1>2, <2>1, <2>2
<1> QED
  BY <1>1, <1>2, PTL DEF Spec

\* Every row keeps its shape, and no use of a session moves its expiry past the cap.
THEOREM TypeCorrect == Spec => []TypeOK
<1>1. IInv => TypeOK
  BY DEF IInv
<1> QED
  BY <1>1, Inductive, PTL

\* A code of the factor an account has proves one thing once, wherever it is used: at the
\* sign-in, in the profile, or in two browsers (accept_code, consume_recovery_code).
THEOREM EachUsedOnce == Spec => []OneUseEach
<1>1. IInv => OneUseEach
  BY DEF IInv, FactorRows
<1> QED
  BY <1>1, Inductive, PTL

\* No way in opens a whole session on a factor that was on without a proof the
\* password, or the recovery code in its place, is not; and one recovery code at most.
THEOREM BothFactors == Spec => []TwoFactors
<1>1. ASSUME IInv
      PROVE  TwoFactors
  <2>1. ASSUME NEW t \in Tokens, sessions[t] # None
        PROVE  /\ Cardinality({c \in sessions[t].proofs : c.kind = "code"}) <= 1
               /\ sessions[t].asked /\ ~sessions[t].pending =>
                     \E c \in sessions[t].proofs : sessions[t].spent => c.kind = "step"
    <3>1. Factors(sessions[t])
      BY <1>1, <2>1 DEF IInv, SessionRows, FactorsOK
    <3> DEFINE spent == {c \in sessions[t].proofs : c.kind = "code"}
    <3>2. \A c, d \in spent : c = d
      BY <3>1 DEF Factors
    <3> HIDE DEF spent
    <3>3. CASE spent = {}
      <4>1. Cardinality(spent) = 0
        BY <3>3, FS_EmptySet, Zenon
      <4> QED
        BY <3>1, <4>1 DEF Factors, spent
    <3>4. CASE spent # {}
      <4>1. PICK c : c \in spent
        BY <3>4
      <4>2. spent = {c}
        BY <3>2, <4>1
      <4>3. Cardinality({c}) = 1
        BY FS_Singleton
      <4>4. Cardinality(spent) = 1
        BY <4>2, <4>3, Zenon
      <4> QED
        BY <3>1, <4>4 DEF Factors, spent
    <3> QED
      BY <3>3, <3>4
  <2> QED
    BY <2>1 DEF TwoFactors
<1> QED
  BY <1>1, Inductive, PTL

\* Signing an account out leaves none of its sessions, of whatever state, but the one
\* opened by the change itself (destroy_sessions_for).
THEOREM NoneLeft == Spec => []SignedOutEverywhere
<1>1. IInv => SignedOutEverywhere
  BY DEF IInv, SessionRows
<1> QED
  BY <1>1, Inductive, PTL

\* However requests overlap, a window holds fewer guesses than the limit and the
\* browsers together: the lock is read before the thread and the count written after.
THEOREM GuessesAreBounded == Spec => []GuessesBounded
<1>1. IInv => GuessesBounded
  <2>1. ASSUME IInv, Lockout = Window /\ Retention >= Window, NEW u \in Users
        PROVE  Cardinality({f \in failures[u] : f.at > now - Window})
                  < MaxAttempts + Cardinality(Browsers)
    <3>1. /\ Cardinality(Guessed(u)) \in Nat /\ Cardinality(Trying(u)) \in Nat
          /\ Cardinality(Browsers) \in Nat /\ MaxAttempts \in Nat
      BY <2>1, Counted, SessionsAssumption DEF IInv
    <3>2. Cardinality(Guessed(u)) + Cardinality(Trying(u)) < MaxAttempts + Cardinality(Browsers)
      BY <2>1 DEF IInv, GuessRows, GuessesOK
    <3>3. Cardinality(Guessed(u)) < MaxAttempts + Cardinality(Browsers)
      BY <3>1, <3>2
    <3> QED
      BY <3>3 DEF Guessed
  <2> QED
    BY <2>1 DEF GuessesBounded
<1> QED
  BY <1>1, Inductive, PTL
=============================================================================
