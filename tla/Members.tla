------------------------------- MODULE Members --------------------------------
(***************************************************************************)
(* Who may reach which portfolio (src/app/tenancy.py, invites.py, auth.py  *)
(* and the members, invitation, key and account handlers of main.py):      *)
(* portfolios and the roles people hold in them, the portfolio a session   *)
(* acts in, invitations, and API keys, which do what their creator can do  *)
(* now.                                                                    *)
(*                                                                         *)
(* A handler that does not await between reading and writing is one step   *)
(* of the event loop.  Three ways to make an account are two: signing up   *)
(* and adding an account await argon2, and a provider's callback runs in   *)
(* a thread and waits for the provider.  An API request is checked and     *)
(* writes in one step.  How a session is opened and ended is Sessions'.    *)
(***************************************************************************)
EXTENDS Integers, FiniteSets, FiniteSetsExt

CONSTANTS
    Users,
    Admin,          \* the account of the first run, an administrator
    MaxPortfolios,  \* bound: the largest portfolio id
    MaxInvites,     \* bound: invitations ever issued
    Keys,           \* bound: API keys ever made
    Roles,          \* bound: the roles people are given here
    KeyScopes,      \* bound: whether a key may write
    MaxEdits,       \* bound: changes of members, portfolios, keys and accounts
    MaxPending,     \* bound: accounts or acceptances under way at once
    Out,            \* not signed in
    None

MEMBER_ROLES == {"owner", "member", "viewer"}
WRITE_ROLES == {"owner", "member"}
Portfolios == 1 .. MaxPortfolios
Invites == 1 .. MaxInvites

ASSUME MembersAssumption ==
    /\ Admin \in Users /\ MaxPortfolios \in Nat \ {0} /\ MaxInvites \in Nat
    /\ MaxEdits \in Nat /\ MaxPending \in Nat
    /\ Roles \subseteq MEMBER_ROLES /\ KeyScopes \subseteq BOOLEAN
    /\ None \notin Users \cup Int \cup MEMBER_ROLES /\ Out \notin Int \cup {None}

VARIABLES
    account,    \* user -> "none", "active" or "disabled"
    portfolios, \* the Portfolio rows
    role,       \* portfolio -> user -> the PortfolioMember row's role, or None
    active,     \* user -> the portfolio its session acts in, None, or Out
    invite,     \* invitation -> the PortfolioInvite row, or None
    issued,     \* invitations issued
    key,        \* key -> the ApiKey row and its ApiKeyPortfolio rows, or None
    pending,    \* requests between reading and writing
    edits,      \* such changes made
    last,       \* history: who changed which portfolio's rows in this step, or None
    joins       \* history: invitation -> the members it has made

vars == <<account, portfolios, role, active, invite, issued, key, pending, edits, last, joins>>

-----------------------------------------------------------------------------
(* The rows. *)

PortfolioInvite == [to : Portfolios, role : MEMBER_ROLES, used : BOOLEAN,
                    revoked : BOOLEAN, expired : BOOLEAN]

ApiKey == [by : Users, reach : SUBSET Portfolios, write : BOOLEAN, revoked : BOOLEAN]

Pending == [via : {"signup", "provider", "added"}, user : Users, held : Invites \cup {None}]

Init ==
    /\ account = [u \in Users |-> IF u = Admin THEN "active" ELSE "none"]
    /\ portfolios = {1}
    /\ role = [p \in Portfolios |-> [u \in Users |->
                   IF p = 1 /\ u = Admin THEN "owner" ELSE None]]
    /\ active = [u \in Users |-> Out]
    /\ invite = [i \in Invites |-> None]
    /\ issued = 0
    /\ key = [k \in Keys |-> None]
    /\ pending = {}
    /\ edits = 0
    /\ last = None
    /\ joins = [i \in Invites |-> 0]

Mine(u) == {p \in Portfolios : role[p][u] # None}

\* load_auth: a session pointed at a portfolio that is not its person's any more
\* falls back to the first of theirs.
Acting(u) ==
    IF active[u] \in Mine(u) THEN active[u]
    ELSE IF Mine(u) = {} THEN None ELSE Min(Mine(u))

Signed(u) == active[u] # Out /\ account[u] = "active"

\* scoped_session: refused to an account that is in no portfolio.
Scoped(u, p) == Signed(u) /\ p = Acting(u) /\ p # None

Stays(u, p) == active' = [active EXCEPT ![u] = p]

\* _landing_portfolio; `wanted` is the profile's choice or what the browser remembers.
Landing(u, wanted, members) ==
    LET mine == {p \in Portfolios : members[p][u] # None}
        own == {p \in mine : members[p][u] = "owner"}
    IN  IF wanted \in mine THEN wanted
        ELSE IF own # {} THEN Min(own)
        ELSE IF mine # {} THEN Min(mine) ELSE None

\* The next portfolio's row; SQLite gives the largest id's place again.
NextId == IF portfolios = {} THEN 1 ELSE 1 + Max(portfolios)

\* portfolio_new and users_add: a portfolio comes with its owner.
Founded(u) == [role EXCEPT ![NextId] = [@ EXCEPT ![u] = "owner"]]

Edit == edits < MaxEdits /\ edits' = edits + 1

-----------------------------------------------------------------------------
(* Sessions, and the portfolio each acts in. *)

SignIn(u) ==
    /\ account[u] = "active" /\ active[u] = Out
    /\ \E wanted \in portfolios \cup {None} : Stays(u, Landing(u, wanted, role))
    /\ UNCHANGED <<account, portfolios, role, invite, issued, key, pending, edits, joins>>

SignOut(u) ==
    /\ active[u] # Out
    /\ Stays(u, Out)
    /\ UNCHANGED <<account, portfolios, role, invite, issued, key, pending, edits, joins>>

portfolio_switch(u, p) ==
    /\ \E here \in Portfolios : Scoped(u, here)
    /\ p \in Mine(u)
    /\ Stays(u, p)
    /\ UNCHANGED <<account, portfolios, role, invite, issued, key, pending, edits, joins>>

portfolio_new(u) ==
    /\ \E here \in Portfolios : Scoped(u, here)
    /\ NextId \in Portfolios
    /\ portfolios' = portfolios \cup {NextId}
    /\ role' = Founded(u)
    /\ Stays(u, NextId)
    /\ Edit
    /\ UNCHANGED <<account, invite, issued, key, pending, joins>>

-----------------------------------------------------------------------------
(* Members.  `_require_owner` guards each of these. *)

Owns(u, p) == Scoped(u, p) /\ role[p][u] = "owner"

members_add(u, v, r) == \E p \in Portfolios :
    /\ Owns(u, p)
    /\ account[v] # "none" /\ role[p][v] = None
    /\ role' = [role EXCEPT ![p][v] = r]
    /\ Stays(u, p)
    /\ Edit
    /\ UNCHANGED <<account, portfolios, invite, issued, key, pending, joins>>

\* A mutant of members_role: owners may change their own role too.
members_role_own(u, v, r) == \E p \in Portfolios :
    /\ Owns(u, p)
    /\ role[p][v] # None
    /\ role' = [role EXCEPT ![p][v] = r]
    /\ Stays(u, p)
    /\ Edit
    /\ UNCHANGED <<account, portfolios, invite, issued, key, pending, joins>>

members_role(u, v, r) == \E p \in Portfolios :
    /\ Owns(u, p)
    /\ role[p][v] # None
    /\ v = u => r = "owner"
    /\ role' = [role EXCEPT ![p][v] = r]
    /\ Stays(u, p)
    /\ Edit
    /\ UNCHANGED <<account, portfolios, invite, issued, key, pending, joins>>

\* One of several members goes; the last owner does not.
members_remove(u, v) == \E p \in Portfolios :
    /\ Owns(u, p)
    /\ role[p][v] # None
    /\ \E w \in Users \ {v} : role[p][w] # None
    /\ role[p][v] = "owner" => \E w \in Users \ {v} : role[p][w] = "owner"
    /\ role' = [role EXCEPT ![p][v] = None]
    /\ Stays(u, p)
    /\ Edit
    /\ UNCHANGED <<account, portfolios, invite, issued, key, pending, joins>>

\* The links of keys to a portfolio go with it.
Unlinked(p) == [k \in Keys |-> IF key[k] = None THEN None
                               ELSE [key[k] EXCEPT !.reach = @ \ {p}]]

\* The last member goes, and the portfolio with all it holds.
portfolio_deleted(u) == \E p \in Portfolios :
    /\ Owns(u, p)
    /\ \A w \in Users \ {u} : role[p][w] = None
    /\ portfolios' = portfolios \ {p}
    /\ role' = [role EXCEPT ![p] = [w \in Users |-> None]]
    /\ invite' = [i \in Invites |-> IF invite[i] # None /\ invite[i].to = p
                                    THEN None ELSE invite[i]]
    /\ key' = Unlinked(p)
    /\ active' = [w \in Users |-> IF w = u \/ active[w] = p
                                  THEN IF active[w] = Out THEN Out ELSE None
                                  ELSE active[w]]
    /\ Edit
    /\ UNCHANGED <<account, issued, pending, joins>>

-----------------------------------------------------------------------------
(* Invitations. *)

members_invite(u, r) == \E p \in Portfolios :
    /\ Owns(u, p)
    /\ issued < MaxInvites
    /\ issued' = issued + 1
    /\ invite' = [invite EXCEPT ![issued'] =
                     [to |-> p, role |-> r, used |-> FALSE, revoked |-> FALSE,
                      expired |-> FALSE]]
    /\ Stays(u, p)
    /\ UNCHANGED <<account, portfolios, role, key, pending, edits, joins>>

\* invites.revoke: only this portfolio's, and only one not used yet.
members_invite_revoke(u, i) == \E p \in Portfolios :
    /\ Owns(u, p)
    /\ invite[i] # None /\ invite[i].to = p /\ ~invite[i].used /\ ~invite[i].revoked
    /\ invite' = [invite EXCEPT ![i].revoked = TRUE]
    /\ Stays(u, p)
    /\ Edit
    /\ UNCHANGED <<account, portfolios, role, issued, key, pending, joins>>

\* invites.lookup, when `spent` has nothing against it.
Live(i) ==
    i # None /\ invite[i] # None /\ ~invite[i].used /\ ~invite[i].revoked /\ ~invite[i].expired

\* An invitation's week runs out; one that is spent stays what it is.
Expire(i) ==
    /\ Live(i)
    /\ invite' = [invite EXCEPT ![i].expired = TRUE]
    /\ UNCHANGED <<account, portfolios, role, active, issued, key, pending, edits, joins>>

\* A mutant of Claimed: the row is marked used whatever another request did since.
ClaimedUnseen(i) == invite[i] # None

\* The UPDATE of accept_row matches the row.  It does not look at the expiry again.
Claimed(i) == invite[i] # None /\ ~invite[i].used /\ ~invite[i].revoked

\* accept_row, when it claims the row: a member stays what they were.
Joined(i, u) ==
    IF role[invite[i].to][u] # None THEN role
    ELSE [role EXCEPT ![invite[i].to][u] = invite[i].role]

AcceptRow(i, u) ==
    /\ invite' = [invite EXCEPT ![i].used = TRUE]
    /\ role' = Joined(i, u)
    /\ joins' = [joins EXCEPT ![i] = @ + IF role[invite[i].to][u] = None THEN 1 ELSE 0]

invite_accept(u, i) ==
    /\ \E here \in Portfolios : Scoped(u, here)
    /\ Live(i) /\ Claimed(i)
    /\ AcceptRow(i, u)
    /\ Stays(u, invite[i].to)
    /\ UNCHANGED <<account, portfolios, issued, key, pending, edits>>

-----------------------------------------------------------------------------
(* Accounts, each made in two steps. *)

Begins(via, u, held) ==
    /\ Cardinality(pending) < MaxPending
    /\ pending' = pending \cup {[via |-> via, user |-> u, held |-> held]}
    /\ UNCHANGED <<account, portfolios, role, active, invite, issued, key, edits, joins>>

Refused(r) ==
    /\ pending' = pending \ {r}
    /\ UNCHANGED <<account, portfolios, role, active, invite, issued, key, edits, joins>>

\* invite_signup up to the hash: the link is live and the email has no account.
invite_signup(u, i) == Live(i) /\ account[u] = "none" /\ Begins("signup", u, i)

\* After it: the link is looked up again, and the email may have been taken since.
SignedUp(r) ==
    IF Live(r.held) /\ Claimed(r.held) /\ account[r.user] = "none"
    THEN /\ account' = [account EXCEPT ![r.user] = "active"]
         /\ AcceptRow(r.held, r.user)
         /\ Stays(r.user, invite[r.held].to)
         /\ pending' = pending \ {r}
         /\ UNCHANGED <<portfolios, issued, key, edits>>
    ELSE Refused(r)

\* login_oidc_callback with an invitation, up to the provider: still live by now.
login_oidc_callback(u, i) == Live(i) /\ Begins("provider", u, i)

\* After it.  Whether a stranger is let in is SignIn's; a disabled account is not.
CalledBack(r) ==
    IF account[r.user] # "disabled" /\ Claimed(r.held)
    THEN /\ account' = [account EXCEPT ![r.user] = "active"]
         /\ AcceptRow(r.held, r.user)
         /\ \E wanted \in portfolios \cup {None} :
               Stays(r.user, Landing(r.user, wanted, role'))
         /\ pending' = pending \ {r}
         /\ UNCHANGED <<portfolios, issued, key, edits>>
    ELSE Refused(r)

\* users_add up to the hash.
users_add(u, v) ==
    /\ u = Admin /\ \E here \in Portfolios : Scoped(u, here)
    /\ account[v] = "none"
    /\ Begins("added", v, None)

\* After it: an account with a portfolio of its own.
Added(r) ==
    /\ account[r.user] = "none" => NextId \in Portfolios
    /\ IF account[r.user] = "none"
       THEN /\ account' = [account EXCEPT ![r.user] = "active"]
            /\ portfolios' = portfolios \cup {NextId}
            /\ role' = Founded(r.user)
            /\ pending' = pending \ {r}
            /\ UNCHANGED <<active, invite, issued, key, edits, joins>>
       ELSE Refused(r)

Ends(r) ==
    CASE r.via = "signup" -> SignedUp(r)
      [] r.via = "provider" -> CalledBack(r)
      [] r.via = "added" -> Added(r)

users_toggle_active(u, v) ==
    /\ u = Admin /\ v # u /\ account[v] # "none"
    /\ \E p \in Portfolios : Scoped(u, p) /\
          active' = [active EXCEPT ![u] = p,
                                   ![v] = IF account[v] = "active" THEN Out ELSE @]
    /\ account' = [account EXCEPT ![v] = IF @ = "active" THEN "disabled" ELSE "active"]
    /\ Edit
    /\ UNCHANGED <<portfolios, role, invite, issued, key, pending, joins>>

-----------------------------------------------------------------------------
(* Keys, and what changes a portfolio's rows. *)

keys_new(u, k) == \E p \in Portfolios, reach \in SUBSET Mine(u), write \in KeyScopes :
    /\ Scoped(u, p)
    /\ key[k] = None /\ reach # {}
    /\ key' = [key EXCEPT ![k] = [by |-> u, reach |-> reach, write |-> write,
                                  revoked |-> FALSE]]
    /\ Stays(u, p)
    /\ Edit
    /\ UNCHANGED <<account, portfolios, role, invite, issued, pending, joins>>

keys_revoke(u, k) == \E p \in Portfolios :
    /\ Scoped(u, p)
    /\ key[k] # None /\ key[k].by = u
    /\ key' = [key EXCEPT ![k].revoked = TRUE]
    /\ Stays(u, p)
    /\ Edit
    /\ UNCHANGED <<account, portfolios, role, invite, issued, pending, joins>>

\* Rows are stamped with the session's portfolio and its person.
Stamped(u, p) == last' = [by |-> u, at |-> p]

\* A mutant of key_reach: a key keeps what it was given.
key_reach_given(k, p) == IF p \in key[k].reach THEN "member" ELSE None

\* The role a key's creator holds now in a portfolio it was given.
key_reach(k, p) == IF p \in key[k].reach THEN role[p][key[k].by] ELSE None

\* api_session for a request that writes.
api_session(k, p) ==
    /\ key[k] # None /\ ~key[k].revoked
    /\ account[key[k].by] = "active"
    /\ p \in key[k].reach
    /\ key[k].write /\ key_reach(k, p) \in WRITE_ROLES
    /\ Stamped(key[k].by, p)
    /\ UNCHANGED <<account, portfolios, role, active, invite, issued, key, pending, edits, joins>>

\* Any handler behind `_require_write`.
WebWrite(u, p) ==
    /\ Scoped(u, p) /\ role[p][u] \in WRITE_ROLES
    /\ Stamped(u, p)
    /\ Stays(u, p)
    /\ UNCHANGED <<account, portfolios, role, invite, issued, key, pending, edits, joins>>

\* tenancy.as_portfolio: the one way into another portfolio of the same person.
as_portfolio(u, p) == role[p][u] \in WRITE_ROLES

\* Moving a holding writes to the portfolio it goes to.
MoveHolding(u, q) == \E p \in Portfolios :
    /\ Scoped(u, p) /\ role[p][u] \in WRITE_ROLES
    /\ q # p /\ as_portfolio(u, q)
    /\ Stamped(u, q)
    /\ Stays(u, p)
    /\ UNCHANGED <<account, portfolios, role, invite, issued, key, pending, edits, joins>>

-----------------------------------------------------------------------------
Person(u) ==
    \/ SignIn(u) \/ SignOut(u) \/ portfolio_new(u) \/ portfolio_deleted(u)
    \/ \E p \in Portfolios : portfolio_switch(u, p)
    \/ \E v \in Users : members_remove(u, v) \/ users_add(u, v) \/ users_toggle_active(u, v)
    \/ \E v \in Users, r \in Roles : members_add(u, v, r) \/ members_role(u, v, r)
    \/ \E r \in Roles : members_invite(u, r)
    \/ \E i \in Invites : members_invite_revoke(u, i) \/ invite_accept(u, i)
    \/ \E i \in Invites : invite_signup(u, i) \/ login_oidc_callback(u, i)
    \/ \E k \in Keys : keys_new(u, k) \/ keys_revoke(u, k)

Writes ==
    \/ \E u \in Users, p \in Portfolios : WebWrite(u, p) \/ MoveHolding(u, p)
    \/ \E k \in Keys, p \in Portfolios : api_session(k, p)

Next ==
    \/ /\ \/ \E u \in Users : Person(u)
          \/ \E i \in Invites : Expire(i)
          \/ \E r \in pending : Ends(r)
       /\ last' = None
    \/ Writes

Spec == Init /\ [][Next]_vars

-----------------------------------------------------------------------------
(* Properties. *)

\* Every table keeps its shape, and no role, session, invitation or key names a portfolio
\* that is gone: SQLite gives its id to the next one.
TypeOK ==
    /\ account \in [Users -> {"none", "active", "disabled"}]
    /\ portfolios \subseteq Portfolios
    /\ role \in [Portfolios -> [Users -> MEMBER_ROLES \cup {None}]]
    /\ \A p \in Portfolios \ portfolios, u \in Users : role[p][u] = None
    /\ active \in [Users -> portfolios \cup {None, Out}]
    /\ invite \in [Invites -> PortfolioInvite \cup {None}]
    /\ \A i \in Invites : invite[i] # None => invite[i].to \in portfolios
    /\ issued \in 0 .. MaxInvites /\ edits \in 0 .. MaxEdits
    /\ key \in [Keys -> ApiKey \cup {None}]
    /\ \A k \in Keys : key[k] # None => key[k].reach \subseteq portfolios
    /\ pending \subseteq Pending /\ Cardinality(pending) <= MaxPending
    /\ last \in [by : Users, at : Portfolios] \cup {None}
    /\ joins \in [Invites -> Nat]

\* However owners add, demote, hand over to and remove each other, no portfolio is left
\* without an owner: its rows would be out of everybody's reach.
OwnerKept == \A p \in portfolios : \E u \in Users : role[p][u] = "owner"

\* An invitation makes one member at most, and a withdrawn one makes nobody, whoever
\* looked it up before it was used or withdrawn.
InviteOnce == \A i \in Invites :
    /\ joins[i] <= 1
    /\ invite[i] # None => ~(invite[i].used /\ invite[i].revoked)

\* A portfolio's rows are changed only by a person who may write in it at that moment,
\* through whichever session, key or move it happens.
WritesAllowed ==
    [][last' # None => /\ account[last'.by] = "active"
                       /\ role[last'.at][last'.by] \in WRITE_ROLES]_vars

\* What the invitations' own description says: anybody signed in may take a live one.
\* Someone who is in no portfolio is turned away before it is looked up.
InviteeJoins == \A u \in Users : Signed(u) /\ (\E i \in Invites : Live(i)) => Acting(u) # None
=============================================================================
