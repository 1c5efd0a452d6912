---------------------------- MODULE MembersProofs ----------------------------
(***************************************************************************)
(* Proofs about Members, for any people, portfolios, invitations and keys: *)
(* the shape of every table, that no portfolio is left without an owner,   *)
(* that an invitation makes one member at most, and that only a person who *)
(* may write in a portfolio changes its rows.                              *)
(***************************************************************************)
EXTENDS Members, FiniteSetTheorems, WellFoundedInduction, TLAPS

-----------------------------------------------------------------------------
(***************************************************************************)
(* The portfolio a session acts in.                                        *)
(***************************************************************************)
LEMMA LeastNat ==
    ASSUME NEW S \in SUBSET Nat, S # {}
    PROVE  \E m \in S : \A n \in S : m <= n
<1> DEFINE R == OpToRel(<, Nat)
<1>1. IsWellFoundedOn(R, Nat)
  BY NatLessThanWellFounded
<1>2. \A a, b \in Nat : a < b => <<a, b>> \in R
  BY DEF OpToRel
<1> HIDE DEF R
<1>3. PICK m \in S : \A y \in S : ~ (<<y, m>> \in R)
  BY <1>1, WFMin
<1>4. ASSUME NEW n \in S PROVE m <= n
  <2>1. m \in Nat /\ n \in Nat
    OBVIOUS
  <2>2. ~(n < m)
    BY <1>2, <1>3, <2>1
  <2> QED
    BY <2>1, <2>2
<1> QED
  BY <1>4

LEMMA MinIn ==
    ASSUME NEW S \in SUBSET Portfolios, S # {}
    PROVE  Min(S) \in S
<1>1. S \in SUBSET Nat
  BY DEF Portfolios
<1>2. \E m \in S : \A n \in S : m <= n
  BY <1>1, LeastNat
<1> QED
  BY <1>2, Zenon DEF Min

\* Landing never names a portfolio the person is not in.
LEMMA LandingIs ==
    ASSUME NEW u \in Users, NEW wanted, NEW members, NEW S,
           \A p \in Portfolios \ S : members[p][u] = None
    PROVE  Landing(u, wanted, members) \in S \cup {None}
<1> DEFINE mine == {p \in Portfolios : members[p][u] # None}
           own == {p \in mine : members[p][u] = "owner"}
<1>1. mine \subseteq S /\ own \subseteq mine
  OBVIOUS
<1>2. own # {} => Min(own) \in own
  BY MinIn
<1>3. mine # {} => Min(mine) \in mine
  BY MinIn
<1> HIDE DEF mine, own
<1>4. (IF wanted \in mine THEN wanted
       ELSE IF own # {} THEN Min(own)
       ELSE IF mine # {} THEN Min(mine) ELSE None) \in S \cup {None}
  BY <1>1, <1>2, <1>3
<1> QED
  BY <1>4 DEF Landing, mine, own

LEMMA ActingIs ==
    ASSUME TypeOK, NEW u \in Users
    PROVE  Acting(u) \in portfolios \cup {None}
<1>1. Mine(u) \subseteq portfolios /\ Mine(u) \in SUBSET Portfolios
  BY DEF Mine, TypeOK
<1>2. Mine(u) # {} => Min(Mine(u)) \in Mine(u)
  BY <1>1, MinIn
<1> QED
  BY <1>1, <1>2 DEF Acting

LEMMA ScopedIn ==
    ASSUME TypeOK, NEW u \in Users, NEW p, Scoped(u, p)
    PROVE  p \in portfolios
BY ActingIs DEF Scoped

-----------------------------------------------------------------------------
(***************************************************************************)
(* The shape of every table.                                               *)
(***************************************************************************)
TypeInv == TypeOK /\ IsFiniteSet(pending)

\* Who signs up, or comes back from a provider, holds an invitation.
HeldOK == \A r \in pending : r.via \in {"signup", "provider"} => r.held \in Invites

LEMMA InitTypeInv == Init => TypeInv
<1> SUFFICES ASSUME Init PROVE TypeInv
  OBVIOUS
<1> USE MembersAssumption
<1>1. IsFiniteSet(pending) /\ Cardinality(pending) = 0
  BY FS_EmptySet DEF Init
<1>2. /\ portfolios \subseteq Portfolios
      /\ role \in [Portfolios -> [Users -> MEMBER_ROLES \cup {None}]]
      /\ \A p \in Portfolios \ portfolios, u \in Users : role[p][u] = None
  BY DEF Init, Portfolios, MEMBER_ROLES
<1>3. /\ account \in [Users -> {"none", "active", "disabled"}]
      /\ active \in [Users -> portfolios \cup {None, Out}]
      /\ invite \in [Invites -> PortfolioInvite \cup {None}]
      /\ \A i \in Invites : invite[i] # None => invite[i].to \in portfolios
      /\ issued \in 0 .. MaxInvites /\ edits \in 0 .. MaxEdits
      /\ key \in [Keys -> ApiKey \cup {None}]
      /\ \A k \in Keys : key[k] # None => key[k].reach \subseteq portfolios
      /\ last = None /\ joins \in [Invites -> Nat]
  BY DEF Init
<1>4. pending \subseteq Pending /\ Cardinality(pending) <= MaxPending
  BY <1>1 DEF Init
<1> QED
  BY <1>1, <1>2, <1>3, <1>4 DEF TypeInv, TypeOK

LEMMA EditOK == ASSUME edits \in 0 .. MaxEdits, Edit PROVE edits' \in 0 .. MaxEdits
BY MembersAssumption DEF Edit

LEMMA StaysOK ==
    ASSUME NEW S, active \in [Users -> S \cup {None, Out}],
           NEW u \in Users, NEW p \in S \cup {None, Out}, Stays(u, p)
    PROVE  active' \in [Users -> S \cup {None, Out}]
BY DEF Stays

\* A session begins, ends, or is pointed at another portfolio of its person's.
LEMMA SessionTypeInv ==
    ASSUME TypeInv, NEW u \in Users, last' = None,
           SignIn(u) \/ SignOut(u) \/ (\E p \in Portfolios : portfolio_switch(u, p))
    PROVE  TypeInv'
<1>1. UNCHANGED <<account, portfolios, role, invite, issued, key, pending, edits, joins>>
  BY DEF SignIn, SignOut, portfolio_switch
<1>2. PICK p \in portfolios \cup {None, Out} : Stays(u, p)
  <2>1. CASE SignIn(u)
    <3>1. \A wanted : Landing(u, wanted, role) \in portfolios \cup {None}
      BY LandingIs DEF TypeInv, TypeOK
    <3> QED
      BY <2>1, <3>1 DEF SignIn
  <2>2. CASE SignOut(u)
    BY <2>2 DEF SignOut
  <2>3. ASSUME NEW p \in Portfolios, portfolio_switch(u, p)
        PROVE  \E q \in portfolios \cup {None, Out} : Stays(u, q)
    BY <2>3 DEF portfolio_switch, Mine, TypeInv, TypeOK
  <2> QED
    BY <2>1, <2>2, <2>3
<1>3. active' \in [Users -> portfolios' \cup {None, Out}]
  BY <1>1, <1>2, StaysOK DEF TypeInv, TypeOK
<1> QED
  BY <1>1, <1>3 DEF TypeInv, TypeOK

\* A portfolio founded for somebody has a row of its own.
LEMMA FoundedOK ==
    ASSUME TypeInv, NEW u \in Users, NextId \in Portfolios
    PROVE  /\ Founded(u) \in [Portfolios -> [Users -> MEMBER_ROLES \cup {None}]]
           /\ \A p \in Portfolios \ (portfolios \cup {NextId}), v \in Users :
                 Founded(u)[p][v] = None
           /\ Founded(u)[NextId][u] = "owner"
           /\ \A p \in Portfolios, v \in Users : p # NextId \/ v # u => Founded(u)[p][v] = role[p][v]
BY DEF Founded, TypeInv, TypeOK, MEMBER_ROLES

LEMMA FoundTypeInv ==
    ASSUME TypeInv, NEW u \in Users, last' = None, portfolio_new(u)
    PROVE  TypeInv'
<1>1. /\ NextId \in Portfolios /\ portfolios' = portfolios \cup {NextId}
      /\ role' = Founded(u) /\ Stays(u, NextId) /\ Edit
      /\ UNCHANGED <<account, invite, issued, key, pending, joins>>
  BY DEF portfolio_new
<1>2. active \in [Users -> portfolios' \cup {None, Out}]
  BY <1>1 DEF TypeInv, TypeOK
<1>3. active' \in [Users -> portfolios' \cup {None, Out}]
  BY <1>1, <1>2, StaysOK
<1>4. edits' \in 0 .. MaxEdits
  BY <1>1, EditOK DEF TypeInv, TypeOK
<1>5. /\ role' \in [Portfolios -> [Users -> MEMBER_ROLES \cup {None}]]
      /\ \A p \in Portfolios \ portfolios', v \in Users : role'[p][v] = None
  BY <1>1, FoundedOK
<1> QED
  BY <1>1, <1>3, <1>4, <1>5 DEF TypeInv, TypeOK

\* An owner changes one member's row.
RoleSet(p, v, r) ==
    /\ role' = [role EXCEPT ![p][v] = r]
    /\ Edit
    /\ UNCHANGED <<account, portfolios, invite, issued, key, pending, joins>>

LEMMA MembersAre ==
    ASSUME NEW u \in Users, NEW v \in Users, NEW r \in MEMBER_ROLES,
           members_add(u, v, r) \/ members_role(u, v, r) \/ members_remove(u, v)
    PROVE  \E p \in Portfolios :
              /\ Owns(u, p) /\ Stays(u, p)
              /\ \/ role[p][v] = None /\ RoleSet(p, v, r)
                 \/ (v = u => r = "owner") /\ RoleSet(p, v, r)
                 \/ /\ role[p][v] = "owner" => \E w \in Users \ {v} : role[p][w] = "owner"
                    /\ RoleSet(p, v, None)
BY DEF members_add, members_role, members_remove, RoleSet

LEMMA MembersTypeInv ==
    ASSUME TypeInv, NEW u \in Users, NEW v \in Users, NEW r \in MEMBER_ROLES, last' = None,
           members_add(u, v, r) \/ members_role(u, v, r) \/ members_remove(u, v)
    PROVE  TypeInv'
<1>1. PICK p \in Portfolios, q \in MEMBER_ROLES \cup {None} :
         Owns(u, p) /\ Stays(u, p) /\ RoleSet(p, v, q)
  BY MembersAre
<1>2. p \in portfolios
  BY <1>1, ScopedIn DEF Owns, TypeInv
<1>3. active' \in [Users -> portfolios' \cup {None, Out}]
  BY <1>1, <1>2, StaysOK DEF RoleSet, TypeInv, TypeOK
<1>4. edits' \in 0 .. MaxEdits
  BY <1>1, EditOK DEF RoleSet, TypeInv, TypeOK
<1>5. /\ role' \in [Portfolios -> [Users -> MEMBER_ROLES \cup {None}]]
      /\ \A o \in Portfolios \ portfolios', w \in Users : role'[o][w] = None
  BY <1>1, <1>2 DEF RoleSet, TypeInv, TypeOK
<1>6. UNCHANGED <<account, portfolios, invite, issued, key, pending, joins>>
  BY <1>1 DEF RoleSet
<1> QED
  BY <1>3, <1>4, <1>5, <1>6 DEF TypeInv, TypeOK

LEMMA DeletedTypeInv ==
    ASSUME TypeInv, NEW u \in Users, last' = None, portfolio_deleted(u)
    PROVE  TypeInv'
<1> USE MembersAssumption
<1>1. PICK p \in Portfolios :
         /\ Owns(u, p)
         /\ portfolios' = portfolios \ {p}
         /\ role' = [role EXCEPT ![p] = [w \in Users |-> None]]
         /\ invite' = [i \in Invites |-> IF invite[i] # None /\ invite[i].to = p
                                         THEN None ELSE invite[i]]
         /\ key' = Unlinked(p)
         /\ active' = [w \in Users |-> IF w = u \/ active[w] = p
                                       THEN IF active[w] = Out THEN Out ELSE None
                                       ELSE active[w]]
         /\ Edit
         /\ UNCHANGED <<account, issued, pending, joins>>
  BY DEF portfolio_deleted
<1>2. /\ portfolios' \subseteq Portfolios
      /\ role' \in [Portfolios -> [Users -> MEMBER_ROLES \cup {None}]]
      /\ \A o \in Portfolios \ portfolios', w \in Users : role'[o][w] = None
  BY <1>1 DEF TypeInv, TypeOK
<1>3. active' \in [Users -> portfolios' \cup {None, Out}]
  BY <1>1 DEF TypeInv, TypeOK
<1>4. /\ invite' \in [Invites -> PortfolioInvite \cup {None}]
      /\ \A i \in Invites : invite'[i] # None => invite'[i].to \in portfolios'
  BY <1>1 DEF TypeInv, TypeOK
<1>5. /\ key' \in [Keys -> ApiKey \cup {None}]
      /\ \A k \in Keys : key'[k] # None => key'[k].reach \subseteq portfolios'
  <2>1. ASSUME NEW k \in Keys
        PROVE  /\ key'[k] \in ApiKey \cup {None}
               /\ key'[k] # None => key'[k].reach \subseteq portfolios'
    <3>1. CASE key[k] = None
      BY <1>1, <3>1 DEF Unlinked
    <3>2. CASE key[k] # None
      <4>1. key[k] \in ApiKey /\ key[k].reach \subseteq portfolios
        BY <3>2 DEF TypeInv, TypeOK
      <4>2. key'[k] = [key[k] EXCEPT !.reach = @ \ {p}]
        BY <1>1, <3>2 DEF Unlinked
      <4>3. key'[k].reach = key[k].reach \ {p} /\ key'[k] \in ApiKey
        BY <4>1, <4>2 DEF ApiKey
      <4> QED
        BY <1>1, <4>1, <4>3
    <3> QED
      BY <3>1, <3>2
  <2>2. key' = [k \in Keys |-> key'[k]]
    BY <1>1 DEF Unlinked
  <2> QED
    BY <2>1, <2>2
<1>6. edits' \in 0 .. MaxEdits
  BY <1>1, EditOK DEF TypeInv, TypeOK
<1> QED
  BY <1>1, <1>2, <1>3, <1>4, <1>5, <1>6 DEF TypeInv, TypeOK

\* An invitation is made, withdrawn or runs out.
LEMMA InviteTypeInv ==
    ASSUME TypeInv, NEW u \in Users, last' = None,
           NEW r \in MEMBER_ROLES, NEW i \in Invites,
           members_invite(u, r) \/ members_invite_revoke(u, i) \/ Expire(i)
    PROVE  TypeInv'
<1> USE MembersAssumption
<1>1. UNCHANGED <<account, portfolios, role, key, pending, joins>>
  BY DEF members_invite, members_invite_revoke, Expire
<1>2. active' \in [Users -> portfolios' \cup {None, Out}]
  <2>1. ASSUME NEW p \in Portfolios, Owns(u, p), Stays(u, p)
        PROVE  active' \in [Users -> portfolios' \cup {None, Out}]
    <3>1. p \in portfolios
      BY <2>1, ScopedIn DEF Owns, TypeInv
    <3> QED
      BY <1>1, <2>1, <3>1, StaysOK DEF TypeInv, TypeOK
  <2> QED
    BY <1>1, <2>1 DEF members_invite, members_invite_revoke, Expire, TypeInv, TypeOK
<1>3. edits' \in 0 .. MaxEdits
  BY EditOK DEF members_invite, members_invite_revoke, Expire, TypeInv, TypeOK
<1>4. /\ invite' \in [Invites -> PortfolioInvite \cup {None}]
      /\ \A j \in Invites : invite'[j] # None => invite'[j].to \in portfolios'
      /\ issued' \in 0 .. MaxInvites
  <2>1. CASE members_invite(u, r)
    <3>1. PICK p \in Portfolios :
             /\ Owns(u, p) /\ issued < MaxInvites /\ issued' = issued + 1
             /\ invite' = [invite EXCEPT ![issued'] =
                              [to |-> p, role |-> r, used |-> FALSE, revoked |-> FALSE,
                               expired |-> FALSE]]
      BY <2>1 DEF members_invite
    <3>2. p \in portfolios
      BY <3>1, ScopedIn DEF Owns, TypeInv
    <3>3. issued' \in Invites /\ issued' \in 0 .. MaxInvites
      BY <3>1 DEF Invites, TypeInv, TypeOK
    <3>4. [to |-> p, role |-> r, used |-> FALSE, revoked |-> FALSE, expired |-> FALSE]
             \in PortfolioInvite
      BY DEF PortfolioInvite
    <3> QED
      BY <1>1, <3>1, <3>2, <3>3, <3>4 DEF TypeInv, TypeOK
  <2>2. CASE members_invite_revoke(u, i)
    <3>1. invite[i] # None /\ invite' = [invite EXCEPT ![i].revoked = TRUE] /\ issued' = issued
      BY <2>2 DEF members_invite_revoke
    <3>2. invite[i] \in PortfolioInvite
      BY <3>1 DEF TypeInv, TypeOK
    <3>3. /\ [invite[i] EXCEPT !.revoked = TRUE] \in PortfolioInvite
          /\ [invite[i] EXCEPT !.revoked = TRUE].to = invite[i].to
      BY <3>2 DEF PortfolioInvite
    <3> QED
      BY <1>1, <3>1, <3>3 DEF TypeInv, TypeOK
  <2>3. CASE Expire(i)
    <3>1. invite[i] # None /\ invite' = [invite EXCEPT ![i].expired = TRUE] /\ issued' = issued
      BY <2>3 DEF Expire, Live
    <3>2. invite[i] \in PortfolioInvite
      BY <3>1 DEF TypeInv, TypeOK
    <3>3. /\ [invite[i] EXCEPT !.expired = TRUE] \in PortfolioInvite
          /\ [invite[i] EXCEPT !.expired = TRUE].to = invite[i].to
      BY <3>2 DEF PortfolioInvite
    <3> QED
      BY <1>1, <3>1, <3>3 DEF TypeInv, TypeOK
  <2> QED
    BY <2>1, <2>2, <2>3
<1> QED
  BY <1>1, <1>2, <1>3, <1>4 DEF TypeInv, TypeOK

\* An invitation is taken: it is used, and its taker is in its portfolio.
LEMMA AcceptRowOK ==
    ASSUME TypeInv, NEW i \in Invites, NEW u \in Users, Claimed(i), AcceptRow(i, u)
    PROVE  /\ invite[i].to \in portfolios /\ invite[i].to \in Portfolios
           /\ invite' \in [Invites -> PortfolioInvite \cup {None}]
           /\ \A j \in Invites : invite'[j] # None => invite'[j].to \in portfolios
           /\ role' \in [Portfolios -> [Users -> MEMBER_ROLES \cup {None}]]
           /\ \A p \in Portfolios \ portfolios, v \in Users : role'[p][v] = None
           /\ joins' \in [Invites -> Nat]
<1>1. invite[i] \in PortfolioInvite /\ invite[i].to \in portfolios
  BY DEF Claimed, TypeInv, TypeOK
<1>2. invite[i].role \in MEMBER_ROLES /\ invite[i].to \in Portfolios
  BY <1>1 DEF PortfolioInvite
<1>3. /\ [invite[i] EXCEPT !.used = TRUE] \in PortfolioInvite
      /\ [invite[i] EXCEPT !.used = TRUE].to = invite[i].to
  BY <1>1 DEF PortfolioInvite
<1>4. /\ invite' \in [Invites -> PortfolioInvite \cup {None}]
      /\ \A j \in Invites : invite'[j] # None => invite'[j].to \in portfolios
  BY <1>1, <1>3 DEF AcceptRow, TypeInv, TypeOK
<1>5. /\ role' \in [Portfolios -> [Users -> MEMBER_ROLES \cup {None}]]
      /\ \A p \in Portfolios \ portfolios, v \in Users : role'[p][v] = None
  <2>1. CASE role' = role
    BY <2>1 DEF TypeInv, TypeOK
  <2>2. CASE role' = [role EXCEPT ![invite[i].to][u] = invite[i].role]
    BY <1>1, <1>2, <2>2 DEF TypeInv, TypeOK
  <2> QED
    BY <2>1, <2>2 DEF AcceptRow, Joined
<1>6. joins' \in [Invites -> Nat]
  <2>1. joins[i] + (IF role[invite[i].to][u] = None THEN 1 ELSE 0) \in Nat
    BY DEF TypeInv, TypeOK
  <2> QED
    BY <2>1 DEF AcceptRow, TypeInv, TypeOK
<1> QED
  BY <1>1, <1>2, <1>4, <1>5, <1>6

LEMMA AcceptTypeInv ==
    ASSUME TypeInv, NEW u \in Users, NEW i \in Invites, last' = None, invite_accept(u, i)
    PROVE  TypeInv'
<1>1. /\ Claimed(i) /\ AcceptRow(i, u) /\ Stays(u, invite[i].to)
      /\ UNCHANGED <<account, portfolios, issued, key, pending, edits>>
  BY DEF invite_accept
<1>2. active' \in [Users -> portfolios' \cup {None, Out}]
  BY <1>1, AcceptRowOK, StaysOK DEF TypeInv, TypeOK
<1> QED
  BY <1>1, <1>2, AcceptRowOK DEF TypeInv, TypeOK

\* The first half of making an account.
LEMMA BeginsTypeInv ==
    ASSUME TypeInv, NEW via \in {"signup", "provider", "added"}, NEW u \in Users,
           NEW held \in Invites \cup {None}, last' = None, Begins(via, u, held)
    PROVE  TypeInv'
<1> DEFINE r == [via |-> via, user |-> u, held |-> held]
<1>1. /\ Cardinality(pending) < MaxPending /\ pending' = pending \cup {r}
      /\ UNCHANGED <<account, portfolios, role, active, invite, issued, key, edits, joins>>
  BY DEF Begins
<1>2. IsFiniteSet(pending) /\ Cardinality(pending) \in Nat
  BY FS_CardinalityType DEF TypeInv
<1>3. r \in Pending
  BY DEF Pending
<1> HIDE DEF r
<1>4. IsFiniteSet(pending') /\ Cardinality(pending') <= Cardinality(pending) + 1
  BY <1>1, <1>2, FS_AddElement
<1>5. Cardinality(pending') <= MaxPending
  BY <1>1, <1>2, <1>4, FS_CardinalityType, MembersAssumption
<1> QED
  BY <1>1, <1>3, <1>4, <1>5 DEF TypeInv, TypeOK

\* A request leaves the list.
LEMMA Removed ==
    ASSUME TypeInv, NEW r \in pending, pending' = pending \ {r}
    PROVE  pending' \subseteq Pending /\ IsFiniteSet(pending') /\ Cardinality(pending') <= MaxPending
<1>1. IsFiniteSet(pending) /\ Cardinality(pending) \in Nat
  BY FS_CardinalityType DEF TypeInv
<1>2. IsFiniteSet(pending') /\ Cardinality(pending') = Cardinality(pending) - 1
  BY <1>1, FS_RemoveElement
<1> QED
  BY <1>1, <1>2, MembersAssumption DEF TypeInv, TypeOK

LEMMA RefusedTypeInv ==
    ASSUME TypeInv, NEW r \in pending, last' = None, Refused(r)
    PROVE  TypeInv'
<1>1. pending' \subseteq Pending /\ IsFiniteSet(pending') /\ Cardinality(pending') <= MaxPending
  BY Removed DEF Refused
<1>2. UNCHANGED <<account, portfolios, role, active, invite, issued, key, edits, joins>>
  BY DEF Refused
<1> QED
  BY <1>1, <1>2 DEF TypeInv, TypeOK

LEMMA PendingIs ==
    ASSUME TypeInv, NEW r \in pending
    PROVE  r.user \in Users /\ r.held \in Invites \cup {None}
           /\ r.via \in {"signup", "provider", "added"}
BY DEF TypeInv, TypeOK, Pending

\* Whoever makes the account, an invitation is taken for it.
LEMMA TakenTypeInv ==
    ASSUME TypeInv, NEW r \in pending, last' = None, r.held \in Invites, Claimed(r.held),
           AcceptRow(r.held, r.user), account' = [account EXCEPT ![r.user] = "active"],
           NEW p \in portfolios \cup {None}, Stays(r.user, p), pending' = pending \ {r},
           UNCHANGED <<portfolios, issued, key, edits>>
    PROVE  TypeInv'
<1>1. r.user \in Users
  BY PendingIs
<1>2. pending' \subseteq Pending /\ IsFiniteSet(pending') /\ Cardinality(pending') <= MaxPending
  BY Removed
<1>3. active' \in [Users -> portfolios' \cup {None, Out}]
  BY <1>1, StaysOK DEF TypeInv, TypeOK
<1>4. account' \in [Users -> {"none", "active", "disabled"}]
  BY DEF TypeInv, TypeOK
<1>5. /\ invite' \in [Invites -> PortfolioInvite \cup {None}]
      /\ \A j \in Invites : invite'[j] # None => invite'[j].to \in portfolios'
      /\ role' \in [Portfolios -> [Users -> MEMBER_ROLES \cup {None}]]
      /\ \A o \in Portfolios \ portfolios', v \in Users : role'[o][v] = None
      /\ joins' \in [Invites -> Nat]
  BY <1>1, AcceptRowOK
<1> QED
  BY <1>2, <1>3, <1>4, <1>5 DEF TypeInv, TypeOK

\* The second half.
LEMMA EndsTypeInv ==
    ASSUME TypeInv, HeldOK, NEW r \in pending, last' = None, Ends(r)
    PROVE  TypeInv'
<1>1. r.user \in Users /\ r.via \in {"signup", "provider", "added"}
  BY PendingIs
<1>2. CASE Refused(r)
  BY <1>2, RefusedTypeInv
<1>3. CASE r.via = "signup" /\ ~Refused(r)
  <2>1. SignedUp(r)
    BY <1>3 DEF Ends
  <2>2. /\ Claimed(r.held) /\ AcceptRow(r.held, r.user)
        /\ account' = [account EXCEPT ![r.user] = "active"]
        /\ Stays(r.user, invite[r.held].to) /\ pending' = pending \ {r}
        /\ UNCHANGED <<portfolios, issued, key, edits>>
    BY <1>3, <2>1 DEF SignedUp
  <2>3. r.held \in Invites
    BY <1>3 DEF HeldOK
  <2>4. invite[r.held].to \in portfolios \cup {None}
    BY <1>1, <2>2, <2>3, AcceptRowOK
  <2> QED
    BY <2>2, <2>3, <2>4, TakenTypeInv
<1>4. CASE r.via = "provider" /\ ~Refused(r)
  <2>1. CalledBack(r)
    BY <1>4 DEF Ends
  <2>2. /\ Claimed(r.held) /\ AcceptRow(r.held, r.user)
        /\ account' = [account EXCEPT ![r.user] = "active"]
        /\ pending' = pending \ {r}
        /\ UNCHANGED <<portfolios, issued, key, edits>>
    BY <1>4, <2>1 DEF CalledBack
  <2>3. r.held \in Invites
    BY <1>4 DEF HeldOK
  <2>4. PICK wanted : Stays(r.user, Landing(r.user, wanted, role'))
    BY <1>4, <2>1 DEF CalledBack
  <2>5. \A p \in Portfolios \ portfolios : role'[p][r.user] = None
    BY <1>1, <2>2, <2>3, AcceptRowOK
  <2>6. Landing(r.user, wanted, role') \in portfolios \cup {None}
    BY <1>1, <2>5, LandingIs
  <2> QED
    BY <2>2, <2>3, <2>4, <2>6, TakenTypeInv
<1>5. CASE r.via = "added" /\ ~Refused(r)
  <2>1. Added(r)
    BY <1>5 DEF Ends
  <2>2. /\ NextId \in Portfolios /\ account' = [account EXCEPT ![r.user] = "active"]
        /\ portfolios' = portfolios \cup {NextId} /\ role' = Founded(r.user)
        /\ pending' = pending \ {r}
        /\ UNCHANGED <<active, invite, issued, key, edits, joins>>
    BY <1>5, <2>1 DEF Added
  <2>3. pending' \subseteq Pending /\ IsFiniteSet(pending') /\ Cardinality(pending') <= MaxPending
    BY <2>2, Removed
  <2>4. account' \in [Users -> {"none", "active", "disabled"}]
    BY <2>2 DEF TypeInv, TypeOK
  <2>5. /\ role' \in [Portfolios -> [Users -> MEMBER_ROLES \cup {None}]]
        /\ \A p \in Portfolios \ portfolios', v \in Users : role'[p][v] = None
    BY <1>1, <2>2, FoundedOK
  <2> QED
    BY <2>2, <2>3, <2>4, <2>5 DEF TypeInv, TypeOK
<1> QED
  BY <1>1, <1>2, <1>3, <1>4, <1>5

LEMMA ToggleTypeInv ==
    ASSUME TypeInv, NEW u \in Users, NEW v \in Users, last' = None, users_toggle_active(u, v)
    PROVE  TypeInv'
<1>1. PICK p \in Portfolios : /\ Scoped(u, p)
                              /\ active' = [active EXCEPT ![u] = p,
                                    ![v] = IF account[v] = "active" THEN Out ELSE @]
  BY DEF users_toggle_active
<1>2. p \in portfolios
  BY <1>1, ScopedIn DEF TypeInv
<1>3. /\ account' = [account EXCEPT ![v] = IF @ = "active" THEN "disabled" ELSE "active"]
      /\ Edit /\ UNCHANGED <<portfolios, role, invite, issued, key, pending, joins>>
  BY DEF users_toggle_active
<1>4. account' \in [Users -> {"none", "active", "disabled"}]
  BY <1>3 DEF TypeInv, TypeOK
<1>5. active' \in [Users -> portfolios' \cup {None, Out}]
  BY <1>1, <1>2, <1>3 DEF TypeInv, TypeOK
<1>6. edits' \in 0 .. MaxEdits
  BY <1>3, EditOK DEF TypeInv, TypeOK
<1> QED
  BY <1>3, <1>4, <1>5, <1>6 DEF TypeInv, TypeOK

LEMMA KeyTypeInv ==
    ASSUME TypeInv, NEW u \in Users, NEW k \in Keys, last' = None,
           keys_new(u, k) \/ keys_revoke(u, k)
    PROVE  TypeInv'
<1>1. PICK p \in Portfolios : Scoped(u, p) /\ Stays(u, p)
  BY DEF keys_new, keys_revoke
<1>2. p \in portfolios
  BY <1>1, ScopedIn DEF TypeInv
<1>3. Edit /\ UNCHANGED <<account, portfolios, role, invite, issued, pending, joins>>
  BY DEF keys_new, keys_revoke
<1>4. active' \in [Users -> portfolios' \cup {None, Out}]
  BY <1>1, <1>2, <1>3, StaysOK DEF TypeInv, TypeOK
<1>5. edits' \in 0 .. MaxEdits
  BY <1>3, EditOK DEF TypeInv, TypeOK
<1>6. PICK row \in ApiKey : row.reach \subseteq portfolios /\ key' = [key EXCEPT ![k] = row]
  <2>1. CASE keys_new(u, k)
    <3>1. PICK reach \in SUBSET Mine(u), write \in KeyScopes :
             key' = [key EXCEPT ![k] = [by |-> u, reach |-> reach, write |-> write,
                                        revoked |-> FALSE]]
      BY <2>1 DEF keys_new
    <3>2. reach \subseteq portfolios /\ reach \subseteq Portfolios /\ write \in BOOLEAN
      BY MembersAssumption DEF Mine, TypeInv, TypeOK
    <3>3. [by |-> u, reach |-> reach, write |-> write, revoked |-> FALSE] \in ApiKey
      BY <3>2 DEF ApiKey
    <3> QED
      BY <3>1, <3>2, <3>3
  <2>2. CASE keys_revoke(u, k)
    <3>1. key[k] # None /\ key' = [key EXCEPT ![k].revoked = TRUE]
      BY <2>2 DEF keys_revoke
    <3>2. key[k] \in ApiKey /\ key[k].reach \subseteq portfolios
      BY <3>1 DEF TypeInv, TypeOK
    <3>3. /\ [key[k] EXCEPT !.revoked = TRUE] \in ApiKey
          /\ [key[k] EXCEPT !.revoked = TRUE].reach = key[k].reach
      BY <3>2 DEF ApiKey
    <3> QED
      BY <3>1, <3>2, <3>3
  <2> QED
    BY <2>1, <2>2
<1>7. /\ key' \in [Keys -> ApiKey \cup {None}]
      /\ \A j \in Keys : key'[j] # None => key'[j].reach \subseteq portfolios'
  BY <1>3, <1>6 DEF TypeInv, TypeOK
<1> QED
  BY <1>3, <1>4, <1>5, <1>7 DEF TypeInv, TypeOK

LEMMA WritesTypeInv ==
    ASSUME TypeInv, Writes
    PROVE  TypeInv'
<1>1. UNCHANGED <<account, portfolios, role, invite, issued, key, pending, edits, joins>>
  BY DEF Writes, WebWrite, MoveHolding, api_session
<1>2. last' \in [by : Users, at : Portfolios]
  BY DEF Writes, WebWrite, MoveHolding, api_session, Stamped, TypeInv, TypeOK, ApiKey
<1>3. active' \in [Users -> portfolios' \cup {None, Out}]
  <2>1. CASE active' = active
    BY <1>1, <2>1 DEF TypeInv, TypeOK
  <2>2. ASSUME NEW u \in Users, NEW p \in Portfolios, Scoped(u, p), Stays(u, p)
        PROVE  active' \in [Users -> portfolios' \cup {None, Out}]
    <3>1. p \in portfolios
      BY <2>2, ScopedIn DEF TypeInv
    <3> QED
      BY <1>1, <2>2, <3>1, StaysOK DEF TypeInv, TypeOK
  <2> QED
    BY <2>1, <2>2 DEF Writes, WebWrite, MoveHolding, api_session
<1> QED
  BY <1>1, <1>2, <1>3 DEF TypeInv, TypeOK

\* What can happen, the history of writes aside.
LEMMA NextIs ==
    ASSUME Next
    PROVE  \/ Writes
           \/ /\ last' = None
              /\ \/ \E u \in Users : Person(u)
                 \/ \E i \in Invites : Expire(i)
                 \/ \E r \in pending : Ends(r)
BY DEF Next

LEMMA PersonTypeInv ==
    ASSUME TypeInv, NEW u \in Users, last' = None, Person(u)
    PROVE  TypeInv'
<1> USE MembersAssumption
<1>1. ASSUME NEW v \in Users, NEW r \in Roles, members_add(u, v, r) \/ members_role(u, v, r)
      PROVE  TypeInv'
  BY <1>1, MembersTypeInv
<1>2. ASSUME NEW v \in Users, members_remove(u, v) PROVE TypeInv'
  <2>1. "owner" \in MEMBER_ROLES
    BY DEF MEMBER_ROLES
  <2> QED
    BY <1>2, <2>1, MembersTypeInv
<1>3. ASSUME NEW v \in Users, users_add(u, v) \/ users_toggle_active(u, v) PROVE TypeInv'
  BY <1>3, BeginsTypeInv, ToggleTypeInv DEF users_add
<1>4. ASSUME NEW r \in Roles, members_invite(u, r) PROVE TypeInv'
  <2>1. issued + 1 \in Invites
    BY <1>4 DEF members_invite, Invites, TypeInv, TypeOK
  <2> QED
    BY <1>4, <2>1, InviteTypeInv
<1>5. ASSUME NEW i \in Invites, members_invite_revoke(u, i) \/ invite_accept(u, i) PROVE TypeInv'
  <2>1. "owner" \in MEMBER_ROLES
    BY DEF MEMBER_ROLES
  <2> QED
    BY <1>5, <2>1, InviteTypeInv, AcceptTypeInv
<1>6. ASSUME NEW i \in Invites, invite_signup(u, i) \/ login_oidc_callback(u, i) PROVE TypeInv'
  BY <1>6, BeginsTypeInv DEF invite_signup, login_oidc_callback
<1>7. ASSUME NEW k \in Keys, keys_new(u, k) \/ keys_revoke(u, k) PROVE TypeInv'
  BY <1>7, KeyTypeInv
<1> QED
  BY <1>1, <1>2, <1>3, <1>4, <1>5, <1>6, <1>7, SessionTypeInv, FoundTypeInv, DeletedTypeInv
  DEF Person

LEMMA NextTypeInv == ASSUME TypeInv, HeldOK, [Next]_vars PROVE TypeInv'
<1>1. ASSUME last' = None, NEW i \in Invites, Expire(i) PROVE TypeInv'
  <2>1. "owner" \in MEMBER_ROLES /\ Admin \in Users
    BY MembersAssumption DEF MEMBER_ROLES
  <2> QED
    BY <1>1, <2>1, InviteTypeInv
<1>2. CASE UNCHANGED vars
  BY <1>2 DEF vars, TypeInv, TypeOK
<1> QED
  BY <1>1, <1>2, NextIs, PersonTypeInv, EndsTypeInv, WritesTypeInv

\* Requests under way are begun and ended only by their own steps.
LEMMA NextHeldOK == ASSUME TypeInv, HeldOK, [Next]_vars PROVE HeldOK'
<1>1. ASSUME NEW via, NEW u, NEW held, Begins(via, u, held),
             via = "added" \/ held \in Invites
      PROVE  HeldOK'
  <2>1. pending' = pending \cup {[via |-> via, user |-> u, held |-> held]}
    BY <1>1 DEF Begins
  <2> QED
    BY <1>1, <2>1 DEF HeldOK
<1>2. CASE pending' \subseteq pending
  BY <1>2 DEF HeldOK
<1>3. ASSUME NEW u \in Users, Person(u) PROVE HeldOK'
  <2>1. ASSUME NEW i \in Invites, invite_signup(u, i) \/ login_oidc_callback(u, i) PROVE HeldOK'
    BY <1>1, <2>1 DEF invite_signup, login_oidc_callback
  <2>2. ASSUME NEW v \in Users, users_add(u, v) PROVE HeldOK'
    BY <1>1, <2>2 DEF users_add
  <2>3. \/ pending' = pending
        \/ \E i \in Invites : invite_signup(u, i) \/ login_oidc_callback(u, i)
        \/ \E v \in Users : users_add(u, v)
    BY <1>3 DEF Person, SignIn, SignOut, portfolio_new, portfolio_deleted, portfolio_switch,
       members_remove, users_toggle_active, members_add, members_role, members_invite,
       members_invite_revoke, invite_accept, keys_new, keys_revoke
  <2> QED
    BY <1>2, <2>1, <2>2, <2>3
<1>4. ASSUME NEW r \in pending, Ends(r) PROVE pending' \subseteq pending
  <2>1. r.via \in {"signup", "provider", "added"}
    BY PendingIs
  <2> QED
    BY <1>4, <2>1 DEF Ends, SignedUp, CalledBack, Added, Refused
<1>5. ASSUME NEW i \in Invites, Expire(i) PROVE pending' = pending
  BY <1>5 DEF Expire
<1>6. ASSUME Writes PROVE pending' = pending
  BY <1>6 DEF Writes, WebWrite, MoveHolding, api_session
<1> QED
  BY <1>2, <1>3, <1>4, <1>5, <1>6 DEF Next, vars

-----------------------------------------------------------------------------
(***************************************************************************)
(* Owners and invitations.                                                 *)
(***************************************************************************)
\* Every portfolio there was has the owners it had, or more.
OwnersStay ==
    \A p \in portfolios' : \/ \E u \in Users : role'[p][u] = "owner"
                           \/ p \in portfolios /\ \A u \in Users : role'[p][u] = role[p][u]

LEMMA OwnersEnough == ASSUME OwnerKept, OwnersStay PROVE OwnerKept'
BY DEF OwnerKept, OwnersStay

LEMMA AcceptOwners ==
    ASSUME TypeInv, OwnerKept, NEW i \in Invites, NEW u \in Users, Claimed(i), AcceptRow(i, u),
           portfolios' = portfolios
    PROVE  OwnerKept'
<1> SUFFICES ASSUME NEW p \in portfolios PROVE \E w \in Users : role'[p][w] = "owner"
  BY DEF OwnerKept
<1>1. PICK w \in Users : role[p][w] = "owner"
  BY DEF OwnerKept
<1>2. CASE role' = role
  BY <1>1, <1>2
<1>3. CASE role' # role
  <2>1. role[invite[i].to][u] = None /\ role' = [role EXCEPT ![invite[i].to][u] = invite[i].role]
    BY <1>3 DEF AcceptRow, Joined
  <2>2. ~(p = invite[i].to /\ w = u)
    BY <1>1, <2>1, MembersAssumption DEF MEMBER_ROLES
  <2>3. role'[p][w] = role[p][w]
    BY <2>1, <2>2 DEF TypeInv, TypeOK
  <2> QED
    BY <1>1, <2>3
<1> QED
  BY <1>2, <1>3

LEMMA FoundedOwners ==
    ASSUME TypeInv, OwnerKept, NEW u \in Users, NextId \in Portfolios,
           portfolios' = portfolios \cup {NextId}, role' = Founded(u)
    PROVE  OwnerKept'
<1> SUFFICES ASSUME NEW p \in portfolios' PROVE \E w \in Users : role'[p][w] = "owner"
  BY DEF OwnerKept
<1>1. CASE p = NextId
  BY <1>1, FoundedOK
<1>2. CASE p # NextId
  <2>1. PICK w \in Users : role[p][w] = "owner"
    BY <1>2 DEF OwnerKept
  <2>2. p \in Portfolios
    BY <1>2 DEF TypeInv, TypeOK
  <2>3. role'[p][w] = role[p][w]
    BY <1>2, <2>2, FoundedOK
  <2> QED
    BY <2>1, <2>3
<1> QED
  BY <1>1, <1>2

LEMMA MembersOwners ==
    ASSUME TypeInv, OwnerKept, NEW u \in Users, NEW v \in Users, NEW r \in MEMBER_ROLES,
           members_add(u, v, r) \/ members_role(u, v, r) \/ members_remove(u, v)
    PROVE  OwnerKept'
<1>1. PICK p \in Portfolios :
         /\ Owns(u, p) /\ Stays(u, p)
         /\ \/ role[p][v] = None /\ RoleSet(p, v, r)
            \/ (v = u => r = "owner") /\ RoleSet(p, v, r)
            \/ /\ role[p][v] = "owner" => \E w \in Users \ {v} : role[p][w] = "owner"
               /\ RoleSet(p, v, None)
  BY MembersAre
<1>2. role[p][u] = "owner"
  BY <1>1 DEF Owns
<1>3. \E w \in Users : role'[p][w] = "owner"
  <2>1. CASE role[p][v] = None /\ RoleSet(p, v, r)
    BY <1>2, <2>1, MembersAssumption DEF RoleSet, TypeInv, TypeOK, MEMBER_ROLES
  <2>2. CASE (v = u => r = "owner") /\ RoleSet(p, v, r)
    BY <1>2, <2>2 DEF RoleSet, TypeInv, TypeOK
  <2>3. CASE /\ role[p][v] = "owner" => \E w \in Users \ {v} : role[p][w] = "owner"
             /\ RoleSet(p, v, None)
    BY <1>2, <2>3 DEF RoleSet, TypeInv, TypeOK
  <2> QED
    BY <1>1, <2>1, <2>2, <2>3
<1>4. PICK q : RoleSet(p, v, q)
  BY <1>1
<1>5. ASSUME NEW o \in portfolios, o # p, NEW w \in Users PROVE role'[o][w] = role[o][w]
  BY <1>4, <1>5 DEF RoleSet, TypeInv, TypeOK
<1>6. portfolios' = portfolios
  BY <1>4 DEF RoleSet
<1> QED
  BY <1>3, <1>5, <1>6 DEF OwnerKept

LEMMA EndsOwners ==
    ASSUME TypeInv, HeldOK, OwnerKept, NEW r \in pending, Ends(r)
    PROVE  OwnerKept'
<1>1. r.user \in Users /\ r.via \in {"signup", "provider", "added"}
  BY PendingIs
<1>2. CASE UNCHANGED <<portfolios, role>>
  BY <1>2 DEF OwnerKept
<1>3. CASE r.via \in {"signup", "provider"} /\ ~UNCHANGED <<portfolios, role>>
  <2>1. Claimed(r.held) /\ AcceptRow(r.held, r.user) /\ portfolios' = portfolios
    BY <1>3 DEF Ends, SignedUp, CalledBack, Refused
  <2>2. r.held \in Invites
    BY <1>3 DEF HeldOK
  <2> QED
    BY <1>1, <2>1, <2>2, AcceptOwners
<1>4. CASE r.via = "added" /\ ~UNCHANGED <<portfolios, role>>
  <2>1. NextId \in Portfolios /\ portfolios' = portfolios \cup {NextId} /\ role' = Founded(r.user)
    BY <1>4 DEF Ends, Added, Refused
  <2> QED
    BY <1>1, <2>1, FoundedOwners
<1> QED
  BY <1>1, <1>2, <1>3, <1>4

LEMMA PersonOwners ==
    ASSUME TypeInv, OwnerKept, NEW u \in Users, Person(u)
    PROVE  OwnerKept'
<1> USE MembersAssumption
<1>1. CASE UNCHANGED <<portfolios, role>>
  BY <1>1 DEF OwnerKept
<1>2. ASSUME NEW v \in Users, NEW r \in Roles, members_add(u, v, r) \/ members_role(u, v, r)
      PROVE  OwnerKept'
  BY <1>2, MembersOwners
<1>3. ASSUME NEW v \in Users, members_remove(u, v) PROVE OwnerKept'
  <2>1. "owner" \in MEMBER_ROLES
    BY DEF MEMBER_ROLES
  <2> QED
    BY <1>3, <2>1, MembersOwners
<1>4. ASSUME NEW i \in Invites, invite_accept(u, i) PROVE OwnerKept'
  BY <1>4, AcceptOwners DEF invite_accept
<1>5. CASE portfolio_new(u)
  BY <1>5, FoundedOwners DEF portfolio_new
<1>6. CASE portfolio_deleted(u)
  <2>1. PICK p \in Portfolios : /\ portfolios' = portfolios \ {p}
                                /\ role' = [role EXCEPT ![p] = [w \in Users |-> None]]
    BY <1>6 DEF portfolio_deleted
  <2>2. \A o \in portfolios' : role'[o] = role[o] /\ o \in portfolios
    BY <2>1 DEF TypeInv, TypeOK
  <2> QED
    BY <2>2 DEF OwnerKept
<1>7. \/ UNCHANGED <<portfolios, role>>
      \/ portfolio_new(u) \/ portfolio_deleted(u)
      \/ \E i \in Invites : invite_accept(u, i)
      \/ \E v \in Users : members_remove(u, v)
      \/ \E v \in Users, r \in Roles : members_add(u, v, r) \/ members_role(u, v, r)
  BY DEF Person, SignIn, SignOut, portfolio_switch, users_add, users_toggle_active, Begins,
     members_invite, members_invite_revoke, invite_signup, login_oidc_callback, keys_new, keys_revoke
<1> QED
  BY <1>1, <1>2, <1>3, <1>4, <1>5, <1>6, <1>7

LEMMA NextOwners == ASSUME TypeInv, HeldOK, OwnerKept, [Next]_vars PROVE OwnerKept'
<1>1. ASSUME UNCHANGED <<portfolios, role>> PROVE OwnerKept'
  BY <1>1 DEF OwnerKept
<1>2. ASSUME NEW i \in Invites, Expire(i) PROVE UNCHANGED <<portfolios, role>>
  BY <1>2 DEF Expire
<1>3. ASSUME Writes PROVE UNCHANGED <<portfolios, role>>
  BY <1>3 DEF Writes, WebWrite, MoveHolding, api_session
<1>4. ASSUME UNCHANGED vars PROVE UNCHANGED <<portfolios, role>>
  BY <1>4 DEF vars
<1> QED
  BY <1>1, <1>2, <1>3, <1>4, PersonOwners, EndsOwners DEF Next

\* An invitation that can still be used has made nobody, and one that was never issued
\* has no row.
InviteOK(i) ==
    /\ joins[i] \in 0 .. 1
    /\ invite[i] # None /\ ~invite[i].used => joins[i] = 0
    /\ invite[i] # None => ~(invite[i].used /\ invite[i].revoked)
    /\ i > issued => invite[i] = None /\ joins[i] = 0

InvitesOK == \A i \in Invites : InviteOK(i)

LEMMA AcceptInvites ==
    ASSUME TypeInv, InvitesOK, NEW i \in Invites, NEW u \in Users, Claimed(i), AcceptRow(i, u),
           issued' = issued
    PROVE  InvitesOK'
<1>1. invite[i] \in PortfolioInvite /\ ~invite[i].used /\ ~invite[i].revoked /\ invite[i] # None
  BY DEF Claimed, TypeInv, TypeOK
<1>2. invite'[i] = [invite[i] EXCEPT !.used = TRUE]
  BY DEF AcceptRow, TypeInv, TypeOK
<1>3. invite'[i].used = TRUE /\ invite'[i].revoked = invite[i].revoked /\ invite'[i] \in PortfolioInvite
  BY <1>1, <1>2 DEF PortfolioInvite
<1>4. joins[i] = 0 /\ joins'[i] \in 0 .. 1
  BY <1>1 DEF AcceptRow, InvitesOK, InviteOK, TypeInv, TypeOK
<1>5. InviteOK(i)'
  BY <1>1, <1>3, <1>4 DEF InvitesOK, InviteOK
<1>6. ASSUME NEW j \in Invites, j # i PROVE InviteOK(j)'
  <2>1. invite'[j] = invite[j] /\ joins'[j] = joins[j]
    BY <1>6 DEF AcceptRow, TypeInv, TypeOK
  <2> QED
    BY <2>1 DEF InvitesOK, InviteOK
<1> QED
  BY <1>5, <1>6 DEF InvitesOK

LEMMA RowsInvites ==
    ASSUME TypeInv, InvitesOK, NEW u \in Users, NEW r \in MEMBER_ROLES, NEW i \in Invites,
           members_invite(u, r) \/ members_invite_revoke(u, i) \/ Expire(i)
    PROVE  InvitesOK'
<1>1. joins' = joins
  BY DEF members_invite, members_invite_revoke, Expire
<1>2. CASE members_invite(u, r)
  <2>1. PICK p \in Portfolios :
           /\ issued < MaxInvites /\ issued' = issued + 1
           /\ invite' = [invite EXCEPT ![issued'] =
                            [to |-> p, role |-> r, used |-> FALSE, revoked |-> FALSE,
                             expired |-> FALSE]]
    BY <1>2 DEF members_invite
  <2>2. PICK n \in Invites : n = issued' /\ n > issued
    BY <2>1, MembersAssumption DEF Invites, TypeInv, TypeOK
  <2>3. invite'[n].used = FALSE /\ invite'[n].revoked = FALSE /\ joins'[n] = 0
    BY <1>1, <2>1, <2>2 DEF InvitesOK, InviteOK, TypeInv, TypeOK
  <2>4. InviteOK(n)'
    BY <2>2, <2>3 DEF InviteOK, Invites
  <2>5. ASSUME NEW j \in Invites, j # n PROVE InviteOK(j)'
    <3>1. invite'[j] = invite[j] /\ joins'[j] = joins[j]
      BY <1>1, <2>1, <2>2, <2>5 DEF TypeInv, TypeOK
    <3>2. j > issued' => j > issued
      BY <2>1, <2>2, MembersAssumption DEF Invites, TypeInv, TypeOK
    <3> QED
      BY <3>1, <3>2 DEF InvitesOK, InviteOK
  <2> QED
    BY <2>4, <2>5 DEF InvitesOK
<1>3. CASE members_invite_revoke(u, i)
  <2>1. /\ invite[i] # None /\ ~invite[i].used /\ issued' = issued
        /\ invite' = [invite EXCEPT ![i].revoked = TRUE]
    BY <1>3 DEF members_invite_revoke
  <2>2. invite[i] \in PortfolioInvite /\ invite'[i] = [invite[i] EXCEPT !.revoked = TRUE]
    BY <2>1 DEF TypeInv, TypeOK
  <2>3. invite'[i].used = invite[i].used
    BY <2>2 DEF PortfolioInvite
  <2>4. ASSUME NEW j \in Invites PROVE InviteOK(j)'
    BY <1>1, <2>1, <2>3 DEF InvitesOK, InviteOK, TypeInv, TypeOK
  <2> QED
    BY <2>4 DEF InvitesOK
<1>4. CASE Expire(i)
  <2>1. /\ invite[i] # None /\ issued' = issued
        /\ invite' = [invite EXCEPT ![i].expired = TRUE]
    BY <1>4 DEF Expire, Live
  <2>2. invite[i] \in PortfolioInvite /\ invite'[i] = [invite[i] EXCEPT !.expired = TRUE]
    BY <2>1 DEF TypeInv, TypeOK
  <2>3. invite'[i].used = invite[i].used /\ invite'[i].revoked = invite[i].revoked
    BY <2>2 DEF PortfolioInvite
  <2>4. ASSUME NEW j \in Invites PROVE InviteOK(j)'
    BY <1>1, <2>1, <2>3 DEF InvitesOK, InviteOK, TypeInv, TypeOK
  <2> QED
    BY <2>4 DEF InvitesOK
<1> QED
  BY <1>2, <1>3, <1>4

LEMMA NextInvites == ASSUME TypeInv, HeldOK, InvitesOK, [Next]_vars PROVE InvitesOK'
<1> USE MembersAssumption
<1>1. ASSUME UNCHANGED <<invite, issued, joins>> PROVE InvitesOK'
  BY <1>1 DEF InvitesOK, InviteOK
<1>2. ASSUME NEW u \in Users, portfolio_deleted(u) PROVE InvitesOK'
  <2>1. \A i \in Invites : invite'[i] = None \/ invite'[i] = invite[i]
    BY <1>2 DEF portfolio_deleted
  <2>2. issued' = issued /\ joins' = joins
    BY <1>2 DEF portfolio_deleted
  <2> QED
    BY <2>1, <2>2 DEF InvitesOK, InviteOK
<1>3. ASSUME NEW u \in Users, NEW i \in Invites, invite_accept(u, i) PROVE InvitesOK'
  BY <1>3, AcceptInvites DEF invite_accept
<1>4. ASSUME NEW u \in Users, NEW r \in Roles, members_invite(u, r) PROVE InvitesOK'
  <2>1. issued + 1 \in Invites
    BY <1>4 DEF members_invite, Invites, TypeInv, TypeOK
  <2> QED
    BY <1>4, <2>1, RowsInvites
<1>5. ASSUME NEW u \in Users, NEW i \in Invites, members_invite_revoke(u, i) \/ Expire(i)
      PROVE  InvitesOK'
  <2>1. "owner" \in MEMBER_ROLES
    BY DEF MEMBER_ROLES
  <2> QED
    BY <1>5, <2>1, RowsInvites
<1>6. ASSUME NEW u \in Users, Person(u) PROVE InvitesOK'
  <2>1. \/ UNCHANGED <<invite, issued, joins>>
        \/ portfolio_deleted(u)
        \/ \E i \in Invites : invite_accept(u, i) \/ members_invite_revoke(u, i)
        \/ \E r \in Roles : members_invite(u, r)
    BY <1>6 DEF Person, SignIn, SignOut, portfolio_new, portfolio_switch, users_add,
       users_toggle_active, Begins, members_add, members_role, members_remove, invite_signup,
       login_oidc_callback, keys_new, keys_revoke
  <2> QED
    BY <2>1, <1>1, <1>2, <1>3, <1>4, <1>5
<1>7. ASSUME NEW r \in pending, Ends(r) PROVE InvitesOK'
  <2>1. r.user \in Users /\ r.via \in {"signup", "provider", "added"}
    BY PendingIs
  <2>2. \/ UNCHANGED <<invite, issued, joins>>
        \/ /\ r.via \in {"signup", "provider"} /\ Claimed(r.held) /\ AcceptRow(r.held, r.user)
           /\ issued' = issued
    BY <1>7, <2>1 DEF Ends, SignedUp, CalledBack, Added, Refused
  <2>3. r.via \in {"signup", "provider"} => r.held \in Invites
    BY DEF HeldOK
  <2> QED
    BY <1>1, <2>1, <2>2, <2>3, AcceptInvites
<1>8. ASSUME Writes PROVE UNCHANGED <<invite, issued, joins>>
  BY <1>8 DEF Writes, WebWrite, MoveHolding, api_session
<1>9. ASSUME NEW i \in Invites, Expire(i) PROVE InvitesOK'
  BY <1>5, <1>9
<1> QED
  BY <1>1, <1>6, <1>7, <1>8, <1>9 DEF Next, vars

-----------------------------------------------------------------------------
(***************************************************************************)
(* The theorems.                                                           *)
(***************************************************************************)
IInv == TypeInv /\ HeldOK /\ OwnerKept /\ InvitesOK

LEMMA Inductive == Spec => []IInv
<1>1. Init => IInv
  <2> SUFFICES ASSUME Init PROVE IInv
    OBVIOUS
  <2>1. HeldOK /\ InvitesOK
    BY DEF Init, HeldOK, InvitesOK, InviteOK
  <2>2. OwnerKept
    <3>1. role[1][Admin] = "owner"
      BY MembersAssumption DEF Init, Portfolios
    <3> QED
      BY <3>1, MembersAssumption DEF Init, OwnerKept
  <2> QED
    BY <2>1, <2>2, InitTypeInv DEF IInv
<1>2. IInv /\ [Next]_vars => IInv'
  BY NextTypeInv, NextHeldOK, NextOwners, NextInvites DEF IInv
<1> QED
  BY <1>1, <1>2, PTL DEF Spec

\* No role, session, invitation or key of any of the tables names a portfolio that is
\* gone, in whatever order portfolios, members, keys and accounts come and go.
THEOREM TypeCorrect == Spec => []TypeOK
<1>1. IInv => TypeOK
  BY DEF IInv, TypeInv
<1> QED
  BY <1>1, Inductive, PTL

\* The guards of members_role, members_remove and portfolio_deleted leave every portfolio
\* an owner, whatever else its owners do to each other.
THEOREM OwnersKept == Spec => []OwnerKept
<1>1. IInv => OwnerKept
  BY DEF IInv
<1> QED
  BY <1>1, Inductive, PTL

\* accept_row's UPDATE lets one of those who hold an invitation in, and revoke's withdraws
\* only what nobody has used.
THEOREM InvitedOnce == Spec => []InviteOnce
<1>1. IInv => InviteOnce
  <2> SUFFICES ASSUME InvitesOK PROVE InviteOnce
    BY DEF IInv
  <2>1. \A i \in Invites : joins[i] \in 0 .. 1 => joins[i] <= 1
    OBVIOUS
  <2> QED
    BY <2>1 DEF InvitesOK, InviteOK, InviteOnce
<1> QED
  BY <1>1, Inductive, PTL

\* Each way to a portfolio's rows, by session, by key and by a move to another portfolio,
\* looks at the role its person holds there at that moment.
THEOREM OnlyWritersWrite == Spec => WritesAllowed
<1>1. [Next]_vars => [last' # None => /\ account[last'.by] = "active"
                                     /\ role[last'.at][last'.by] \in WRITE_ROLES]_vars
  <2> SUFFICES ASSUME Writes
               PROVE  account[last'.by] = "active" /\ role[last'.at][last'.by] \in WRITE_ROLES
    BY DEF Next
  <2>1. CASE \E u \in Users, p \in Portfolios : WebWrite(u, p) \/ MoveHolding(u, p)
    BY <2>1 DEF WebWrite, MoveHolding, as_portfolio, Scoped, Signed, Stamped
  <2>2. CASE \E k \in Keys, p \in Portfolios : api_session(k, p)
    BY <2>2 DEF api_session, key_reach, Stamped
  <2> QED
    BY <2>1, <2>2 DEF Writes
<1> QED
  BY <1>1, PTL DEF Spec, WritesAllowed
=============================================================================
