-------------------------- MODULE IdentityOverlay --------------------------
(***************************************************************************)
(* The synthetic users and groups of the identity laboratory:              *)
(* src/identity/configuration/users.py and groups.py.                      *)
(*                                                                         *)
(* The checked-in manifest is never written.  Edits live in two overlay    *)
(* files, users.json and groups.json, and what the generator               *)
(* and the pages see is the manifest merged with them.  An overlay is a    *)
(* function from the ids it mentions to records.  A name is a sequence of  *)
(* words, because a record keeps a first and a last name and the merged    *)
(* user keeps their concatenation only.  A password is a number: 0 is the  *)
(* shared password of the environment, every generated one is positive.    *)
(* Titles and display names of groups are left out.                        *)
(***************************************************************************)
EXTENDS Naturals, Sequences, FiniteSetsExt

CONSTANTS
  BaseUsers,        \* users of northlake-eem-security-v1.yaml: id -> record
  BaseGroups,       \* groups of it: id -> record
  LocalUsers,       \* the ids "local-..." that a creation can draw
  UserOrder,        \* all user ids: the manifest's order, then the local ones
  SyntheticEmails,  \* addresses of the two fictional domains
  LongestName       \* words a first or a last name may have (60 characters)

Base == DOMAIN BaseUsers
UserIds == Base \cup LocalUsers
SharedPassword == 0
Unassigned == ""     \* the company of a local user or group

ASSUME OverlayAssumption ==
  /\ Base \cap LocalUsers = {} /\ IsFiniteSet(DOMAIN BaseGroups)
  /\ UserOrder \in Seq(UserIds)
  /\ {UserOrder[n] : n \in DOMAIN UserOrder} = UserIds
  /\ Len(UserOrder) = Cardinality(UserIds)
  /\ \A u \in Base : Len(BaseUsers[u].name) >= 2 /\ BaseUsers[u].enabled \in BOOLEAN
  /\ LongestName \in Nat \ {0}

Put(f, key, value) ==
  [k \in DOMAIN f \cup {key} |-> IF k = key THEN value ELSE f[k]]
Without(f, key) == [k \in DOMAIN f \ {key} |-> f[k]]
Joined(f, g) ==
  [k \in DOMAIN f \cup DOMAIN g |-> IF k \in DOMAIN f THEN f[k] ELSE g[k]]

-----------------------------------------------------------------------------
(* The user overlay.                                                       *)

\* SyntheticUserValues.from_values: the form of a user that is accepted
AcceptedForm(form) ==
  /\ form.email \in SyntheticEmails
  /\ Len(form.first) \in 1 .. LongestName
  /\ Len(form.last) \in 1 .. LongestName
  /\ form.enabled \in BOOLEAN

\* str.split(maxsplit=1): the first word, and the rest
FormOf(user) ==
  [username |-> user.username, email |-> user.email, enabled |-> user.enabled,
   first |-> <<Head(user.name)>>, last |-> Tail(user.name)]

Record(form, source, password) ==
  [source |-> source, password |-> password, username |-> form.username,
   email |-> form.email, enabled |-> form.enabled,
   first |-> form.first, last |-> form.last]

\* one user as merge_user_overlay returns it
EffectiveUser(users, u) ==
  LET company == IF u \in Base THEN BaseUsers[u].company ELSE Unassigned IN
  IF u \in DOMAIN users
  THEN [username |-> users[u].username, email |-> users[u].email,
        name |-> users[u].first \o users[u].last, enabled |-> users[u].enabled,
        password |-> users[u].password, company |-> company]
  ELSE [username |-> BaseUsers[u].username, email |-> BaseUsers[u].email,
        name |-> BaseUsers[u].name, enabled |-> BaseUsers[u].enabled,
        password |-> SharedPassword, company |-> company]

KnownUsers(users) == Base \cup DOMAIN users
EffectiveUsers(users) ==
  [u \in KnownUsers(users) |-> EffectiveUser(users, u)]

\* every check that merge_user_overlay makes before it returns
UsersMerge(users) ==
  LET all == EffectiveUsers(users) IN
  /\ \A u \in DOMAIN users : AcceptedForm(users[u])
  /\ \A u \in DOMAIN users \cap Base : users[u].source = "base"
  /\ \A u \in DOMAIN users \ Base :
       u \in LocalUsers /\ users[u].source = "local" /\ users[u].password > 0
  /\ \A u, v \in DOMAIN all : u # v =>
       all[u].username # all[v].username /\ all[u].email # all[v].email
  /\ \E u \in DOMAIN all : all[u].enabled

\* the first enabled (or disabled) user in the generator's order, if any
FirstUser(all, enabled) ==
  LET places == {n \in DOMAIN UserOrder :
                   /\ UserOrder[n] \in DOMAIN all
                   /\ all[UserOrder[n]].enabled = enabled}
  IN IF places = {} THEN {} ELSE {UserOrder[Min(places)]}

\* SyntheticUserStore.create
CreatedUser(users, u, form, password) ==
  Put(users, u, Record(form, "local", password))

\* Mutant: an update forgets a generated password
UpdatedUserAfresh(users, u, form) ==
  Put(users, u, Record(form, IF u \in Base THEN "base" ELSE "local",
                       IF u \in Base THEN SharedPassword ELSE users[u].password))
\* SyntheticUserStore.update keeps the password of the record, if it has one
UpdatedUser(users, u, form) ==
  Put(users, u,
      Record(form, IF u \in Base THEN "base" ELSE "local",
             IF u \in DOMAIN users THEN users[u].password ELSE SharedPassword))

\* SyntheticUserStore.reset_password rebuilds the record from the public user
PasswordReset(users, u, password) ==
  Put(users, u,
      Record(FormOf(EffectiveUser(users, u)),
             IF u \in Base THEN "base" ELSE "local", password))

-----------------------------------------------------------------------------
(* The group overlay: local groups, and memberships of base groups.        *)

EffectiveMembers(groups, g) ==
  IF g \in DOMAIN groups.local THEN groups.local[g]
  ELSE IF g \in DOMAIN groups.overrides THEN groups.overrides[g]
  ELSE BaseGroups[g].users

EffectiveGroups(groups) ==
  [g \in DOMAIN BaseGroups \cup DOMAIN groups.local |->
     [users |-> EffectiveMembers(groups, g),
      company |-> IF g \in DOMAIN BaseGroups THEN BaseGroups[g].company
                  ELSE Unassigned,
      profiles |-> IF g \in DOMAIN BaseGroups THEN BaseGroups[g].profiles
                   ELSE {}]]

\* every check that merge_group_overlay makes, against the users it is given
GroupsMerge(groups, known) ==
  /\ DOMAIN groups.local \cap DOMAIN BaseGroups = {}
  /\ DOMAIN groups.overrides \subseteq DOMAIN BaseGroups
  /\ \A g \in DOMAIN EffectiveGroups(groups) :
       EffectiveMembers(groups, g) \subseteq known

CreatedGroup(groups, g) == [groups EXCEPT !.local = Put(@, g, {})]

RenamedGroup(groups, g, new) ==
  [groups EXCEPT !.local = Put(Without(@, g), new, @[g])]

DeletedGroup(groups, g) == [groups EXCEPT !.local = Without(@, g)]

\* an override equal to the manifest's membership is dropped
MembersSet(groups, g, members) ==
  IF g \in DOMAIN groups.local
  THEN [groups EXCEPT !.local = Put(@, g, members)]
  ELSE [groups EXCEPT !.overrides =
          IF members = BaseGroups[g].users THEN Without(@, g)
          ELSE Put(@, g, members)]

\* user_claim_preview: the groups claim the page shows for a user
ClaimPreview(groups, u) ==
  {g \in DOMAIN EffectiveGroups(groups) : u \in EffectiveMembers(groups, g)}
=============================================================================
