---------------------------- MODULE IdentityLab ----------------------------
(***************************************************************************)
(* The identity half of the configuration service: the edits of users and  *)
(* groups and the application of the OIDC and SAML settings                *)
(* (src/identity/configuration/server.py), each of which rewrites a file,  *)
(* regenerates the realm and replaces the one that Keycloak serves.        *)
(*                                                                         *)
(* build_realm is a function, so a generated document is represented by    *)
(* the input it was generated from: realmFile, connectionFile and served   *)
(* hold inputs, and Realm(input) or Connection(input) is the content.      *)
(*                                                                         *)
(* Edits and applications hold _apply_lock from the first write to the     *)
(* answer; the two Saves do not take it.  A request that validation        *)
(* refuses changes nothing and is not an action.  The provider settings    *)
(* are fixed: what changes them is the module ConfigurationService, which  *)
(* also has the single calls of a replacement that are one step here.      *)
(***************************************************************************)
EXTENDS RealmVerifier

CONSTANTS
  Stacks,          \* [env, oidc, saml, certificate] a stack has been run with
  UserForms,       \* what the user page sends
  LocalGroups,     \* ids of created groups
  OidcDocuments,   \* settings the OIDC page sends
  SamlDocuments,   \* settings the SAML page sends
  DriftKinds,      \* changes made to the served realm in Keycloak's console
  MaxEdits,        \* bound on accepted requests
  MaxFaults        \* bound on failed calls, restarts, lapses and drifts

ASSUME LabAssumption ==
  /\ \A stack \in Stacks : /\ stack.oidc \in OidcDocuments
                            /\ stack.saml \in SamlDocuments
                            /\ stack.certificate \in {"none", "current", "lapsed"}
  /\ \A s \in OidcDocuments : s = OidcFields(s)
  /\ \A s \in SamlDocuments : \A p \in Profiles : s[p] = SamlFields(s[p])
  /\ MaxEdits \in Nat /\ MaxFaults \in Nat

VARIABLES
  env,             \* the provider settings; never changes
  users, groups,   \* users.json and groups.json
  oidc, saml,      \* oidc.json and saml.json
  certificate,     \* the stored certificate of the service provider
  realmFile, connectionFile,   \* northlake-realm.json and connection.json
  served,          \* the realm Keycloak serves: {} or {an input}
  drift,           \* how the served realm differs from its input
  pc, op,          \* where the lock's holder is, and its request
  saving,          \* a Save of SAML settings between its two writes
  status,          \* "working", or how the last locked request ended
  minted,          \* passwords generated so far
  edits, faults

files == <<users, groups, oidc, saml, certificate>>
published == <<realmFile, connectionFile, served, drift>>
request == <<pc, op, status>>
vars == <<env, files, published, request, saving, minted, edits, faults>>

NoRequest == [kind |-> "none", oidc |-> {}, saml |-> {}, staged |-> {}]

\* Mutant: the generator reads the documents again
SelectedStored(given, stored) == stored
\* settings passed by the request, or else the ones on disk
Selected(given, stored) == IF given = {} THEN stored ELSE CHOOSE s \in given : TRUE

\* what _generate reads: overlays, documents and the certificate
GeneratorInput ==
  [env |-> env, users |-> users, groups |-> groups,
   oidc |-> Selected(op.oidc, oidc), saml |-> Selected(op.saml, saml),
   certificate |-> certificate]

\* Keycloak creates no realm in which two clients have one id; oidc.py compares
\* its two ids and saml.py its two, but nothing compares them with each other
DistinctClients(in) ==
  \A c, d \in Realm(in).clients : c.clientId = d.clientId => c = d

-----------------------------------------------------------------------------
(* A stack whose documents have been applied once.                         *)

Init ==
  /\ \E stack \in Stacks :
       /\ env = stack.env /\ oidc = stack.oidc /\ saml = stack.saml
       /\ certificate = stack.certificate
  /\ users = << >> /\ groups = [local |-> << >>, overrides |-> << >>]
  /\ pc = "idle" /\ op = NoRequest /\ saving = {} /\ status = "applied"
  /\ minted = 0 /\ edits = 0 /\ faults = 0
  /\ GenerationOutcome(GeneratorInput) = "generated" /\ DistinctClients(GeneratorInput)
  /\ realmFile = GeneratorInput /\ connectionFile = GeneratorInput
  /\ served = {GeneratorInput} /\ drift = {}

-----------------------------------------------------------------------------
(* A request takes the lock and rewrites its file.                         *)

\* Mutant: the request does not wait for the lock
AcceptedUnlocked(kind, first) ==
  /\ edits < MaxEdits
  /\ edits' = edits + 1 /\ status' = "working"
  /\ pc' = first
  /\ op' = [NoRequest EXCEPT !.kind = kind]
Accepted(kind, first) ==
  /\ pc = "idle" /\ edits < MaxEdits
  /\ edits' = edits + 1 /\ status' = "working"
  /\ pc' = first
  /\ op' = [NoRequest EXCEPT !.kind = kind]

\* Mutant: the form is checked alone, not the merged directory
StoreUsersUnmerged(candidate, passwords) ==
  /\ \A u \in DOMAIN candidate : AcceptedForm(candidate[u])
  /\ Accepted("user", "generate")
  /\ users' = candidate /\ minted' = passwords
  /\ UNCHANGED <<env, groups, oidc, saml, certificate, published, saving, faults>>
\* _validate_records: the merge must succeed before the overlay is replaced
StoreUsers(candidate, passwords) ==
  /\ UsersMerge(candidate)
  /\ Accepted("user", "generate")
  /\ users' = candidate /\ minted' = passwords
  /\ UNCHANGED <<env, groups, oidc, saml, certificate, published, saving, faults>>

CreateUser ==
  \E u \in LocalUsers \ DOMAIN users, form \in UserForms :
    StoreUsers(CreatedUser(users, u, form, minted + 1), minted + 1)

UpdateUser ==
  \E u \in KnownUsers(users), form \in UserForms :
    StoreUsers(UpdatedUser(users, u, form), minted)

ResetPassword ==
  \E u \in KnownUsers(users) :
    StoreUsers(PasswordReset(users, u, minted + 1), minted + 1)

StoreGroups(candidate) ==
  /\ GroupsMerge(candidate, KnownUsers(users))
  /\ Accepted("group", "generate")
  /\ groups' = candidate
  /\ UNCHANGED <<env, users, oidc, saml, certificate, published, saving,
                 minted, faults>>

CreateGroup ==
  \E g \in LocalGroups \ DOMAIN groups.local : StoreGroups(CreatedGroup(groups, g))

RenameGroup ==
  \E g \in DOMAIN groups.local : \E new \in LocalGroups \ DOMAIN groups.local :
    StoreGroups(RenamedGroup(groups, g, new))

DeleteGroup == \E g \in DOMAIN groups.local : StoreGroups(DeletedGroup(groups, g))

SetMembers ==
  \E g \in DOMAIN EffectiveGroups(groups) :
    \E members \in SUBSET KnownUsers(users) :
      StoreGroups(MembersSet(groups, g, members))

ApplyOidc(s) ==
  /\ OidcAccepted(s)
  /\ pc = "idle" /\ edits < MaxEdits
  /\ edits' = edits + 1 /\ status' = "working" /\ pc' = "generate"
  /\ op' = [NoRequest EXCEPT !.kind = "oidc", !.oidc = {s}]
  /\ oidc' = s
  /\ UNCHANGED <<env, users, groups, saml, certificate, published, saving,
                 minted, faults>>

\* the certificate is written first, and in a step of its own
ApplySaml(s, upload) ==
  /\ SamlUpdateAccepted(s, certificate, upload)
  /\ pc = "idle" /\ edits < MaxEdits
  /\ edits' = edits + 1 /\ status' = "working" /\ pc' = "document"
  /\ op' = [NoRequest EXCEPT !.kind = "saml", !.saml = {s}]
  /\ certificate' = CertificateAfter(certificate, upload)
  /\ UNCHANGED <<env, users, groups, oidc, saml, published, saving, minted, faults>>

WriteSaml ==
  /\ pc = "document"
  /\ \E s \in op.saml : saml' = s
  /\ pc' = "generate"
  /\ UNCHANGED <<env, users, groups, oidc, certificate, published, op, status,
                 saving, minted, edits, faults>>

-----------------------------------------------------------------------------
(* The request regenerates, replaces the realm and answers.                *)

\* Mutant: the request of an ended operation is kept
EndedKeeping(answer) == pc' = "idle" /\ op' = op /\ status' = answer
Ended(answer) == pc' = "idle" /\ op' = NoRequest /\ status' = answer

\* a refused generation is a ValueError and answered; a StopIteration is not
\* caught by the handler and ends it without an answer
GenerationFails ==
  /\ pc = "generate"
  /\ LET outcome == GenerationOutcome(GeneratorInput) IN
     /\ outcome # "generated" /\ Ended(outcome)
  /\ UNCHANGED <<env, files, published, saving, minted, edits, faults>>

\* _generate up to the first os.replace
Generate ==
  /\ pc = "generate" /\ GenerationOutcome(GeneratorInput) = "generated"
  /\ realmFile' = GeneratorInput
  /\ op' = [op EXCEPT !.staged = {GeneratorInput}] /\ pc' = "connection"
  /\ UNCHANGED <<env, files, connectionFile, served, drift, status, saving,
                 minted, edits, faults>>

\* the second os.replace
PublishConnection ==
  /\ pc = "connection"
  /\ \E in \in op.staged : connectionFile' = in
  /\ pc' = "delete"
  /\ UNCHANGED <<env, files, realmFile, served, drift, op, status, saving,
                 minted, edits, faults>>

DeleteRealm ==
  /\ pc = "delete"
  /\ served' = {} /\ drift' = {} /\ pc' = "post"
  /\ UNCHANGED <<env, files, realmFile, connectionFile, op, status, saving,
                 minted, edits, faults>>

PostRealm ==
  /\ pc = "post" /\ \A in \in op.staged : DistinctClients(in)
  /\ served' = op.staged /\ pc' = "answer"
  /\ UNCHANGED <<env, files, realmFile, connectionFile, drift, op, status,
                 saving, minted, edits, faults>>

\* Keycloak answers 409, and the request 502; the deleted realm is not back
PostRefused ==
  /\ pc = "post" /\ \E in \in op.staged : ~DistinctClients(in)
  /\ Ended("unavailable")
  /\ UNCHANGED <<env, files, published, saving, minted, edits, faults>>

\* a call to Keycloak fails, with or without its effect: HTTP 502
ReplacementFails ==
  /\ pc \in {"delete", "post", "answer"} /\ faults < MaxFaults
  /\ faults' = faults + 1
  /\ \/ UNCHANGED <<served, drift>>
     \/ pc = "delete" /\ served' = {} /\ drift' = {}
     \/ /\ pc = "post" /\ \A in \in op.staged : DistinctClients(in)
        /\ served' = op.staged /\ UNCHANGED drift
  /\ Ended("unavailable")
  /\ UNCHANGED <<env, files, realmFile, connectionFile, saving, minted, edits>>

\* an application also runs its focused verifier and reports its verdict
Answer ==
  /\ pc = "answer" /\ Ended("applied")
  /\ UNCHANGED <<env, files, published, saving, minted, edits, faults>>

-----------------------------------------------------------------------------
(* Saves, which do not take the lock.                                      *)

SaveOidc(s) ==
  /\ OidcAccepted(s) /\ edits < MaxEdits /\ s # oidc
  /\ edits' = edits + 1 /\ oidc' = s
  /\ UNCHANGED <<env, users, groups, saml, certificate, published, request,
                 saving, minted, faults>>

SaveSaml(s, upload) ==
  /\ SamlUpdateAccepted(s, certificate, upload)
  /\ saving = {} /\ edits < MaxEdits /\ s # saml
  /\ edits' = edits + 1 /\ saving' = {s}
  /\ certificate' = CertificateAfter(certificate, upload)
  /\ UNCHANGED <<env, users, groups, oidc, saml, published, request, minted,
                 faults>>

FinishSave ==
  /\ \E s \in saving : saml' = s
  /\ saving' = {}
  /\ UNCHANGED <<env, users, groups, oidc, certificate, published, request,
                 minted, edits, faults>>

-----------------------------------------------------------------------------
(* The surroundings.                                                       *)

\* the period of the stored certificate ends
Lapse ==
  /\ certificate = "current" /\ faults < MaxFaults
  /\ certificate' = "lapsed" /\ faults' = faults + 1
  /\ UNCHANGED <<env, users, groups, oidc, saml, published, request, saving,
                 minted, edits>>

\* the service restarts; an overlay edit is not pending, so nothing resumes it
Restart ==
  /\ pc # "idle" \/ saving # {}
  /\ faults < MaxFaults /\ faults' = faults + 1
  /\ IF pc = "idle" THEN UNCHANGED request ELSE Ended("restarted")
  /\ saving' = {}
  /\ UNCHANGED <<env, files, published, minted, edits>>

\* somebody edits the served realm in the administration console, in a quiet
\* moment (the bound: not during a request)
Drift ==
  /\ pc = "idle" /\ served # {} /\ faults < MaxFaults
  /\ \E kind \in DriftKinds \ drift : drift' = drift \cup {kind}
  /\ faults' = faults + 1
  /\ UNCHANGED <<env, files, realmFile, connectionFile, served, request, saving,
                 minted, edits>>

Next ==
  \/ CreateUser \/ UpdateUser \/ ResetPassword
  \/ CreateGroup \/ RenameGroup \/ DeleteGroup \/ SetMembers
  \/ \E s \in OidcDocuments : ApplyOidc(s) \/ SaveOidc(s)
  \/ \E s \in SamlDocuments, upload \in {"none", "current", "lapsed"} :
       ApplySaml(s, upload) \/ SaveSaml(s, upload)
  \/ WriteSaml \/ Generate \/ GenerationFails \/ PublishConnection
  \/ DeleteRealm \/ PostRealm \/ PostRefused \/ ReplacementFails \/ Answer
  \/ FinishSave \/ Lapse \/ Restart \/ Drift

Spec == Init /\ [][Next]_vars

-----------------------------------------------------------------------------
(* The served realm, with what was changed in the console.                 *)

EditedClient(c) ==
  LET added == (IF "open redirects" \in drift THEN {Unregistered} ELSE {}) \cup
               (IF "extra redirect" \in drift THEN {<<"elsewhere">>} ELSE {})
      edited == [c EXCEPT !.redirectUris = @ \cup added]
  IN IF "wrong mapper" \in drift /\ c.protocol = "saml" /\ "email" \in DOMAIN c.mappers
     THEN [edited EXCEPT !.mappers["email"] = <<"property", "username">>]
     ELSE edited

EditedUser(user) ==
  [user EXCEPT !.enabled = IF "all enabled" \in drift THEN TRUE ELSE @,
               !.groups = IF "no groups" \in drift THEN {} ELSE @]

ServedRealm ==
  LET generated == Realm(CHOOSE in \in served : TRUE)
  IN [generated EXCEPT !.clients = {EditedClient(c) : c \in @},
                       !.users = [u \in DOMAIN @ |-> EditedUser(@[u])]]

-----------------------------------------------------------------------------
(* Properties.                                                             *)

(* Each variable keeps its shape; the working request is the only one with *)
(* a place and a staged input.                                             *)
TypeOK ==
  /\ \E stack \in Stacks : env = stack.env
  /\ oidc \in OidcDocuments /\ saml \in SamlDocuments
  /\ certificate \in {"none", "current", "lapsed"}
  /\ DOMAIN users \subseteq UserIds
  /\ pc \in {"idle", "document", "generate", "connection", "delete", "post", "answer"}
  /\ (pc = "idle") = (op.kind = "none") /\ (pc = "idle") = (status # "working")
  /\ (op.staged # {}) = (pc \in {"connection", "delete", "post", "answer"})
  /\ Cardinality(served) <= 1 /\ drift \subseteq DriftKinds
  /\ served = {} => drift = {}
  /\ saving \subseteq SamlDocuments /\ Cardinality(saving) <= 1

(* The two overlays, edited one at a time and validated one at a time, can *)
(* always be merged with the manifest and with each other: otherwise no    *)
(* page would load and no realm could be generated until somebody repaired *)
(* the files by hand.                                                      *)
OverlaysMerge == UsersMerge(users) /\ GroupsMerge(groups, KnownUsers(users))

(* The directory a request stored is the directory it publishes, at most   *)
(* one is published at any time, and "applied": true is only answered of   *)
(* it: the service implements PublishedDirectory, whatever fails.          *)
Directory(in) == [users |-> in.users, groups |-> in.groups]
Promised == INSTANCE PublishedDirectory WITH
  directory <- [users |-> users, groups |-> groups],
  published <- {Directory(in) : in \in served},
  status <- IF status \in {"working", "applied"} THEN status ELSE "failed"
ImplementsDirectory == Promised!Spec

(* A regeneration never brings an earlier password of a user back, nor     *)
(* drops a user: edits of other fields keep a generated password, whatever *)
(* order edits, failures and restarts come in.                             *)
PasswordsAdvance ==
  [][\A u \in KnownUsers(realmFile.users) :
       /\ u \in KnownUsers(realmFile'.users)
       /\ EffectiveUser(realmFile.users, u).password
            <= EffectiveUser(realmFile'.users, u).password]_realmFile

(* A relying party recognises a user across every regeneration: the OIDC   *)
(* subject, the SAML NameID and the subject-id survive renames, group      *)
(* edits and settings changes, and no two users share one.                 *)
Identifiers(in, u) ==
  [subject |-> RealmUser(in, u).attributes.northlake_oidc_subject,
   id |-> RealmUser(in, u).id,
   nameIds |-> {RealmUser(in, u).nameId[e] : e \in DOMAIN RealmUser(in, u).nameId}]
SubjectsSurvive ==
  [][\A u \in KnownUsers(realmFile.users), v \in KnownUsers(realmFile'.users) :
       \/ u # v /\ Identifiers(realmFile, u).subject
                     # Identifiers(realmFile', v).subject
       \/ u = v /\ Identifiers(realmFile, u) = Identifiers(realmFile', v)]_realmFile

(* What the pages show after an answer "applied" is what the realm says:   *)
(* the group claim preview of every user is the groups claim of a login,   *)
(* and the listed users can log in under the listed name exactly when they *)
(* are shown enabled.                                                      *)
PagesMatchRealm ==
  (status = "applied" /\ served # {} /\ drift = {}) =>
    \A u \in KnownUsers(users) :
      /\ ServedRealm.users[u].groups = ClaimPreview(groups, u)
      /\ (u \in Authenticated(ServedRealm, EffectiveUser(users, u).username,
                              EffectiveUser(users, u).password))
           = EffectiveUser(users, u).enabled

(* The two documents of a generation agree: an undisturbed realm passes    *)
(* the focused verifiers under its own connection profile, except with the *)
(* settings the verifiers cannot cope with, which are exactly these, with  *)
(* an active user without groups (or without what a subject is bound to),  *)
(* and with more users or groups than one call lists.                      *)
Undisturbed == served = {connectionFile} /\ drift = {}
Countable(conn) ==
  conn.userInventory.total <= PageSize /\ conn.groupInventory.total <= PageSize
\* a user has a value for each of the claims
Valued(expected, claims) == \A claim \in claims \cap MultiValued : expected[claim] # {}
Bound(profile, expected) ==
  profile.binding = "Attribute" => Valued(expected, {profile.subject})
\* an asserted context is allowed, the invented URL is not a registered one, and
\* the attribute a subject is bound to has a value
SamlTestable(conn) ==
  "saml" \in DOMAIN conn.clients =>
    /\ AssertedContext \in conn.clients["saml"].contexts
    /\ Unregistered \notin conn.clients["saml"].redirectUris
    /\ Bound(conn.clients["saml"], conn.active.expected)
GoodRealmPasses ==
  LET in == connectionFile
      conn == Connection(in)
      modern == conn.clients["modern"]
  IN Undisturbed =>
       /\ in.env.oidc =>
            OidcVerdict(ServedRealm, conn) =
              /\ "profile" \in modern.scope
              /\ "northlake" \in modern.scope =>
                   "groups" \in modern.claims /\ Valued(conn.active.expected, {"groups"})
              /\ Unregistered \notin modern.redirectUris
       /\ in.env.saml =>
            SamlVerdict(ServedRealm, conn) = (Countable(conn) /\ SamlTestable(conn))

(* verify_group_claims accepts an enabled generated user of an undisturbed *)
(* realm only with a group, an allowlist without subject-id that has both  *)
(* group claims, a value for the attribute a subject is bound to, and      *)
(* subjects under the realm's own namespace.                               *)
GroupClaimsVerifiable ==
  LET in == connectionFile
      conn == Connection(in)
      standard == conn.clients["saml"]
  IN (Undisturbed /\ realmFile = connectionFile /\ in.env.oidc /\ in.env.saml
        /\ "saml" \in DOMAIN conn.clients) =>
       \A u \in {v \in KnownUsers(in.users) : EffectiveUser(in.users, v).enabled} :
         GroupClaimsVerdict(ServedRealm, Realm(in), conn, u) =
           /\ UserGroups(in, u) # {}
           /\ {"groups", "eem_permission_profiles"} \subseteq standard.claims
           /\ "subject-id" \notin standard.claims
           /\ AssertedContext \in standard.contexts
           /\ Bound(standard, ExpectedAttributes(in, u))
           /\ "northlake" \in conn.clients["modern"].scope
           /\ "groups" \in conn.clients["modern"].claims
           /\ in.env.namespace = in.env.key

(* The full verifier accepts an undisturbed realm under stricter settings  *)
(* only: one callback for both OIDC clients, a logout URL of both as well, *)
(* no refresh token for the asking, no required PAR, and every claim the   *)
(* product reads, with a value of the active user.  The lab verifier       *)
(* accepts one with a customer site whose selected claims are all asked    *)
(* for and have a value, and whatever it is not compared with.             *)
(* Neither accepts one that registers the URL a verifier invents.          *)
StableRealmPasses ==
  LET in == connectionFile
      conn == Connection(in)
      modern == conn.clients["modern"]
      callback == First(modern.redirectUris)
  IN (Undisturbed /\ in.env.oidc) =>
       /\ FullVerdict(ServedRealm, conn) =
            /\ Countable(conn) /\ SamlTestable(conn)
            /\ Unregistered \notin modern.redirectUris
            /\ "offline_access" \notin modern.scope /\ modern.par # "Require"
            /\ {"profile", "email", "northlake"} \subseteq modern.scope
            /\ {"groups", "primary_company_id", "eem_permission_profiles"}
                 \subseteq modern.claims
            /\ Valued(conn.active.expected, {"groups", "eem_permission_profiles"})
            /\ callback \in modern.logoutUris
            /\ "legacy" \in DOMAIN conn.clients =>
                 /\ First(conn.clients["legacy"].redirectUris) = callback
                 /\ callback \in conn.clients["legacy"].logoutUris
       /\ LabVerdict(ServedRealm, conn) =
            /\ in.env.site /\ DOMAIN conn.clients = {"modern", "saml"}
            /\ SamlTestable(conn) /\ Unregistered \notin modern.redirectUris
            /\ {"profile", "email"} \subseteq modern.scope
            /\ modern.claims # {} => "northlake" \in modern.scope
            /\ Valued(conn.active.expected, modern.claims)

(* A realm that passes the SAML verifier treats a service provider as the  *)
(* generated one does, whatever was changed in the console and even when   *)
(* the connection profile is newer than the served realm: the same         *)
(* redirects, the same test users let in, and for the active one the same  *)
(* attributes (the roles apart).                                           *)
PassingRealmIsGenerated ==
  LET conn == Connection(connectionFile)
      good == Realm(connectionFile)
      profile == conn.clients["saml"]
      Client(r) == CHOOSE c \in r.clients :
                     c.protocol = "saml" /\ c.clientId = profile.clientId
      Active(r) == CHOOSE u \in Authenticated(r, conn.active.username,
                                              conn.password) : TRUE
      Attributes(r) ==
        [claim \in profile.claims \ {"realm_roles"} |->
           ValuesOf(Assertion(r, Client(r), Active(r)), claim)]
  IN (/\ served # {} /\ "saml" \in DOMAIN conn.clients
      /\ SamlVerdict(ServedRealm, conn)) =>
       /\ Client(ServedRealm).redirectUris = Client(good).redirectUris
       /\ \A word \in 0 .. minted :
            Authenticated(ServedRealm, conn.disabled.username, word) = {}
       /\ Attributes(ServedRealm) = Attributes(good)

(* What an applied request previewed to the service provider is what the   *)
(* realm was generated with, although the settings travel through the      *)
(* environment and a Save may have rewritten the document meanwhile.  Only *)
(* an empty list of a SAML profile arrives as something else (the default),*)
(* and a protocol that the Provider page turned off as nothing at all.     *)
PreviewApplied ==
  LET conn == Connection(connectionFile)
      Listed(p) == p.acs # {} /\ p.logout # {} /\ p.claims # {} /\ p.contexts # {}
      Same(p, c) ==
        /\ c.key = p.key /\ c.clientId = p.entity /\ c.slo = p.slo
        /\ c.redirectUris = p.acs /\ c.logoutUris = p.logout
        /\ c.binding = p.binding /\ c.subject = p.subject
        /\ c.claims = p.claims /\ c.contexts = p.contexts
  IN /\ env.oidc => \A s \in op.oidc : OidcPreview(s) = conn.oidcPreview
     /\ env.saml => \A s \in op.saml : \A name \in DOMAIN SamlPreview(s) :
          /\ ConnectionName(name) \in DOMAIN conn.clients
          /\ Listed(SamlPreview(s)[name]) =>
               Same(SamlPreview(s)[name], conn.clients[ConnectionName(name)])
AppliedIsPreviewed ==
  [][(pc = "answer" /\ status' = "applied") => PreviewApplied]_vars

(* Every user save regenerates the realm or says that it could not         *)
(* (identity/README.md): it never ends without an answer.                  *)
UserSaveRegenerates ==
  [][op.kind = "user" /\ pc = "generate" /\ pc' # pc =>
       pc' = "connection" \/ status' \in {"refused", "restarted"}]_vars
=============================================================================
