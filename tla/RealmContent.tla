---------------------------- MODULE RealmContent ----------------------------
(***************************************************************************)
(* The realm generator: src/identity/realm/generate_realm.py.              *)
(*                                                                         *)
(* build_realm is a function of what it reads: the environment with the    *)
(* provider settings laid over it, the two overlays, the two protocol      *)
(* documents and the public certificate.  An "input" is a record of those; *)
(* Realm and Connection are the two documents it returns for one, the      *)
(* realm that Keycloak imports and the connection profile that the         *)
(* verifiers and the pages read.  They are built from the same input by    *)
(* separate code, and a relying party depends on their agreement.          *)
(*                                                                         *)
(* A uuid5 is the tuple it is computed from.  Fixed policies of the realm, *)
(* display texts, themes, origins, endpoints and secrets of clients are    *)
(* left out; the manifest's own validation is an assumption on it.         *)
(***************************************************************************)
EXTENDS IdentityOverlay, ProtocolProfiles

NorthlakeClaims ==
  {"groups", "synthetic_user_id", "primary_company_id", "synthetic_status",
   "eem_company_ids", "eem_permission_profiles"}
\* claims that are lists; the others have one value, perhaps an empty text
MultiValued == {"groups", "eem_company_ids", "eem_permission_profiles"}
Kinds == {"customer", "probe"}   \* clients of the synthetic customer site

StableId(namespace, kind, value) == <<namespace, kind, value>>

\* the OIDC subject; a rename must not change it
\* Mutant: derived from the username
SubjectFromUsername(in, u) ==
  StableId(in.env.namespace, "user", EffectiveUser(in.users, u).username)
Subject(in, u) == StableId(in.env.namespace, "user", u)
Status(user) == IF user.enabled THEN "active" ELSE "disabled"

-----------------------------------------------------------------------------
(* What the generator accepts.                                             *)

EnvironmentAccepted(env) ==
  /\ env.oidc \/ env.saml
  /\ env.site => env.oidc
  /\ env.oidcClaims \subseteq NorthlakeClaims

SamlProfilesOf(in) ==
  LET profiles == SamlFromEnvironment(in.saml) IN
  [p \in {q \in Profiles : in.env.saml /\ profiles[q].enabled} |-> profiles[p]]

Generatable(in) ==
  /\ EnvironmentAccepted(in.env)
  /\ in.env.oidc => OidcAccepted(OidcFromEnvironment(in.oidc))
  /\ in.env.saml => SamlAccepted(SamlFromEnvironment(in.saml))
  /\ "Saml2Int" \in DOMAIN SamlProfilesOf(in) => CertificateUsable(in.certificate)
  /\ UsersMerge(in.users)
  /\ GroupsMerge(in.groups, KnownUsers(in.users))

\* the choice of the test users has no default: without a disabled user the
\* generator ends in StopIteration, which is no ValueError
GenerationOutcome(in) ==
  IF ~Generatable(in) THEN "refused"
  ELSE IF FirstUser(EffectiveUsers(in.users), FALSE) = {} THEN "stopped"
  ELSE "generated"

-----------------------------------------------------------------------------
(* The realm.                                                              *)

\* Mutant: the membership overrides are forgotten
UserGroupsOfManifest(in, u) ==
  {g \in DOMAIN BaseGroups : u \in BaseGroups[g].users}
UserGroups(in, u) ==
  LET all == EffectiveGroups(in.groups) IN {g \in DOMAIN all : u \in all[g].users}
UserCompanies(in, u) ==
  {EffectiveGroups(in.groups)[g].company : g \in UserGroups(in, u)} \ {Unassigned}
UserProfiles(in, u) ==
  UNION {EffectiveGroups(in.groups)[g].profiles : g \in UserGroups(in, u)}

RealmGroups(in) ==
  [g \in DOMAIN EffectiveGroups(in.groups) |->
     [id |-> StableId(in.env.key, "group", g),
      roles |-> EffectiveGroups(in.groups)[g].profiles]]

RealmUser(in, u) ==
  LET user == EffectiveUser(in.users, u)
      form == FormOf(user)
      entities == {SamlProfilesOf(in)[p].entity : p \in DOMAIN SamlProfilesOf(in)}
  IN [id |-> StableId(in.env.key, "user", u),
      username |-> user.username, enabled |-> user.enabled,
      firstName |-> form.first, lastName |-> form.last, email |-> user.email,
      password |-> user.password, groups |-> UserGroups(in, u),
      attributes |->
        [northlake_oidc_subject |-> Subject(in, u),
         synthetic_user_id |-> u, primary_company_id |-> user.company,
         synthetic_status |-> Status(user),
         eem_company_ids |-> UserCompanies(in, u),
         eem_permission_profiles |-> UserProfiles(in, u)],
      nameId |-> [e \in entities |-> StableId(in.env.namespace, "saml-nameid", u)],
      subjectId |->
        [e \in entities |-> StableId(in.env.namespace, "saml-subject-id", u)]]

\* Mutant: the company's own scope is left to be requested
DefaultScopesStandard(scopes) == {"basic", "roles"} \cup (scopes \cap {"profile", "email"})
DefaultScopes(scopes) ==
  {"basic", "roles"} \cup (scopes \cap {"profile", "email", "northlake"})

OidcClient(client, modern, consent, par) ==
  [protocol |-> "openid-connect", clientId |-> client.client,
   redirectUris |-> client.redirects, logoutUris |-> client.logouts,
   scopes |-> DefaultScopes(client.scopes), implicit |-> ~modern,
   pkce |-> modern, consent |-> consent, parRequired |-> par = "Require"]

OidcClients(in) ==
  LET s == OidcFromEnvironment(in.oidc) IN
  IF ~in.env.oidc THEN {}
  ELSE {OidcClient(s.modern, TRUE, s.consent, s.par)} \cup
       (IF s.legacyEnabled THEN {OidcClient(s.legacy, FALSE, FALSE, "Disable")}
        ELSE {})

CustomerClientId(in, kind) == <<kind, in.env.key>>
CustomerUri(in, kind, page) == <<page, in.env.key, kind>>

CustomerSiteClients(in) ==
  IF ~in.env.site THEN {}
  ELSE {[protocol |-> "openid-connect",
         clientId |-> CustomerClientId(in, kind),
         redirectUris |-> {CustomerUri(in, kind, "callback")},
         logoutUris |-> {CustomerUri(in, "", "signed-out")},
         frontchannel |-> CustomerUri(in, kind, "frontchannel-logout"),
         scopes |-> DefaultScopes({"profile", "email", "northlake"}),
         implicit |-> FALSE, pkce |-> TRUE, consent |-> kind = "probe",
         parRequired |-> FALSE] : kind \in Kinds}

\* Mutant: the family name is mapped from the given name
SamlMapperSwapped(claim) ==
  CASE claim \in {"given_name", "family_name"} -> <<"property", "firstName">>
    [] claim \in {"username", "email"} -> <<"property", claim>>
    [] claim = "groups" -> <<"groups", "">>
    [] claim = "realm_roles" -> <<"roles", "">>
    [] claim = "subject-id" -> <<"subject-id", "">>
    [] OTHER -> <<"attribute", claim>>

\* _saml_claim_mapper: which mapper emits a claim, and from what
SamlMapper(claim) ==
  CASE claim = "username" -> <<"property", "username">>
    [] claim = "email" -> <<"property", "email">>
    [] claim = "given_name" -> <<"property", "firstName">>
    [] claim = "family_name" -> <<"property", "lastName">>
    [] claim = "groups" -> <<"groups", "">>
    [] claim = "realm_roles" -> <<"roles", "">>
    [] claim = "subject-id" -> <<"subject-id", "">>
    [] OTHER -> <<"attribute", claim>>

SamlClients(in) ==
  LET profiles == SamlProfilesOf(in) IN
  {[protocol |-> "saml", clientId |-> profiles[p].entity,
    redirectUris |-> profiles[p].acs,
    logoutUris |-> IF profiles[p].slo THEN profiles[p].logout ELSE {},
    signedAssertion |-> p = "Standard", signedRequest |-> p = "Saml2Int",
    certificate |-> IF p = "Saml2Int" THEN in.certificate ELSE "none",
    urlName |-> profiles[p].key,
    mappers |-> [c \in profiles[p].claims |-> SamlMapper(c)]] : p \in DOMAIN profiles}

Lifetime(in) ==
  IF in.env.oidc THEN OidcFromEnvironment(in.oidc).lifetime ELSE 300

Realm(in) ==
  [realm |-> in.env.key, id |-> StableId(in.env.key, "realm", in.env.key),
   lifetime |-> Lifetime(in), groups |-> RealmGroups(in),
   users |-> [u \in KnownUsers(in.users) |-> RealmUser(in, u)],
   northlakeScope |-> IF in.env.oidc THEN in.env.oidcClaims ELSE {},
   clients |-> OidcClients(in) \cup SamlClients(in) \cup CustomerSiteClients(in)]

-----------------------------------------------------------------------------
(* The connection profile.                                                 *)

\* _expected_identity_attributes
ExpectedAttributes(in, u) ==
  LET user == EffectiveUser(in.users, u)
      attributes ==
        [username |-> user.username, email |-> user.email,
         given_name |-> <<Head(user.name)>>, family_name |-> Tail(user.name),
         synthetic_user_id |-> u, primary_company_id |-> user.company,
         synthetic_status |-> Status(user), groups |-> UserGroups(in, u),
         eem_company_ids |-> UserCompanies(in, u),
         eem_permission_profiles |-> UserProfiles(in, u)]
  IN Put(attributes, "subject-id",
         StableId(in.env.namespace, "saml-subject-id", u))

OidcConnection(in) ==
  LET s == OidcFromEnvironment(in.oidc)
      Profile(client, profile, par, consent, claims) ==
        [protocol |-> "openid-connect", profile |-> profile,
         clientId |-> client.client, scope |-> client.scopes,
         redirectUris |-> client.redirects, logoutUris |-> client.logouts,
         par |-> par, mode |-> s.mode, consent |-> consent, claims |-> claims]
      names == IF ~in.env.oidc THEN {}
               ELSE {"modern"} \cup (IF s.legacyEnabled THEN {"legacy"} ELSE {})
  IN [name \in names |->
        IF name = "modern"
        THEN Profile(s.modern, "Modern", s.par, s.consent, in.env.oidcClaims)
        ELSE Profile(s.legacy, "Legacy", "Disable", FALSE, {})]

ConnectionName(p) == IF p = "Standard" THEN "saml" ELSE "saml2Int"

SamlConnection(in) ==
  LET profiles == SamlProfilesOf(in)
      Profile(p) ==
        [protocol |-> "saml", profile |-> p, clientId |-> profiles[p].entity,
         key |-> profiles[p].key, redirectUris |-> profiles[p].acs,
         logoutUris |-> profiles[p].logout, binding |-> profiles[p].binding,
         subject |-> profiles[p].subject, claims |-> profiles[p].claims,
         contexts |-> profiles[p].contexts, unsolicited |-> profiles[p].unsolicited,
         slo |-> profiles[p].slo, encrypted |-> p = "Saml2Int",
         thumbprint |-> IF p = "Saml2Int" THEN in.certificate ELSE "none"]
  IN [name \in {ConnectionName(p) : p \in DOMAIN profiles} |->
        Profile(CHOOSE p \in DOMAIN profiles : ConnectionName(p) = name)]

CustomerSiteProfile(in) ==
  IF ~in.env.site THEN << >>
  ELSE [kind \in Kinds |->
          [clientId |-> CustomerClientId(in, kind),
           redirectUri |-> CustomerUri(in, kind, "callback"),
           logoutUri |-> CustomerUri(in, "", "signed-out"),
           frontchannel |-> CustomerUri(in, kind, "frontchannel-logout"),
           consent |-> kind = "probe"]]

\* the description of a test user
TestUser(in, u) ==
  [username |-> EffectiveUser(in.users, u).username,
   subject |-> Subject(in, u),
   nameId |-> StableId(in.env.namespace, "saml-nameid", u),
   expected |-> ExpectedAttributes(in, u)]

Connection(in) ==
  LET all == EffectiveUsers(in.users)
      active == CHOOSE u \in FirstUser(all, TRUE) : TRUE
      disabled == CHOOSE u \in FirstUser(all, FALSE) : TRUE
  IN [realm |-> in.env.key, namespace |-> in.env.namespace,
      userInventory |->
        [total |-> Cardinality(DOMAIN all),
         enabled |-> Cardinality({u \in DOMAIN all : all[u].enabled}),
         local |-> Cardinality(DOMAIN all \ Base)],
      groupInventory |->
        [total |-> Cardinality(DOMAIN EffectiveGroups(in.groups)),
         local |-> Cardinality(DOMAIN in.groups.local)],
      oidcPreview |->
        IF in.env.oidc THEN OidcPreview(OidcFromEnvironment(in.oidc)) ELSE {},
      lifetime |-> Lifetime(in),
      clients |-> Joined(OidcConnection(in), SamlConnection(in)),
      customerSite |-> CustomerSiteProfile(in),
      active |-> TestUser(in, active), disabled |-> TestUser(in, disabled),
      password |-> all[active].password]
=============================================================================
