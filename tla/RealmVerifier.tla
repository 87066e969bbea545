---------------------------- MODULE RealmVerifier ----------------------------
(***************************************************************************)
(* The verifiers of a served realm: src/identity/scripts/                  *)
(* verify_oidc_baseline.py, verify_saml_baseline.py, verify_identity.py,   *)
(* verify_group_claims.py and verify_scenarios.py.                         *)
(*                                                                         *)
(* A verifier has the connection profile and talks to Keycloak, which      *)
(* serves a realm that may no longer be the generated one.  Its verdict is *)
(* a predicate on the two.  What Keycloak answers to a login with a realm  *)
(* is the first section, external to the repository.  A URL chosen by      *)
(* position ([0]) is First.  Signatures, times, nonces, state, issuers and *)
(* the rotation of refresh tokens are checks on Keycloak alone, which the  *)
(* model takes to be correct: they are left out.                           *)
(***************************************************************************)
EXTENDS RealmContent

CONSTANT PageSize   \* users and groups one call to Keycloak lists (max=100)

ASSUME PageAssumption == PageSize \in Nat

First(list) == CHOOSE item \in list : TRUE

\* the values of a claim, as a set; a claim that is absent has none
Values(claim, value) == IF claim \in MultiValued THEN value ELSE {value}
ValuesOf(attributes, claim) ==
  IF claim \in DOMAIN attributes THEN attributes[claim] ELSE {}

-----------------------------------------------------------------------------
(* Keycloak.                                                               *)

ClientsOf(r, id) == {c \in r.clients : c.clientId = id}

\* the user a username and a password log in, if any
Authenticated(r, username, password) ==
  {u \in DOMAIN r.users : /\ r.users[u].username = username
                          /\ r.users[u].enabled
                          /\ r.users[u].password = password}

\* the claims of an ID token and of UserInfo, by the scopes of the client; a
\* claim without a value is left out
OidcClaims(r, c, u) ==
  LET user == r.users[u]
      Northlake(claim) == IF claim = "groups" THEN user.groups
                          ELSE user.attributes[claim]
      profile == IF "profile" \in c.scopes
                 THEN [preferred_username |-> user.username,
                       given_name |-> user.firstName,
                       family_name |-> user.lastName] ELSE << >>
      email == IF "email" \in c.scopes THEN [email |-> user.email] ELSE << >>
      valued == {claim \in r.northlakeScope : Values(claim, Northlake(claim)) # {}}
      northlake == IF "northlake" \in c.scopes
                   THEN [claim \in valued |-> Northlake(claim)] ELSE << >>
  IN Put(Joined(profile, Joined(email, northlake)), "sub",
         user.attributes.northlake_oidc_subject)

\* the role every generated user has, whatever the groups
DefaultRole == "default-roles"

\* the values a mapper of the client finds
Mapped(r, c, u, claim) ==
  LET user == r.users[u]
      kind == c.mappers[claim][1]
      source == c.mappers[claim][2]
  IN CASE kind = "property" -> {user[source]}
       [] kind = "groups" -> user.groups
       [] kind = "roles" ->
            {DefaultRole} \cup UNION {r.groups[g].roles : g \in user.groups}
       [] kind = "subject-id" -> {user.subjectId[c.clientId]}
       [] OTHER -> Values(source, user.attributes[source])

\* the attributes of an assertion; one without a value is left out
Assertion(r, c, u) ==
  [claim \in {m \in DOMAIN c.mappers : Mapped(r, c, u, m) # {}} |->
     Mapped(r, c, u, claim)]

\* the only authentication context this Keycloak asserts
AssertedContext == "unspecified"

-----------------------------------------------------------------------------
(* Logins the verifiers make.                                              *)

\* the logins of a client that reach the callback of its profile
LoginsAt(r, profile, username, password, protocol) ==
  [client : {c \in ClientsOf(r, profile.clientId) :
               /\ c.protocol = protocol
               /\ First(profile.redirectUris) \in c.redirectUris},
   user : Authenticated(r, username, password)]

\* an authorization request that is not pushed fails where one is required
OidcLogins(r, profile, username, password, pushed) ==
  {login \in LoginsAt(r, profile, username, password, "openid-connect") :
     login.client.parRequired => pushed}

SamlLogins(r, profile, username, password) ==
  LoginsAt(r, profile, username, password, "saml")

\* the claims a login yields
ClaimsOf(r, login) == OidcClaims(r, login.client, login.user)

-----------------------------------------------------------------------------
(* verify_oidc_baseline.py                                                 *)

Unregistered == <<"unregistered">>

\* _verify_negative_registration: an invented redirect must be refused
RefusesUnregistered(r, profile) ==
  \A c \in ClientsOf(r, profile.clientId) : Unregistered \notin c.redirectUris

\* _verify_rp_logout: logout returns to the registered URL
RpLogout(c, profile) == First(profile.logoutUris) \in c.logoutUris

ModernVerdict(r, conn) ==
  LET profile == conn.clients["modern"]
      logins == OidcLogins(r, profile, conn.active.username, conn.password,
                           profile.par # "Disable")
  IN \E login \in logins :
       LET claims == ClaimsOf(r, login) IN
       /\ login.client.consent = profile.consent
       /\ claims["sub"] = conn.active.subject
       /\ r.lifetime = conn.lifetime
       /\ "preferred_username" \in DOMAIN claims
       /\ claims["preferred_username"] = conn.active.username
       /\ "northlake" \in profile.scope => "groups" \in DOMAIN claims
       /\ RpLogout(login.client, profile)

LegacyVerdict(r, conn) ==
  "legacy" \in DOMAIN conn.clients =>
    LET profile == conn.clients["legacy"]
        logins == OidcLogins(r, profile, conn.active.username, conn.password, FALSE)
    IN \E login \in logins :
         /\ login.client.implicit /\ ~login.client.consent
         /\ ClaimsOf(r, login)["sub"] = conn.active.subject
         /\ RpLogout(login.client, profile)

OidcVerdict(r, conn) ==
  /\ "modern" \in DOMAIN conn.clients
  /\ RefusesUnregistered(r, conn.clients["modern"])
  /\ ModernVerdict(r, conn)
  /\ LegacyVerdict(r, conn)

-----------------------------------------------------------------------------
(* verify_identity.py: the administrative state of the realm.              *)

\* what one call may list of many
Listings(f) ==
  kSubset(Min({PageSize, Cardinality(DOMAIN f)}), DOMAIN f)

InventoryMatches(r, users, conn) ==
  /\ Cardinality(users) = conn.userInventory.total
  /\ Cardinality({u \in users : r.users[u].enabled}) = conn.userInventory.enabled
  /\ \E groups \in Listings(r.groups) :
       Cardinality(groups) = conn.groupInventory.total

\* Mutant: the expected URLs must be there, others may be
RedirectsIncluded(r, conn) ==
  \A name \in DOMAIN conn.clients :
    \E c \in ClientsOf(r, conn.clients[name].clientId) :
      conn.clients[name].redirectUris \subseteq c.redirectUris
RedirectsExact(r, conn) ==
  \A name \in DOMAIN conn.clients :
    \E c \in ClientsOf(r, conn.clients[name].clientId) :
      c.redirectUris = conn.clients[name].redirectUris

ModernShape(c, profile) == ~c.implicit /\ c.pkce /\ c.consent = profile.consent
LegacyShape(c, profile) == c.implicit /\ ~c.consent
SamlShape(c, profile) ==
  /\ c.protocol = "saml" /\ c.signedAssertion /\ ~c.signedRequest
  /\ DOMAIN c.mappers = profile.claims
Saml2IntShape(c, profile) ==
  /\ c.protocol = "saml" /\ ~c.signedAssertion /\ c.signedRequest
  /\ c.certificate # "none"
  /\ DOMAIN c.mappers = profile.claims
\* the client of a connection profile has the shape its kind asks for
Shaped(c, name, profile) ==
  CASE name = "modern" -> ModernShape(c, profile)
    [] name = "legacy" -> LegacyShape(c, profile)
    [] name = "saml" -> SamlShape(c, profile)
    [] name = "saml2Int" -> Saml2IntShape(c, profile)

TestUsersListed(r, users, conn) ==
  /\ \E u \in users : r.users[u].username = conn.active.username
  /\ \E u \in users : /\ r.users[u].username = conn.disabled.username
                       /\ ~r.users[u].enabled

\* _verify_admin
AdminVerdict(r, conn) ==
  /\ \E users \in Listings(r.users) :
       InventoryMatches(r, users, conn) /\ TestUsersListed(r, users, conn)
  /\ RedirectsExact(r, conn)
  /\ \A name \in DOMAIN conn.clients :
       \E c \in ClientsOf(r, conn.clients[name].clientId) :
         Shaped(c, name, conn.clients[name])

-----------------------------------------------------------------------------
(* verify_identity.py: the Standard SAML profile.                          *)

\* _validate_saml_response: the assertion against an expected user, attribute by
\* attribute a set of values
AssertionAccepted(r, c, u, profile, nameId, expected) ==
  LET emitted == Assertion(r, c, u) IN
  /\ r.users[u].nameId[c.clientId] = nameId
  /\ profile.contexts # {} => AssertedContext \in profile.contexts
  /\ DOMAIN emitted \subseteq profile.claims
  /\ \A claim \in profile.claims \ {"realm_roles"} :
       claim \in DOMAIN expected /\ ValuesOf(emitted, claim) = expected[claim]
  /\ "eem_permission_profiles" \in DOMAIN expected
  /\ "realm_roles" \in profile.claims =>
       expected["eem_permission_profiles"] \subseteq ValuesOf(emitted, "realm_roles")
  /\ profile.binding = "Attribute" => ValuesOf(emitted, profile.subject) # {}

\* the expected attributes of a test user of the connection profile
Expected(user) ==
  [claim \in DOMAIN user.expected |-> Values(claim, user.expected[claim])]

\* _verify_saml; the disabled user is tried with the active user's password
StandardVerdict(r, conn) ==
  LET profile == conn.clients["saml"]
      logins(user) == SamlLogins(r, profile, user.username, conn.password)
  IN /\ RefusesUnregistered(r, profile)
     /\ \E login \in logins(conn.active) :
          /\ AssertionAccepted(r, login.client, login.user, profile,
                               conn.active.nameId, Expected(conn.active))
          /\ profile.slo => First(profile.logoutUris) \in login.client.logoutUris
          /\ login.client.urlName = profile.key
     /\ logins(conn.disabled) = {}

\* _verify_saml2int_admin_certificate, ..._unsigned_..., ..._encrypted_...
Saml2IntVerdict(r, conn) ==
  LET profile == conn.clients["saml2Int"]
  IN \E login \in SamlLogins(r, profile, conn.active.username, conn.password) :
       /\ login.client.certificate = profile.thumbprint
       /\ login.client.signedRequest /\ ~login.client.signedAssertion
       /\ login.client.urlName = profile.key

\* verify_saml_baseline.verify
SamlVerdict(r, conn) ==
  /\ {"saml", "saml2Int"} \cap DOMAIN conn.clients # {}
  /\ AdminVerdict(r, conn)
  /\ "saml" \in DOMAIN conn.clients => StandardVerdict(r, conn)
  /\ "saml2Int" \in DOMAIN conn.clients => Saml2IntVerdict(r, conn)

-----------------------------------------------------------------------------
(* verify_identity.py: the full verifier of the stable realm.              *)

\* _verify_modern_code_flow: the pushed login, and what the product reads
FullModernLogin(r, conn) ==
  LET profile == conn.clients["modern"]
      required == {"preferred_username", "email", "groups", "primary_company_id",
                   "eem_permission_profiles"}
      logins == OidcLogins(r, profile, conn.active.username, conn.password, TRUE)
  IN /\ "offline_access" \notin profile.scope
     /\ \E login \in logins :
          /\ login.client.consent = profile.consent
          /\ ClaimsOf(r, login)["sub"] = conn.active.subject
          /\ required \subseteq DOMAIN ClaimsOf(r, login)

\* the legacy client takes part in the session, with the same callback
SessionShared(r, conn) ==
  "legacy" \in DOMAIN conn.clients =>
    LET callback == First(conn.clients["modern"].redirectUris)
    IN /\ First(conn.clients["legacy"].redirectUris) = callback
       /\ \E c \in ClientsOf(r, conn.clients["legacy"].clientId) :
            callback \in c.redirectUris

\* a second pushed login, for a refresh token, is of the same subject
OfflineGrant(r, conn) ==
  \E login \in OidcLogins(r, conn.clients["modern"], conn.active.username,
                           conn.password, TRUE) :
    ClaimsOf(r, login)["sub"] = conn.active.subject

\* logout returns to the callback
LogoutReturns(r, profile) ==
  \A c \in ClientsOf(r, profile.clientId) :
    First(profile.redirectUris) \in c.logoutUris

FullModernVerdict(r, conn) ==
  /\ FullModernLogin(r, conn) /\ SessionShared(r, conn)
  /\ OfflineGrant(r, conn) /\ LogoutReturns(r, conn.clients["modern"])

\* _verify_negative_protocol_cases
FullNegativeVerdict(r, conn) ==
  LET profile == conn.clients["modern"] IN
  /\ RefusesUnregistered(r, profile)
  /\ \A c \in ClientsOf(r, profile.clientId) : ~c.implicit

\* Mutant: the disabled user's login is pushed when the client requires it
FullDisabledVerdictPushed(r, conn) ==
  Authenticated(r, conn.disabled.username, conn.password) = {}
\* _verify_disabled_user: not pushed, and with the active user's password
FullDisabledVerdict(r, conn) ==
  /\ \A c \in ClientsOf(r, conn.clients["modern"].clientId) : ~c.parRequired
  /\ Authenticated(r, conn.disabled.username, conn.password) = {}

\* _verify_legacy_implicit_flow: logout returns to the callback
FullLegacyVerdict(r, conn) ==
  "legacy" \in DOMAIN conn.clients =>
    LET profile == conn.clients["legacy"]
        logins == OidcLogins(r, profile, conn.active.username, conn.password, FALSE)
    IN /\ \E login \in logins : login.client.implicit /\ ~login.client.consent
       /\ LogoutReturns(r, profile)

\* _verify_account_console: the built-in client of every realm
AccountConsoleVerdict(r, conn) ==
  Authenticated(r, conn.active.username, conn.password) # {}

\* verify_identity.verify
FullVerdict(r, conn) ==
  /\ AdminVerdict(r, conn)
  /\ AccountConsoleVerdict(r, conn)
  /\ "modern" \in DOMAIN conn.clients =>
       /\ FullNegativeVerdict(r, conn)
       /\ FullModernVerdict(r, conn)
       /\ FullDisabledVerdict(r, conn)
  /\ FullLegacyVerdict(r, conn)
  /\ "saml" \in DOMAIN conn.clients => StandardVerdict(r, conn)

-----------------------------------------------------------------------------
(* verify_group_claims.py: one user, read from the generated realm file.   *)

\* _verify_saml_groups rebuilds the expected attributes from the realm file
GeneratedAttributes(user, profile) ==
  [claim \in profile.claims \ {"realm_roles"} |->
     IF claim = "groups" THEN user.groups
     ELSE IF SamlMapper(claim)[1] = "property" THEN {user[SamlMapper(claim)[2]]}
     ELSE IF claim \in DOMAIN user.attributes
          THEN Values(claim, user.attributes[claim])
     ELSE {}]

GroupClaimsVerdict(r, realmFile, conn, u) ==
  LET user == realmFile.users[u]
      profile == conn.clients["saml"]
      modern == conn.clients["modern"]
  IN /\ realmFile.realm = conn.realm
     /\ user.enabled
     /\ {"modern", "saml"} \subseteq DOMAIN conn.clients
     /\ \E login \in OidcLogins(r, modern, user.username, user.password, TRUE) :
          LET claims == ClaimsOf(r, login) IN
          /\ login.client.consent = modern.consent
          /\ claims["sub"] = user.id
          /\ "groups" \in DOMAIN claims /\ claims["groups"] = user.groups
     /\ \E login \in SamlLogins(r, profile, user.username, user.password) :
          LET c == login.client IN
          /\ AssertionAccepted(r, c, login.user, profile, user.nameId[c.clientId],
                               GeneratedAttributes(user, profile))
          /\ "groups" \in DOMAIN Assertion(r, c, login.user)
          /\ Assertion(r, c, login.user)["groups"] = user.groups

-----------------------------------------------------------------------------
(* verify_scenarios.py: one realm of the two-realm laboratory.             *)

CustomerShape(c, profile) ==
  /\ c.protocol = "openid-connect" /\ ~c.implicit /\ c.pkce
  /\ c.consent = profile.consent
  /\ c.redirectUris = {profile.redirectUri}
  /\ c.frontchannel = profile.frontchannel

\* _verify_admin_shape
LabAdminVerdict(r, conn) ==
  LET modern == conn.clients["modern"]
      saml == conn.clients["saml"]
  IN /\ \E c \in ClientsOf(r, modern.clientId) :
          /\ c.protocol = "openid-connect" /\ ~c.implicit /\ c.pkce
          /\ c.parRequired = (modern.par = "Require")
          /\ c.redirectUris = modern.redirectUris
     /\ r.northlakeScope = modern.claims
     /\ \E c \in ClientsOf(r, saml.clientId) :
          SamlShape(c, saml) /\ c.redirectUris = saml.redirectUris
     /\ DOMAIN conn.customerSite = Kinds
     /\ \A kind \in Kinds :
          \E c \in ClientsOf(r, conn.customerSite[kind].clientId) :
            CustomerShape(c, conn.customerSite[kind])

\* _verify_oidc_login
LabLoginVerdict(r, conn) ==
  LET profile == conn.clients["modern"]
      logins == OidcLogins(r, profile, conn.active.username, conn.password,
                           profile.par = "Require")
  IN /\ \E login \in logins :
          LET claims == ClaimsOf(r, login) IN
          /\ claims["sub"] = conn.active.subject
          /\ {"preferred_username", "email"} \subseteq DOMAIN claims
          /\ DOMAIN claims \cap NorthlakeClaims \subseteq profile.claims
          /\ \A claim \in profile.claims :
               /\ claim \in DOMAIN claims
               /\ claims[claim] = conn.active.expected[claim]
     /\ RefusesUnregistered(r, profile)

\* one profile of verify_scenarios.verify
LabVerdict(r, conn) ==
  /\ DOMAIN conn.clients = {"modern", "saml"}
  /\ LabAdminVerdict(r, conn)
  /\ LabLoginVerdict(r, conn)
  /\ StandardVerdict(r, conn)
=============================================================================
