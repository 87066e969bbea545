-------------------------- MODULE ProtocolProfiles --------------------------
(***************************************************************************)
(* The OIDC and SAML settings a service provider is offered:               *)
(* src/identity/configuration/oidc.py and saml.py.                         *)
(*                                                                         *)
(* A settings page stores a document that was validated; the realm         *)
(* generator receives it through environment variables and validates what  *)
(* it reads back.  A list travels as one string, and an empty string is    *)
(* the same as no variable: the receiver puts its default there.           *)
(*                                                                         *)
(* A client id, an entity id or a URL is a tuple of names.  A SAML URL is  *)
(* represented by the provider key of its path, the only part that the     *)
(* validation compares.  Patterns, lengths, duplicates, provider key       *)
(* spelling and the configuration mode's endpoint list are left out.       *)
(***************************************************************************)
EXTENDS Naturals, FiniteSets

CONSTANTS
  DefaultRedirects,    \* EEMSUITE_OIDC_REDIRECT_URIS or its default
  DefaultStandard,     \* [key, entity] the environment gives Standard
  DefaultSaml2Int      \* [key, entity] the environment gives Saml2Int

KnownScopes == {"openid", "profile", "email", "northlake", "offline_access"}
KnownSamlClaims ==
  {"username", "email", "given_name", "family_name", "groups",
   "synthetic_user_id", "primary_company_id", "synthetic_status",
   "eem_company_ids", "eem_permission_profiles", "realm_roles", "subject-id"}
DefaultClaims == KnownSamlClaims \ {"subject-id"}
DefaultContexts == {"unspecified"}
NoAttribute == ""
Profiles == {"Standard", "Saml2Int"}

-----------------------------------------------------------------------------
(* OIDC                                                                    *)

\* the fields of OidcSettings
ClientFields(c) == [client |-> c.client, redirects |-> c.redirects,
                    logouts |-> c.logouts, scopes |-> c.scopes]
OidcFields(s) ==
  [mode |-> s.mode, par |-> s.par, lifetime |-> s.lifetime, consent |-> s.consent,
   legacyEnabled |-> s.legacyEnabled,
   modern |-> ClientFields(s.modern), legacy |-> ClientFields(s.legacy)]

\* OidcSettings.from_values
OidcAccepted(s) ==
  /\ s.mode \in {"Authority", "Discovery", "Static"}
  /\ s.par \in {"UseIfAvailable", "Require", "Disable"}
  /\ s.lifetime \in 60 .. 3600
  /\ s.modern.redirects # {} /\ s.modern.logouts # {}
  /\ \A client \in {s.modern, s.legacy} :
       "openid" \in client.scopes /\ client.scopes \subseteq KnownScopes
  /\ s.legacyEnabled => /\ s.legacy.redirects # {} /\ s.legacy.logouts # {}
                        /\ s.modern.client # s.legacy.client

OrDefault(list, default) == IF list = {} THEN default ELSE list

\* to_environment_overlay followed by OidcSettings.from_environment
OidcFromEnvironment(s) ==
  LET redirects == OrDefault(s.legacy.redirects, DefaultRedirects) IN
  [s EXCEPT !.legacy.redirects = redirects,
            !.legacy.logouts = OrDefault(s.legacy.logouts, redirects)]

\* what the settings page tells a service provider to configure
OidcOffer(s, client, profile, par) ==
  [client |-> client.client, profile |-> profile, par |-> par, mode |-> s.mode,
   scopes |-> client.scopes, redirects |-> client.redirects,
   logouts |-> client.logouts]

OidcPreview(s) ==
  {OidcOffer(s, s.modern, "Modern", s.par)} \cup
  (IF s.legacyEnabled THEN {OidcOffer(s, s.legacy, "Legacy", "Disable")} ELSE {})

-----------------------------------------------------------------------------
(* SAML                                                                    *)

\* the fields of SamlProfileSettings
SamlFields(p) ==
  [enabled |-> p.enabled, key |-> p.key, entity |-> p.entity, acs |-> p.acs,
   logout |-> p.logout, binding |-> p.binding, subject |-> p.subject,
   claims |-> p.claims, contexts |-> p.contexts, unsolicited |-> p.unsolicited,
   slo |-> p.slo]

\* SamlProfileSettings.from_values
SamlProfileAccepted(p) ==
  /\ p.acs \subseteq {p.key}
  /\ p.enabled => p.acs # {}
  /\ p.logout \subseteq {p.key}
  /\ (p.enabled /\ p.slo) => p.logout # {}
  /\ p.claims \subseteq KnownSamlClaims
  /\ IF p.binding = "Attribute" THEN p.subject \in p.claims
     ELSE p.binding = "PersistentNameId" /\ p.subject = NoAttribute

\* SamlSettings.from_values
SamlAccepted(s) ==
  /\ SamlProfileAccepted(s["Standard"]) /\ SamlProfileAccepted(s["Saml2Int"])
  /\ \E p \in Profiles : s[p].enabled
  /\ (\A p \in Profiles : s[p].enabled) =>
       /\ s["Standard"].key # s["Saml2Int"].key
       /\ s["Standard"].entity # s["Saml2Int"].entity

\* profile_overlay followed by profile_values
ProfileFromEnvironment(p, default) ==
  [p EXCEPT !.acs = OrDefault(@, {default.key}),
            !.logout = OrDefault(@, {default.key}),
            !.claims = OrDefault(@, DefaultClaims),
            !.contexts = OrDefault(@, DefaultContexts)]

\* to_environment_overlay followed by SamlSettings.from_environment, which
\* raises unless the result is accepted again
SamlFromEnvironment(s) ==
  [p \in Profiles |->
     ProfileFromEnvironment(
       s[p], IF p = "Standard" THEN DefaultStandard ELSE DefaultSaml2Int)]

\* preview: what the settings page tells a service provider to configure
SamlPreview(s) ==
  [p \in {q \in Profiles : s[q].enabled} |->
     [key |-> s[p].key, entity |-> s[p].entity, binding |-> s[p].binding,
      subject |-> s[p].subject, claims |-> s[p].claims,
      contexts |-> s[p].contexts, unsolicited |-> s[p].unsolicited,
      slo |-> s[p].slo, acs |-> s[p].acs, logout |-> s[p].logout]]

-----------------------------------------------------------------------------
(* The public certificate of the service provider: "none", "current" or    *)
(* "lapsed", the states in which the stored file can be found.             *)

\* parse_public_certificate_base64, read_public_certificate and the
\* generator's own loader refuse a certificate that is not in its period
CertificateUsable(certificate) == certificate = "current"

\* parse_saml_update: an upload replaces the stored one, and only Saml2Int
\* needs either
CertificateAfter(stored, upload) == IF upload = "none" THEN stored ELSE upload
SamlUpdateAccepted(s, stored, upload) ==
  /\ SamlAccepted(s)
  /\ upload # "none" => CertificateUsable(upload)
  /\ s["Saml2Int"].enabled => CertificateUsable(CertificateAfter(stored, upload))
=============================================================================
