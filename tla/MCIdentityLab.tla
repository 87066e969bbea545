---------------------------- MODULE MCIdentityLab ----------------------------
(* IdentityLab with the constants TLC uses: two users and two groups in    *)
(* the manifest, one of them disabled, and one local id for each.          *)
EXTENDS IdentityLab

MCUser(username, name, enabled, company) ==
  [username |-> username, email |-> username, name |-> name,
   enabled |-> enabled, company |-> company]
MCBaseUsers == [alice |-> MCUser("alice", <<"Alice", "Ames">>, TRUE, "north"),
                casey |-> MCUser("casey", <<"Casey", "Holt">>, FALSE, "south")]
MCBaseGroups ==
  [ops |-> [users |-> {"alice", "casey"}, company |-> "north", profiles |-> {"operator"}],
   audit |-> [users |-> {"alice"}, company |-> "south", profiles |-> {}]]
MCOrder == <<"alice", "casey", "local">>
MCLocal == {"local"}
MCEmails == {"alice", "casey", "dana"}
MCLocalGroups == {"team", "crew"}

Form(username, first, last, enabled) ==
  [username |-> username, email |-> username, first |-> first, last |-> last,
   enabled |-> enabled]
MCForms == {Form("dana", <<"Dana", "May">>, <<"Lee">>, TRUE),
            Form("casey", <<"Casey">>, <<"Holt">>, TRUE),
            Form("alice", <<"Alice">>, <<"Ames">>, FALSE)}

Environment(namespace, site, claims) ==
  [key |-> "northlake", namespace |-> namespace, oidc |-> TRUE, saml |-> TRUE,
   site |-> site, oidcClaims |-> claims]
MCRedirects == {<<"callback">>}
MCStandard == [key |-> <<"eem">>, entity |-> <<"sp">>]
MCSaml2Int == [key |-> <<"eem2">>, entity |-> <<"sp2">>]

Client(id, scopes, redirects) ==
  [client |-> <<id>>, redirects |-> redirects, logouts |-> redirects, scopes |-> scopes]
MCOidc ==
  [mode |-> "Discovery", par |-> "UseIfAvailable", lifetime |-> 300,
   consent |-> TRUE, legacyEnabled |-> TRUE,
   modern |-> Client("modern", KnownScopes \ {"offline_access"}, MCRedirects),
   legacy |-> Client("legacy", {"openid", "profile"}, MCRedirects)]
MCOidcDocuments ==
  {MCOidc,
   [MCOidc EXCEPT !.legacyEnabled = FALSE,
                  !.modern.scopes = {"openid", "profile", "email"}],
   [MCOidc EXCEPT !.par = "Require", !.legacyEnabled = FALSE,
                  !.legacy.redirects = {}, !.legacy.logouts = {}],
   [MCOidc EXCEPT !.legacy = Client("sp2", {"openid"}, MCRedirects),
                  !.modern.redirects = MCRedirects \cup {Unregistered},
                  !.legacy.logouts = {<<"goodbye">>}]}
OneOidc == {MCOidc}

SamlProfile(enabled, default, claims, contexts, slo) ==
  [enabled |-> enabled, key |-> default.key, entity |-> default.entity,
   acs |-> {default.key}, logout |-> {default.key}, binding |-> "PersistentNameId",
   subject |-> NoAttribute, claims |-> claims, contexts |-> contexts,
   slo |-> slo, unsolicited |-> FALSE]
MCSaml(standard, saml2Int) == [Standard |-> standard, Saml2Int |-> saml2Int]
Off == SamlProfile(FALSE, MCSaml2Int, DefaultClaims, DefaultContexts, TRUE)
On == SamlProfile(TRUE, MCStandard, DefaultClaims, DefaultContexts, TRUE)
MCSamlDocuments ==
  {MCSaml(On, Off),
   MCSaml([On EXCEPT !.claims = {"groups", "subject-id", "synthetic_user_id"},
                     !.binding = "Attribute", !.subject = "synthetic_user_id"],
          [Off EXCEPT !.enabled = TRUE, !.claims = {"email"}]),
   MCSaml([On EXCEPT !.claims = {"groups", "eem_permission_profiles", "realm_roles"},
                     !.binding = "Attribute", !.subject = "eem_permission_profiles"],
          Off),
   MCSaml([On EXCEPT !.claims = {}, !.contexts = {"password"}, !.slo = FALSE], Off)}
OneSaml == {MCSaml(On, Off)}

Stack(environment, settings, stored) ==
  [env |-> environment, oidc |-> settings, saml |-> MCSaml(On, Off),
   certificate |-> stored]
MCStacks ==
  {Stack(Environment("northlake", FALSE, NorthlakeClaims), MCOidc, "none"),
   Stack(Environment("stable", TRUE, {"synthetic_user_id", "eem_permission_profiles"}),
         [MCOidc EXCEPT !.legacyEnabled = FALSE,
                        !.modern.scopes = {"openid", "profile", "email"}],
         "current")}
OneStack ==
  {Stack(Environment("northlake", FALSE, NorthlakeClaims), MCOidc, "none")}

MCDrift == {"open redirects", "extra redirect", "wrong mapper", "all enabled",
            "no groups"}
NoDrift == {}
=============================================================================
