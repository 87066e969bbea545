# Northlake synthetic customer: TLA+ models and proofs

This directory holds TLA+ modules that model the Northlake identity lab of this
repository, TLC configurations that check them on small instances, and proofs
that TLAPS checks for every value of the constants. `PROJECT.json` maps every
definition to the lines it models, every property to its run and every hazard
of the code to the properties that watch it.

Paths below are relative to the repository (`identity/...`); *server.py* is
`identity/configuration/server.py` and *customer/server.py* is
`identity/customer/server.py`.

## 1. The system

The repository has two halves. `generators/`, `data/` and `documents/` build the
documents of a fictional utility customer: sequential, deterministic programs
that write files. `identity/` is a running system: Keycloak behind Caddy, a
configuration service that regenerates and replaces Keycloak realms, a customer
site that logs users in through them, and scripts that start, verify, rotate and
export. The hard behaviour is in `identity/`, and the models are about it.

### Inventory

| Component | State it keeps | Operations | Talks to |
|---|---|---|---|
| Configuration service, realm operations (*server.py*, `settings.py`) | `configuration.json` (+ one `.tmp`), `oidc.json`, `saml.json`, verification results, the import file and `connection.json`; in memory `_apply_lock`, `_startup_reconciled` | `save`, `apply`, `save_oidc`/`apply_oidc` (and SAML), user and group edits, `verify_oidc`/`verify_saml`, `reconcile_pending` | Keycloak admin API, the generator, the verifiers |
| Keycloak admin client (*server.py* 181-457) | a token per call | delete, create, attach scopes, health, impersonate | Keycloak, with timeouts |
| Two-realm scenario lab (*server.py* 887-1158, `scenarios.py`) | `scenarios.json`, one import file per lab realm, `connection.json`, verification | save, apply, reset of one slot, verify, browser bootstrap; `main()` at a start | Keycloak; shares `_apply_lock` |
| SCIM client (`scim.py`, *server.py* 1174-1420) | `scim.json`, `scim-credentials.json`, the discovery and the lifecycle result | save, verify, lifecycle, deactivate/reactivate | an external service provider, with ETags; no lock |
| User and group overlays (`users.py`, `groups.py`) | `users.json`, `groups.json` over a checked-in manifest | create, update, delete, reset a password, set members; merge | the generator |
| Protocol settings (`oidc.py`, `saml.py`) | `oidc.json`, `saml.json`, the service provider's public certificate | accept a document, write it to the environment, read it back, preview it | the settings pages, the generator |
| Customer site (*customer/server.py*) | sessions, authorization states, logout states in memory, each behind one lock; the evidence log | login, callback, local, RP-initiated and Front-Channel Logout, provider termination | Keycloak token endpoint, connection files |
| Realm generation (`generate_realm.py`) | none: `northlake-realm.json` and `connection.json` from inputs | `build_realm`, `generate` | every realm operation |
| Verifiers (`verify_*.py`) | none | pass or fail one realm under one connection profile | Keycloak |
| Signing-key rotation (`rotate_signing_key.py`) | Keycloak key providers | add, activate, make passive | Keycloak |
| Identity evidence (`identity_evidence.py`, `evidence/catalog.py`, the rotation, restart, promotion and evidence `.ps1`) | snapshots, results and the manifest under `.runtime` | snapshot, comparison, promotion, export | Keycloak, one another's files |
| Stack scripts (`*.ps1`, `compose.yml`) | containers, Keycloak's database | start, stop, reset | all of the above |
| Portal, themes, browser scripts; generators and data | – | presentation, one-shot renderers, fixtures | – |

### How they interact, and what is hard

* The configuration service is a `ThreadingHTTPServer`: every request is a
  thread, next to the thread of `reconcile_pending`. Only the operations that
  replace a realm hold `_apply_lock`; Save, the profile saves, the focused
  verification, `save_scenarios` and the whole SCIM client run beside it.
* A replacement is a sequence of file writes and Keycloak calls that may fail
  anywhere, before or after a call took effect, and the process may be
  restarted between any two. Recovery relies on `pendingApply` in the document.
* Keycloak's `--import-realm` skips a realm its database holds; files and
  realms may therefore disagree after a start.
* The two lab slots choose their realm keys freely, so one slot's old key may
  be the other's new one.
* The customer site checks under a lock, releases it to call Keycloak and
  writes afterwards: every callback races logouts and other tabs.
* SCIM writes are conditional on a version and may be carried out although
  their answer is lost; results are kept in a file later requests act on.
* The realm and the connection profile are two documents built from one input
  by separate code, through environment variables in which an empty list is no
  list, and installed by two `os.replace` calls. Verifiers compare one document
  with a realm generated from, perhaps, another input.
* A key rotation is a script nobody serialises with another rotation or with a
  replacement of the realm; the evidence scripts hand one another files that an
  earlier run may have left.

### What makes each component correct

* *Realm operations*: one replacement at a time; an answer "applied" is true
  of Keycloak; a document that is not pending is true; every request ends and
  every start becomes healthy; a failed apply stays pending.
* *Scenario lab*: an answer is true of every selected slot; work on one slot
  leaves the other's realm alone; a browser session is in the realm of its
  slot; a start brings both lab realms back.
* *Customer site*: a state works once; a session's tokens are of its issuer; a
  logout is final and clears only what it names; "terminated" is true.
* *SCIM*: a run changes back only its own changes; a retry after any failure
  passes; the stored result is what the provider holds, and is always stored.
* *Overlays and generation*: the overlays always merge; what an edit stored is
  what is published; nobody loses an identifier or gets an old password back;
  the pages show what the realm says.
* *Settings and verifiers*: what was previewed is what is generated; a verifier
  passes the realm that was generated and no other.
* *Rotation and evidence*: some key signs at any time and a retired key stays
  published; evidence is of the run and the realm it names.

## 2. The modules

| Module | Extends | About |
|---|---|---|
| `ConfigurationService` | – | realm operations, reconciliation, restarts, Keycloak's realms |
| `ConfigurationRecorded` | `ConfigurationService` | the same with a history variable, and three properties about it |
| `ConfigurationServiceProofs` | `ConfigurationRecorded`, `TLAPS` | their inductive invariants and theorems |
| `ScenarioLab` | – | the two lab slots |
| `ScenarioLabProofs` | `ScenarioLab`, `TLAPS` | its inductive invariants and theorems |
| `CustomerLab` | – | the customer site's sessions |
| `CustomerLabProofs` | `CustomerLab`, `TLAPS` | its inductive invariant and theorems |
| `CustomerRecorded` | `CustomerLab` | the same with a history variable, and four properties about it |
| `CustomerRecordedProofs` | `CustomerRecorded`, `CustomerLabProofs` | theorems about requests that come one at a time |
| `ScimLifecycle` | – | the SCIM client and a provider with versions |
| `ScimLifecycleProofs` | `ScimLifecycle`, `TLAPS` | its inductive invariant and theorems |
| `IdentityOverlay` | – | operators: `users.py`, `groups.py` |
| `ProtocolProfiles` | – | operators: `oidc.py`, `saml.py` |
| `RealmContent` | the two above | operators: `generate_realm.py` |
| `RealmVerifier` | `RealmContent` | operators: the verdicts of five verifiers |
| `IdentityLab` | `RealmVerifier` | the identity half of the configuration service, with all four composed |
| `PublishedDirectory` | – | what `IdentityLab` promises, the abstract specification it refines |
| `IdentityLabProofs` | `IdentityLab`, `TLAPS` | the refinement, the verifiers' verdicts and six more theorems |
| `KeyRotation` | – | `rotate_signing_key.py`, several at a time |
| `KeyRotationProofs` | `KeyRotation`, `TLAPS` | a key always signs |
| `IdentityEvidence` | `KeyRotation` | the scripts around it and the evidence chain |
| `IdentityEvidenceProofs` | `IdentityEvidence`, `KeyRotationProofs` | six theorems about the chain |
| `MC*` | the module they are named after | constants for TLC |

The service modules use one form. `pc[t]` is where thread `t` is and `job[t]` its local
variables; each action is one locked section, one file operation or one call, so
that every point at which the code can be overtaken is a state of its own.
`Begin` is a request of a client, `Step(t)` the next step of a thread, and the
restarts are actions of the environment. The two *Recorded* modules add a
variable that is not in the code and change nothing else: `others`, whether
anything but applies, profile saves and verifications was asked for, and
`overlapped`, whether two requests have ever been served at once. A call that may fail has three
outcomes: done, refused or failed before it took effect, failed although it took
effect (the answer was lost or late). `MaxRequests`, `MaxFaults`, `MaxRestarts`
and the other bounds stand in the guards of those actions and nowhere else.
Definitions commented *Mutant* are not part of a specification: each is a
plausible mistake in one definition, and `PROJECT.json` names the property that
finds it.

### ConfigurationService

| State | Code |
|---|---|
| `document`, `temporary` | `configuration.json` and `configuration.json.tmp`, one name for all writers (`settings.py` 396-404) |
| `profile`, `verification` | `oidc.json` or `saml.json`, and the result file of its verification |
| `overlay` | `users.json` with `groups.json`, as the number of edits |
| `generated` | the import file and `connection.json`, as the inputs they were generated from |
| `realms` | Keycloak's realms: content and whether the Account Console scopes are attached |
| `edge` | base URL and port the running stack was started with |
| `lock`, `reconciled`, `attempts` | `_apply_lock`, `_startup_reconciled`, the loop counter of `reconcile_pending` |

`apply` is `Acquire, Load, Generate, WriteTemporary, Install` (pending),
`DeletePrevious, DeleteKey, PostRealm, AttachScopes, AwaitHealth,
WriteTemporary, Install, Succeed`; the edits, the profile applies and the
reconciliation are the same actions on a shorter route, chosen by `job[t].op` as
the code chooses. `InstallRaises` is the `os.replace` that fails because another
writer moved the shared temporary file away. OIDC and SAML take the same steps
and share the actions.

### ScenarioLab

`apply_scenarios` runs through the selected slots (`job[t].slots`, both or one
for a reset) with one document write per slot and the removal of the previous
import file; `verify_scenarios` and `bootstrap_browser_session` read document,
connection file and Keycloak in separate steps. A realm is the slot and scenario
it was generated from. `StackRestart` is `scenarios.py` `main()` followed by the
import of the files whose realm is missing. An absent document (`NoFile`) stands
for the preset scenario, as `CurrentDocument` reads it.

### CustomerLab

`transactions`, `logoutTransactions` and `sessions` are the three dictionaries,
`cookie` is what the browser holds. Keycloak (`provider`, `logins`, `logouts`)
is the environment. `Take` is the locked check of a callback, `Exchange` the
token request outside the lock, `Establish` the write of the session. `Expire`
lets an entry outlive its lifetime; the purge runs in the locked sections in
which the code calls it. A callback arrives on a path that names a realm and a
client, not always those of the state it brings; `Take` and `Complete` refuse it
then. A session carries the name of its latest login, and `AdminLogout` ends the
Keycloak sessions of that user only (`UserSessions`), as `provider_terminate` looks
up `session["username"]`. `ended` is not in the code: it records the session
ids a logout removed. The evidence log and the cookie modes are left out.

### ScimLifecycle

`settings`, `credential`, `verification` and `lifecycle` are the four files.
`user` and `group` are the provider's resources at each base URL, with a version
that If-Match is compared with and, not in the code, the thread that wrote last
(`by`). Each request of `run_lifecycle` is an action; `WriteUser` and
`WriteGroup` have the three outcomes above. `job[t].alone` and `job[t].before`
are not in the code either: they say whether another request overlapped this one
and how many faults there had been when it began.

### IdentityLab and its four layers

`build_realm` is a function, so a generated document is represented by what it
was generated from: `realmFile`, `connectionFile` and `served` hold inputs, and
`Realm(input)` and `Connection(input)` are the two documents. Four modules of
operators say what a document contains and what it means:

| Module | What is kept of the code |
|---|---|
| `IdentityOverlay` | overlay records, the merge with the manifest and every refusal; what an edit does to a record (a rename keeps the password, a reset rebuilds the names from the display name); membership overrides that vanish when they equal the manifest |
| `ProtocolProfiles` | which documents are accepted; the round trip through the environment, where an empty list becomes the default; the previews; the certificate as none, current or lapsed |
| `RealmContent` | users, groups, clients, scopes, mappers, the refusals of the generator and its `StopIteration`; the connection profile, built a second time from the same input as in the code |
| `RealmVerifier` | the verdict of each check as a predicate of a served realm and a connection profile; what a Keycloak login yields is its first, external section |

| State of `IdentityLab` | Code |
|---|---|
| `users`, `groups`, `oidc`, `saml`, `certificate` | `users.json`, `groups.json`, `oidc.json`, `saml.json`, the stored certificate |
| `realmFile`, `connectionFile` | `northlake-realm.json`, `connection.json` |
| `served`, `drift` | the realm Keycloak serves, and what was changed in its console |
| `pc`, `op`, `status` | the holder of `_apply_lock`, its request, and how the last one ended |
| `saving` | a `save_saml` between the certificate and the document, without the lock |

A request is: take the lock and rewrite the file (an edit whose merge fails
changes nothing), `Generate` and `PublishConnection` (the two `os.replace`
calls), `DeleteRealm`, `PostRealm`, `Answer`. `ReplacementFails` is a call that
failed with or without its effect, `GenerationFails` a generation that was
refused or stopped, `PostRefused` Keycloak's refusal of a realm in which two
clients have one id (`DistinctClients`), after the old realm was deleted. `SaveOidc` and `SaveSaml` run beside it. `minted` numbers the
generated passwords.

`IdentityLab` refines `PublishedDirectory`, three variables and five actions that
say what a relying party may rely on: at most one directory is published, an
edit is followed by its publication before the next edit, and "applied" is
answered only while the published directory is the kept one. The refinement
mapping takes `<<users, groups>>` to `directory` and the directories of `served`
to `published`.

### KeyRotation and IdentityEvidence

`KeyRotation` numbers key providers by their creation; each has a priority,
Keycloak's own tie-break (`rank`) and the active flag. `at[r]` is where rotation
`r` is, and `listed`, `old`, `retained`, `todo` are what it read. Each request to
Keycloak is an action that may fail before or after its effect; `NewRealm` is a
replacement of the realm, which brings new keys under the same id. Nothing keeps
rotations apart, as in the code.

`IdentityEvidence` adds the scripts: `script` is where
`Rotate-IdentitySigningKey.ps1` is, `harness` and `run` where
`Test-IdentityEvidence.ps1` is, and one variable stands for each file under
`.runtime`, the empty set while it does not exist. `epoch` and the number of the
harness run are not in the files of the code; the properties use them to say
"of one realm" and "of this run". A snapshot (several calls in the code) is one
step.

## 3. The runs

Every `.cfg` has `CHECK_DEADLOCK FALSE`: the system stops when the clients make
no more requests, which is a legal end.

| Run | Instance | What it shows |
|---|---|---|
| `concurrent_operations` | 2 handlers and the reconciler, 2 keys, 2 edges, 2 profiles, every operation, 3 requests, 1 fault, 1 restart; 4.4 million states | `LockDiscipline`: the lock is held exactly inside the `with` blocks. `SuccessIsServed`: whoever is about to answer "applied" left Keycloak serving the realm it generated, with every edit, under the running edge |
| `fair_configuration` | the same with 1 edge and 1 profile, every operation, 2 requests, 1 fault, 2 restarts, 4 reconciliation attempts, fair threads | `TruthfulAfterApplies`: a document not marked pending names a realm Keycloak holds. `FailedApplyStaysPendingAlone`: a failed apply leaves its own settings pending. `RequestsAnswered`: no request waits for ever. `StartupAfterApplies`: every start becomes healthy |
| `separate_lab_keys` | 2 handlers, each slot with keys of its own (labA may change its key), 3 requests, 1 fault, 1 restart | `AnswerIsServed`, `SelectedRealmOnly`, `SessionOfSlot`, `StartServesBothLabs` |
| `customer_sessions` | 2 requests of one browser at a time, 2 realms, 2 users, 3 Keycloak sessions, 2 logins, 1 logout, 6 requests (5 once two have overlapped), an expiry, a restart or a rewritten connection file | `OneTimeState`, `SessionBoundToIssuer`; and, while no two requests have overlapped, `LogoutIsFinalAlone`, `TerminatedSessionEndedAlone`, `FrontChannelVerifiedAlone`, `RpLogoutOfRealmAlone` |
| `scim_shared` | 2 requests at a time, 2 base URLs, 4 requests, 1 fault, 1 restart; 1.9 million states | `RetryPasses`, `UndoesItsOwn`, `ResultIsTrue` |
| `identity_lab` | 2 stacks, 2 manifest users (one disabled) and 2 groups, 1 local user and 2 local groups, 3 forms, 4 OIDC and 4 SAML documents, 2 requests, 1 failed call, restart, lapse or console edit; 84 239 states | `OverlaysMerge`, `PasswordsAdvance`, `SubjectsSurvive`, `PagesMatchRealm`: the directory. `ImplementsDirectory`: the refinement. `AppliedIsPreviewed`: the settings. `GoodRealmPasses`, `StableRealmPasses`, `GroupClaimsVerifiable`, `PassingRealmIsGenerated`: the verifiers |
| `rotation_evidence` | the scripted rotation and one by hand, 3 keys, 2 harness runs, 1 change of settings, 1 failed call, a catalog with one scenario of each kind | `SomeKeySigns`, `RetiredKeysStay`, `RestartIsOfOneRealm`, `ManifestOfThisRun`, `VerifiedRotationIsOfOneRealm` |
| `save_during_apply`, `swapped_keys_apply`, `customer_revived_session`, `scim_verdict`, `user_save_stops` | as small as the counterexample allows | the code departs from what it says, section 5 |

**What the verifier properties say.** The generator and the verifiers were
written apart, so "a good realm passes" is not true of every setting.
`GoodRealmPasses`, `StableRealmPasses` and `GroupClaimsVerifiable` are equations:
on the left the verdict on an undisturbed realm, on the right exactly the
settings and the test users with which it passes, down to a redirect list that has
the URL the verifier invents to be refused. A claim without a value is not emitted
(`OidcClaims`, `Assertion`), so the active user's groups, profiles and companies are
part of it (`Valued`), and so is the attribute a SAML subject is bound to (`Bound`). `PassingRealmIsGenerated` is the converse: a realm
that passes the SAML verifier has the redirects, the locked-out disabled user and
the attributes of the generated one, although somebody edited it in the console
or the connection file is newer than the realm. `AppliedIsPreviewed` compares
the preview of the request with the generated connection profile, across the
environment round trip and a Save in between; its precondition `Listed` is
section 5's point about empty lists.

**Why the bounds are enough.** A race needs the two threads that race, and the
third request is the one that meets what they left. Two keys tell an apply
under a new key from one under the same; the second edge gives "restart
required". One fault is one arbitrary failed call at one arbitrary place, and
the retry after it runs without another; two restarts put one inside the
recovery from the first. `fair_configuration` uses one edge because a document
whose edge is not the running one cannot become healthy before a stack start,
which its properties would report as a failure the code does not claim to
avoid. It makes more reconciliation attempts than faults are possible, because
the code's 60 attempts outlast any finite outage shorter than they are. Three of
its properties are about the history variable `others`: a Save marks nothing pending
and an interrupted edit or profile apply leaves nothing to resume (section 5), so
they speak of behaviours in which only applies, profile saves and verifications
were asked for. In `scim_shared` four requests are two that overlap, the one that
left the state they find, and the one that acts on their result. In
`customer_sessions` the second login of the other realm is the one that could
mix issuers, and the second login of the other user is the one whose name the
session takes while it still holds the first user's tokens. The code does not keep the four *Alone* properties when two
requests overlap, hence `overlapped`; a behaviour in which two have overlapped
gets `OverlapRequests` (5) of the 6 requests, which keeps the run short and loses
nothing for the four.

In `identity_lab` one request leaves the overlay or document that the second one
meets, and the fault falls into either. The manifest has one disabled user, as
the real one has (19 users, `casey.holt` disabled), and the forms make the edits
that matter: take a name of two users, enable the disabled one, disable the other.
`PageSize` is 3 for the code's `max=100`: one creation stays within a page and
two leave it. The SAML documents are all claims, a binding to an attribute with
the second profile, a binding to an attribute that may be empty, and empty lists;
creating the local user and disabling the manifest's makes the active test user
one without groups, for whom Keycloak leaves claims out; the fourth OIDC document gives the legacy
client the id of a service provider and registers the invented URL; the stacks differ in namespace, customer
site, certificate and claims. In `rotation_evidence` three keys are one replaced
realm and one rotation, or two rotations that overlap, which is what one needs to
retire the other's key; the second harness run finds the first one's files.

**Fairness.** `Fairness` makes each thread's `Step` weakly fair: `urlopen` and
the verifier subprocesses have timeouts and a file operation ends. `_apply_lock`
needs no strong fairness for what is checked: the number of requests is
bounded, so a waiting thread is not overtaken for ever. Clients, failures and
restarts are never forced. The other runs check safety only: their scripts and
requests promise nothing about ending that is not a timeout of one call.

## 4. The proofs

The theorems hold for every set of threads, realm keys, edges, profiles, base
URLs, users, groups, documents, stacks and rotations, and for every value of the
bounds. They rest on the named assumptions of the modules alone: the constants
have the types their use implies, the reconciler is not a request thread, there
is a lab slot, local ids are not manifest ids, a user is enabled or not, a
settings document has the fields of its class, the manifest lists its users in an
order and has finitely many groups, the "no value" constants differ from the
values, and the catalog contains the two required scenarios its theorem
is about. Four theorems about `ScenarioLab` have a hypothesis of their own, named
in their statement.

**ConfigurationServiceProofs** proves

* `TypeCorrect`: `Spec => []TypeOK`;
* `MutualExclusion`: `Spec => []LockDiscipline`;
* `AppliedIsServed`: `Spec => []SuccessIsServed`;
* `PendingBeforeTearDown`: `RecordedSpec => []TruthfulAfterApplies`;
* `FailureIsRetried`: `RecordedSpec => FailedApplyStaysPendingAlone`.

`SuccessIsServed` speaks of one label, so it is not inductive. `IInv` adds
`Stage`: from its generation on, the lock holder's content is what the import
file and the overlay say; from the POST on Keycloak holds exactly that content;
after the health wait its edge is the running one. This survives the steps of
other threads because the actions that write `generated`, `overlay` or `realms`
are at labels where the lock is held, which is `LockDiscipline`; the threads
without it do only what `Route` lets them (Save never reaches the lock, the
reconciler only reconciles). It survives a Keycloak restart because the import
adds only realms that are missing. The proof has a step per action, the
replacement and the failure paths as lemmas of their own (`LeaveType`, ...).

`TruthfulAfterApplies` is about failures: a document that is not marked pending
must be true although a DELETE was carried out and the POST was not, or a restart
came between. `HInv` says, of behaviours without other operations, that the
document is pending or true and, of every thread (`Calm`), that from its first
DELETE to its last write the document on file is pending with the thread's own
settings (`Retried`), and that what it is about to install is its own document and
no other writer's. The first half is what the answer of a failed apply promises.
Threads without the lock write documents too (a Save), which is why the
statement needs `~others`; the reconciler resumes pending documents only, so it never takes away
a realm that a document calls applied.

**ScenarioLabProofs** proves `TypeCorrect` (`Spec => []TypeOK`) and, if the
clients keep the keys of the two slots and of the stable realm apart
(`SeparateKeys`),

* `AppliedIsServed`: `Spec => []AnswerIsServed`;
* `BootstrapOfSlot`: `Spec => []SessionOfSlot`;
* `WorkOnSelectedRealm`: `Spec => SelectedRealmOnly`;
* `StartServes`: `Spec => StartServesBothLabs`.

The code does not enforce the hypothesis: `ScenarioSettings.from_values` refuses
one key for both slots in one document only, and neither the earlier keys of the
other slot nor the stable realm's. `swapped_keys_apply` is the run without it. Under
it every realm and every import file belongs to the slot its key was chosen for
(`RealmsOwned`), and so does every key in a document or in a thread's copy
(`KeysOfSlots`), however stale: work on a slot then cannot reach a realm of the
other one, which is what lets a session be in the right realm although three
documents are read without the lock. `SlotsServed` adds that the slots the lock
holder has finished are served from its settings until it answers.

**CustomerLabProofs** proves

* `TypeCorrect`: `Spec => []TypeOK`;
* `StateWorksOnce`: `Spec => []OneTimeState`;
* `IssuersNeverMix`: `Spec => []SessionBoundToIssuer`.

The type invariant is not trivial here: the server generates a session id in a
callback, and that the ids of the model suffice is a counting argument. A state
is `Owed` a callback while it is stored or a handler exchanges its code; a
callback ends the debt and generates one id at most, so ids generated and states
owed are together no more than the logins begun (`Paid`). `Carried` says what a
handler still knows after it has released the lock, which is little: nothing
about sessions, only the realm and the state it has taken.

**CustomerRecordedProofs** proves, of behaviours in which no two requests have
overlapped,

* `LoggedOutForGood`: `RecordedSpec => []LogoutIsFinalAlone`;
* `TerminationShownIsTrue`: `RecordedSpec => []TerminatedSessionEndedAlone`;
* `FrontChannelRemovesNamed`: `RecordedSpec => FrontChannelVerifiedAlone`;
* `RpLogoutKeepsOtherRealms`: `RecordedSpec => RpLogoutOfRealmAlone`.

Logins and logouts stay open across other requests there, sessions expire, the
connection file changes and the server restarts. A session id is `Dead` when it
has no session, the browser does not hold it and no answer is about to set it; a
removed id is dead once its request has ended, and a dead id stays dead, because
a callback uses the id the browser sends or one never used (`Known`). The
realm an RP logout was begun in is that of the session it names, or the session is
dead by then, or the logout's state has expired (`LogoutsFollowed`). What an
administrator's termination ended is the user the session names, and while nobody
overlaps it the session that is marked still names that user (`StillSo`). Without "one
at a time" the first fails: `customer_revived_session`.

**ScimLifecycleProofs** proves

* `TypeCorrect`: `Spec => []TypeOK`;
* `RetryCorrect`: `Spec => []RetryPasses`;
* `UndoCorrect`: `Spec => UndoesItsOwn`;
* `ResultCorrect`: `Spec => []ResultIsTrue`.

Its `IInv` adds to the types: `Holds`, the version a thread is about to send is
at most the resource's, and if it is the resource's own before a reactivation or
a restored membership then the last write was this thread's; `Alone`, a request
nothing overlapped is the only one in progress; `Route`, a lifecycle does not
start from an earlier result; and `Retry`, a lifecycle nothing overlapped and
none of whose requests failed holds the resource's current version. Two facts
carry it: a write always raises the version of what it changes (`PutsRaised`),
so another thread can only make a held version stale, never current again
(`OthersUndisturbed`); and every write either goes on with the version it was
given, or ends in a verdict (`OwnUserWrite`, `OwnGroupWrite`).

`ResultIsTrue` compares a file with a provider somebody else may write to. `FInv`
therefore keeps the file and the request that will write it together: the result
a request has made of its answers (`Made`), the one writer that may still replace
the file (`Writer`), and the file itself, which is true or has a writer that will
still replace it (`OnFile`).

**IdentityLabProofs** proves

* `LabTypeOK`, `OverlaysAlwaysMerge`: the two invariants;
* `PasswordsOnlyAdvance`, `SubjectsAlwaysSurvive`: the two action properties;
* `LabImplementsDirectory`: `Spec => ImplementsDirectory`;
* `PagesAlwaysMatch`: `Spec => []PagesMatchRealm`;
* `PreviewsAreApplied`: `Spec => AppliedIsPreviewed`;
* `GoodRealmsPass`: `Spec => []GoodRealmPasses`;
* `StableRealmsPass`: `Spec => []StableRealmPasses`;
* `GroupClaimsAreVerifiable`: `Spec => []GroupClaimsVerifiable`;
* `PassingRealmsAreGenerated`: `Spec => []PassingRealmIsGenerated`.

A group overlay is validated against the users of the moment, so it stays valid
because edits never remove a user; this, and that an edit changes the password
of one user at most and to a number never used before, is the lemma `UserEditOf`.
`Passwords` then says that the passwords of the generated realm are no later than
the stored ones. Subjects need that the namespace never changes while the stack
runs. The refinement rests on `Holder`: from the generation to the answer the
staged input is of the kept directory, and after the POST it is the served one.
Every action is then a step of `PublishedDirectory` or changes none of its
variables.

The others unfold what a document contains. For the pages, `Answered` says that
after "applied" the served realm is that of the kept overlay; a realm nobody
changed in the console is its input's (`UndisturbedRealm`), and the generator and the page compute a user's groups and name from
the same records by different code (`GeneratedUser`, `PreviewedGroups`). For the
previews, `Carrying` follows a requested document from the lock to the connection
file: the generation takes the request's document, not the stored one, so a Save
beside it does not matter; what the environment does to it is `OfferTravels` and
`ProfileTravels`, and that no profile takes another's place in the connection file
is `ConnectionNames`. The proof showed that the property as first written was
false: the Provider page can turn OIDC or SAML off, and the apply of the
protocol's own page then generates a realm without it and answers "applied". The
property says so now (`env.oidc`, `env.saml`).

The four about the verifiers follow one argument. `Inputs` is the invariant: the
two files were generated from inputs the generator accepts, with finitely many
local groups, and what is served has no two clients of one id. Realm and
connection profile of one input are then compared client by client
(`ModernAgrees`, `LegacyAgrees`, `SamlAgrees`, `CustomersMatch`), user by user
(`TestUsersOf`, `ExpectedOf`) and claim by claim (`ClaimsOfLogin`, `AssertionOf`).
An id names one client (`OneClient`) and a name one user (`LoginOf`), so a login a
verifier looks for is exactly one (`ClientLogins`) and every "there is a login
such that" becomes a condition on the settings and on the values of the user
(`AssertedValues`, `ValuesOfClaim`); lists of finitely many users are
complete up to one page (`ListingsOf`). Each verifier has a lemma that says when
it passes (`OidcVerdictOf`, `SamlVerdictOf`, `FullVerdictOf`, `LabVerdictOf`,
`GroupClaimsVerdictOf`), and the three equations are those lemmas under
`Inputs`. For the converse the served realm may be edited and of another input.
Edits keep ids, protocols and names (`ServedApart`); the verdict therefore speaks
of one client and one user of it (`PassingVerdict`), and pins both to the
connection profile, to which the generated realm agrees (`StandardClient`,
`StandardAttributes`).

These proofs changed the model. The equations were false for client ids that
collide, which is how `PostRefused` came in; they were only implications for a
redirect list with the invented URL and for a legacy client whose logout list
lacks the callback, and are exact now; they left out that a user may have no
value for a claim, which Keycloak then does not emit; and the condition on the assertion
consumer URLs in `SamlProfileAccepted` bound its two halves wrongly, which let a
URL of another provider key through where the code refuses it.

**KeyRotationProofs** proves `RotationKeepsAKey`. `SomeKeySigns` alone is not
inductive: a rotation may hold a list of providers to retire that was read before
another rotation. `RInv` numbers the providers by their creation and says that
the newest one of the realm exists and is active (`NewestSigns`), because what a
rotation retires was listed before it created a provider of its own
(`ListedOlder`): two rotations cannot retire each other's keys in a circle.
Realms of one name are told apart the same way: a replacement starts with a
number no earlier realm had.

**IdentityEvidenceProofs** first shows that every behaviour of the chain is, for
the realm's keys, one of `KeyRotation` (`EvidenceImplementsRotation`), then uses
that for `EvidenceRetires`, `RestartComparesOneRealm`, `VerifiedRotationSound` and
`ManifestSound`; `EvidenceTypeCorrect` is their type invariant, with what each
script may rely on finding (`Places`). The argument for the two about realms is `SnapshotsOfRealms`: a
snapshot has keys, and none of them exists in another realm, so two snapshots
with a key in common are of one realm. This is why comparing the published keys
is enough although no file names the realm. `ManifestSound` needs that the
commands of a run leave that run's files (`CommandsLeftFiles`), which is why the
catalog's two required scenarios name commands and not only artifacts.

**Only model-checked.** Liveness (`RequestsAnswered`, `StartupAfterApplies`),
which the prover does not reach. The violation runs' own properties, which are
false. Of the four *Alone* properties of `CustomerRecorded`, nothing is claimed
once two requests have overlapped.

## 5. Where the code departs from what it says

Five runs end in a counterexample and stay that way until the code changes:

1. `save_during_apply`: Save takes no lock; between the pending document of an
   apply and its failure it writes `pendingApply: false`, while the failure
   answers "Northlake will retry after the next stack start."
2. `swapped_keys_apply`: when the two slots exchange their keys, applying the
   second deletes the realm just created for the first, and the answer is
   "Both lab realms applied".
3. `customer_revived_session`: a logout during a callback's token exchange is
   undone, the callback creates the session again under the removed id.
4. `scim_verdict`: the message of a failed discovery contains "bearer ", which
   the redaction guard refuses; the verdict is not stored.
5. `user_save_stops`: enabling the only disabled user is accepted and written,
   and then `build_realm` ends in a `StopIteration` that no handler catches: the
   request has no answer and no realm can be generated until a user is disabled.

Others were met and have no run of their own; the models contain them unless
said otherwise:

* an apply under a new key that fails after the POST leaves a realm that no
  document records;
* saved values, and an edit whose replacement failed, reach the import file at
  the next start, but Keycloak skips the import of a realm that exists
  (`identity/README.md:127`);
* an edit or a profile apply that is interrupted after the DELETE leaves no
  realm, and the reconciliation, which looks at the pending mark only, stays
  unhealthy;
* an overlay edit and the reconciliation use a pending edge before the restart
  it waits for (they fail their health wait and leave the realm behind);
* two Saves share one temporary file, so one installs the other's settings and
  the other raises;
* a focused verification that ends after a Save shows the result of the earlier
  profile;
* `save_scenarios` may write back applied keys it read before an apply;
* a lab slot may be given the key of the stable realm (excluded by the choices
  of `separate_lab_keys`);
* with two threads `frontchannel_logout` and `provider_terminate` may act on a
  later login's session under the same id;
* `provider_terminate` logs out only the user of the latest login
  (*customer/server.py*:731-747): when two users have logged in one after the other
  under one session id, the first one's Keycloak session stays alive, although the
  session is shown as terminated and the evidence says "provider-session-ended"
  (756). `TerminatedSessionEnded` therefore speaks of the user the session names;
* two SCIM saves may lose a credential (not in the model: one connection);
* SAML settings with an empty list of claims, contexts or logout URLs are
  accepted and stored, but travel through the environment as no list and come
  back as the defaults, although `identity/README.md:233` speaks of exact
  allowlists; with Single Logout off, no logout URL and a provider key of its own
  the round trip is refused at every generation;
* a generated password is stored before the generation; when that is refused or
  stopped the answer that would show it once never comes
  (`identity/README.md:148`);
* the full verifier passes fewer settings than the generator accepts: one shared
  callback that is also a logout URL, no `offline_access`, no required PAR, the
  product's claims; it tries the disabled user with the active user's password;
  and like `verify_saml_baseline.py` it reads one page of 100 users and groups;
* the generator takes the first enabled user as the active test user, whatever
  the user's groups; Keycloak leaves out a claim without a value, and then
  `verify_oidc_baseline.py:379`, the required claims of `verify_identity.py`
  (1538-1547) and the comparison of `verify_scenarios.py` (305-317, where an empty
  list meets `[None]`) fail on an undisturbed realm. The SAML check knows the
  case (`verify_identity.py:797-801`), but refuses a subject bound to an attribute
  that has no value (811-815), which the page and the generator accept;
* `verify_group_claims.py` compares the OIDC subject with an id computed from the
  realm key, so it fails on a realm whose namespace differs;
* `oidc.py` and `saml.py` each compare their own client ids, and nothing compares
  one with the other or with the customer site's: a document whose id collides is
  accepted and generated, the realm is deleted, and Keycloak refuses the new one
  (`PostRefused`);
* a rotation's result may name another rotation's new key, and
  `-VerifyExistingResult` after a failed rotation may mark the result of an
  earlier realm as verified; the rotation in a manifest may be of an earlier
  realm (the precondition `straight` of `VerifiedRotationIsOfOneRealm`).

## 6. What is not modelled

Inside the modelled parts: the wording of answers, `last_apply_error` and
logging; the field rules of `from_values` that are patterns or lengths of strings
(a URL or id is a tuple of names), and redaction; the realm's fixed policies,
themes, endpoints and the third copy of the profiles in `eemsuiteConfiguration`;
the parsing of certificates and metadata, and `create_saml2int_dev_certificate.py`;
signatures, nonces, times and refresh-token rotation in the verifiers, which are
checks of Keycloak, of which the model assumes that a list without members is left
out of tokens and assertions, that a single value is emitted even when its text is
empty (the company of a local user), and that every user has the default role; a DELETE that Keycloak carries out long after the client's timeout; legacy lab import names;
more than one SCIM connection, user or group binding. The lab realms appear in
`reconcile_pending` only as attempts that may fail.

Whole parts: the generators of documents and packets, the data, the portal, the
themes and the browser scripts are sequential renderers or presentation.
`verify_browser_lab.py` drives a browser. The customer site's evidence log is
display only. `generate_pairwise_cases` of `catalog.py` is called by tests only.
The scripts that trust certificates, write environment files and reset volumes
act on the host, not on the system's state.

## 7. Plan

Done, in this order: `ConfigurationService` and its proofs (the most dangerous
sequence of the system), `ScenarioLab`, `CustomerLab`, `ScimLifecycle` and its
proofs; then the identity half (`IdentityOverlay` to `IdentityLab`, with the
refinement of `PublishedDirectory`) and the evidence chain, each with its proofs;
then the proofs of `ScenarioLab` and `CustomerLab`, of the stored SCIM result, of
the truthful document, of the pages, of the previews and of the verifiers.
Next:

1. The composition of `ConfigurationService` and `ScenarioLab` over one lock and
   one Keycloak, with the lab realms in the startup loop.
2. A late DELETE as an action of Keycloak, once the code bounds it.

New questions replace the least useful of the violation runs rather than adding
runs without end, so that the whole project still checks in minutes.
