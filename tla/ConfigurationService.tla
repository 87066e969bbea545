------------------------ MODULE ConfigurationService ------------------------
(***************************************************************************)
(* The Northlake configuration service (identity/configuration/server.py)  *)
(* and the Keycloak server it drives.                                      *)
(*                                                                         *)
(* The service is a ThreadingHTTPServer: every request runs in a thread of *)
(* its own, next to the reconciliation thread main() starts.  The          *)
(* operations that replace the disposable realm hold _apply_lock; Save,    *)
(* the profile Saves and the focused verification do not.  Each step below *)
(* is one file operation, one Keycloak call, or one lock operation, so the *)
(* interleavings are those of the threads.                                 *)
(*                                                                         *)
(* Data is abstracted to what the properties tell apart: provider settings *)
(* are a realm key and a public edge, a protocol profile (oidc.json or     *)
(* saml.json) is a model value, the user/group overlay is the number of    *)
(* edits it holds, and the content of a realm is the inputs it was         *)
(* generated from.  last_apply_error and the wording of responses are left *)
(* out: they are only displayed.                                           *)
(***************************************************************************)
EXTENDS Naturals

CONSTANTS
  Handlers,           \* request threads
  Reconciler,         \* the thread that runs reconcile_pending
  Keys,               \* realm keys
  Edges,              \* public base URL and HTTPS port
  Profiles,           \* protocol profiles
  DefaultSettings,    \* ProviderSettings.from_environment
  DefaultProfile,     \* OidcSettings.from_environment
  Ops,                \* the operations clients call in this instance
  MaxRequests,        \* bound: requests in a behaviour
  GenerationMayFail,  \* whether _generate raises in this instance
  MaxFaults,          \* bound: failed Keycloak calls and generations
  MaxRestarts,        \* bound: restarts of the service, Keycloak or stack
  ReconcileAttempts,  \* iterations of reconcile_pending (60 in the code)
  NoRealm, NoFile, NoThread

Settings == [key: Keys, edge: Edges]
Document == [settings: Settings, applied: Keys, pending: BOOLEAN]
Content  == [key: Keys, edge: Edges, profile: Profiles, overlay: Nat]
Realm    == [content: Content, scoped: BOOLEAN]
Result   == [profile: Profiles, passed: BOOLEAN]
Threads  == Handlers \union {Reconciler}

AllOps == {"save", "apply", "overlay", "saveProfile", "applyProfile", "verify"}

ASSUME ConfigurationAssumption ==
  /\ Reconciler \notin Handlers
  /\ NoThread \notin Threads
  /\ DefaultSettings \in Settings
  /\ DefaultProfile \in Profiles
  /\ Ops \subseteq AllOps
  /\ GenerationMayFail \in BOOLEAN
  /\ MaxRequests \in Nat
  /\ MaxFaults \in Nat
  /\ MaxRestarts \in Nat
  /\ ReconcileAttempts \in Nat \ {0}
  /\ NoRealm \notin Realm
  /\ NoFile \notin Document \union Result

VARIABLES
  document,    \* configuration.json
  temporary,   \* configuration.json.tmp, one name for all writers
  profile,     \* oidc.json (saml.json)
  verification,\* oidc-verification.json
  overlay,     \* users.json and groups.json
  generated,   \* import/northlake-realm.json with connection.json
  realms,      \* Keycloak's realms
  edge,        \* the edge the running stack was started with
  lock,        \* _apply_lock
  pc, job,     \* where each thread is, and its local variables
  reconciled,  \* _startup_reconciled
  attempts,    \* iterations reconcile_pending has made
  requests, faults, restarts  \* counters for the bounds

files   == <<document, temporary, profile, verification, overlay, generated>>
counters == <<requests, faults, restarts>>
vars == <<files, realms, edge, lock, pc, job, reconciled, attempts, counters>>

Built(settings, p, o) ==
  [key |-> settings.key, edge |-> settings.edge, profile |-> p, overlay |-> o]

FreshJob(op) ==
  [op |-> op, settings |-> DefaultSettings, profile |-> DefaultProfile,
   applied |-> DefaultSettings.key,
   built |-> Built(DefaultSettings, DefaultProfile, 0)]
NoJob == FreshJob("none")

Job == [op: AllOps \union {"none", "reconcile"}, settings: Settings,
        profile: Profiles, applied: Keys, built: Content]

(* The requests a client can make. A field an operation does not take      *)
(* keeps its default.                                                      *)
Requests ==
  {j \in [op: Ops, settings: Settings, profile: Profiles,
          applied: {NoJob.applied}, built: {NoJob.built}] :
     /\ j.op \notin {"save", "apply"} => j.settings = DefaultSettings
     /\ j.op \notin {"saveProfile", "applyProfile"} => j.profile = DefaultProfile}

(* The labels at which a thread holds _apply_lock.                         *)
LockedLabels ==
  {"overlay", "load", "profile", "clear", "generate", "writePending",
   "installPending", "deletePrevious", "deleteKey", "post", "scopes",
   "health", "writeApplied", "installApplied", "lockedVerify",
   "lockedRecord", "ensure", "succeeded"}
FreeLabels ==
  {"idle", "acquire", "sleep", "finished", "loadUnlocked", "writeSaved",
   "installSaved", "profileUnlocked", "clearUnlocked", "verify", "record"}

Goto(t, label) == pc' = [pc EXCEPT ![t] = label]

Init ==
  /\ document = [settings |-> DefaultSettings, applied |-> DefaultSettings.key,
                 pending |-> FALSE]
  /\ temporary = NoFile
  /\ profile = DefaultProfile
  /\ verification = NoFile
  /\ overlay = 0
  /\ generated = Built(DefaultSettings, DefaultProfile, 0)
  /\ realms = [k \in Keys |-> IF k = DefaultSettings.key
                              THEN [content |-> generated, scoped |-> FALSE]
                              ELSE NoRealm]
  /\ edge = DefaultSettings.edge
  /\ lock = NoThread
  /\ pc = [t \in Threads |-> IF t = Reconciler THEN "acquire" ELSE "idle"]
  /\ job = [t \in Threads |-> IF t = Reconciler THEN FreshJob("reconcile") ELSE NoJob]
  /\ reconciled = FALSE
  /\ attempts = 0
  /\ requests = 0 /\ faults = 0 /\ restarts = 0

-----------------------------------------------------------------------------
(* Requests and the lock.                                                  *)

(* Mutant: an overlay edit that does not wait for the lock.                *)
FirstLabelUnlocked(op) ==
  CASE op = "save"        -> "loadUnlocked"
    [] op = "saveProfile" -> "profileUnlocked"
    [] op = "verify"      -> "verify"
    [] op = "overlay"     -> "overlay"
    [] OTHER              -> "acquire"

FirstLabel(op) ==
  CASE op = "save"        -> "loadUnlocked"
    [] op = "saveProfile" -> "profileUnlocked"
    [] op = "verify"      -> "verify"
    [] OTHER              -> "acquire"

Begin(t) ==
  /\ t \in Handlers
  /\ pc[t] = "idle"
  /\ requests < MaxRequests
  /\ \E request \in Requests :
       /\ job' = [job EXCEPT ![t] = request]
       /\ Goto(t, FirstLabel(request.op))
  /\ requests' = requests + 1
  /\ UNCHANGED <<files, realms, edge, lock, reconciled, attempts, faults, restarts>>

(* Mutant: the lock is taken while another thread holds it.                *)
AcquireHeld(t) ==
  /\ pc[t] = "acquire"
  /\ lock' = t
  /\ Goto(t, IF job[t].op = "overlay" THEN "overlay" ELSE "load")
  /\ UNCHANGED <<files, realms, edge, job, reconciled, attempts, counters>>

Acquire(t) ==
  /\ pc[t] = "acquire"
  /\ lock = NoThread
  /\ lock' = t
  /\ Goto(t, IF job[t].op = "overlay" THEN "overlay" ELSE "load")
  /\ UNCHANGED <<files, realms, edge, job, reconciled, attempts, counters>>

(* Mutant: the failure path keeps the lock.                                *)
LeaveHolding(t) ==
  /\ lock' = lock
  /\ Goto(t, IF t = Reconciler THEN "sleep" ELSE "idle")
  /\ job' = IF t = Reconciler THEN job ELSE [job EXCEPT ![t] = NoJob]

(* A thread leaves its operation: with _apply_lock released when it held   *)
(* it; the reconciliation loop sleeps before its next iteration.           *)
Leave(t) ==
  /\ lock' = IF lock = t THEN NoThread ELSE lock
  /\ Goto(t, IF t = Reconciler THEN "sleep" ELSE "idle")
  /\ job' = IF t = Reconciler THEN job ELSE [job EXCEPT ![t] = NoJob]

(* A call that fails spends one unit of the fault bound.                   *)
Fail(t) ==
  /\ faults < MaxFaults
  /\ faults' = faults + 1
  /\ Leave(t)

-----------------------------------------------------------------------------
(* Overlay, document and profile files.                                    *)

WriteOverlay(t) ==
  /\ pc[t] = "overlay"
  /\ overlay' = overlay + 1
  /\ Goto(t, "load")
  /\ UNCHANGED <<document, temporary, profile, verification, generated, realms,
                 edge, lock, job, reconciled, attempts, counters>>

(* self._document(): apply and save keep the settings of the request, the  *)
(* other operations work with the saved ones.                              *)
Load(t) ==
  /\ pc[t] \in {"load", "loadUnlocked"}
  /\ job' = [job EXCEPT ![t].applied = document.applied,
                        ![t].settings = IF job[t].op \in {"save", "apply"}
                                        THEN @ ELSE document.settings]
  /\ Goto(t, CASE job[t].op = "save"         -> "writeSaved"
               [] job[t].op = "applyProfile" -> "profile"
               [] job[t].op = "reconcile" /\ ~document.pending -> "ensure"
               [] OTHER                      -> "generate")
  /\ UNCHANGED <<files, realms, edge, lock, reconciled, attempts, counters>>

WriteProfile(t) ==
  /\ pc[t] \in {"profile", "profileUnlocked"}
  /\ profile' = job[t].profile
  /\ Goto(t, IF pc[t] = "profile" THEN "clear" ELSE "clearUnlocked")
  /\ UNCHANGED <<document, temporary, verification, overlay, generated, realms,
                 edge, lock, job, reconciled, attempts, counters>>

ClearVerification(t) ==
  /\ pc[t] \in {"clear", "clearUnlocked"}
  /\ verification' = NoFile
  /\ IF pc[t] = "clear"
     THEN Goto(t, "generate") /\ UNCHANGED <<lock, job>>
     ELSE Leave(t)
  /\ UNCHANGED <<document, temporary, profile, overlay, generated, realms, edge,
                 reconciled, attempts, counters>>

(* _generate: apply_oidc passes its own profile, the others read the file. *)
(* It can fail (an expired SAML certificate, an unwritable directory).     *)
FirstDelete(t) ==
  IF job[t].applied = job[t].settings.key THEN "deleteKey" ELSE "deletePrevious"

Generate(t) ==
  /\ pc[t] = "generate"
  /\ LET content == Built(job[t].settings,
                          IF job[t].op = "applyProfile" THEN job[t].profile ELSE profile,
                          overlay)
     IN \/ /\ generated' = content
           /\ job' = [job EXCEPT ![t].built = content]
           /\ Goto(t, IF job[t].op = "apply" THEN "writePending" ELSE FirstDelete(t))
           /\ UNCHANGED <<lock, faults>>
        \/ GenerationMayFail /\ Fail(t) /\ UNCHANGED generated
  /\ UNCHANGED <<document, temporary, profile, verification, overlay, realms, edge,
                 reconciled, attempts, requests, restarts>>

(* Mutant: apply writes its document before the change as if it were done. *)
NewDocumentEarly(t) ==
  [settings |-> job[t].settings, pending |-> FALSE,
   applied |-> IF pc[t] = "writeSaved" THEN job[t].applied ELSE job[t].settings.key]

(* write_settings_document: every writer uses the same temporary name.     *)
NewDocument(t) ==
  CASE pc[t] = "writeSaved"   -> [settings |-> job[t].settings,
                                  applied |-> job[t].applied, pending |-> FALSE]
    [] pc[t] = "writePending" -> [settings |-> job[t].settings,
                                  applied |-> job[t].applied, pending |-> TRUE]
    [] pc[t] = "writeApplied" -> [settings |-> job[t].settings,
                                  applied |-> job[t].settings.key, pending |-> FALSE]

WriteTemporary(t) ==
  /\ pc[t] \in {"writeSaved", "writePending", "writeApplied"}
  /\ temporary' = NewDocument(t)
  /\ Goto(t, CASE pc[t] = "writeSaved"   -> "installSaved"
               [] pc[t] = "writePending" -> "installPending"
               [] pc[t] = "writeApplied" -> "installApplied")
  /\ UNCHANGED <<document, profile, verification, overlay, generated, realms, edge,
                 lock, job, reconciled, attempts, counters>>

(* Mutant: a missing temporary file is installed all the same.             *)
InstallMissing(t) ==
  /\ document' = temporary
  /\ temporary' = NoFile
  /\ Leave(t)

(* os.replace: it installs whatever the temporary file holds, and raises   *)
(* when another writer has moved the file away.  apply answers "restart    *)
(* required" after its pending document when the edge differs.             *)
InstallSucceeds(t) ==
  /\ temporary # NoFile
  /\ document' = temporary
  /\ temporary' = NoFile
  /\ CASE pc[t] = "installSaved" -> Leave(t)
       [] pc[t] = "installPending" ->
            IF job[t].settings.edge # edge
            THEN Leave(t)
            ELSE Goto(t, FirstDelete(t)) /\ UNCHANGED <<lock, job>>
       [] pc[t] = "installApplied" -> Goto(t, "succeeded") /\ UNCHANGED <<lock, job>>

(* The final write of reconcile_pending is outside its try block, so this  *)
(* error ends the reconciliation thread.                                   *)
InstallRaises(t) ==
  /\ temporary = NoFile
  /\ lock' = IF lock = t THEN NoThread ELSE lock
  /\ Goto(t, IF t = Reconciler THEN "finished" ELSE "idle")
  /\ job' = IF t = Reconciler THEN job ELSE [job EXCEPT ![t] = NoJob]
  /\ UNCHANGED <<document, temporary>>

Install(t) ==
  /\ pc[t] \in {"installSaved", "installPending", "installApplied"}
  /\ InstallSucceeds(t) \/ InstallRaises(t)
  /\ UNCHANGED <<profile, verification, overlay, generated, realms, edge,
                 reconciled, attempts, counters>>

-----------------------------------------------------------------------------
(* replace_realm and wait_until_healthy.  A call that fails may still have *)
(* taken effect in Keycloak: its answer was lost or late.                  *)

DeleteRealm(t, key, next) ==
  /\ \/ Goto(t, next) /\ UNCHANGED <<lock, job, faults>>
        /\ realms' = [realms EXCEPT ![key] = NoRealm]
     \/ Fail(t) /\ realms' \in {realms, [realms EXCEPT ![key] = NoRealm]}
  /\ UNCHANGED <<files, edge, reconciled, attempts, requests, restarts>>

DeletePrevious(t) ==
  pc[t] = "deletePrevious" /\ DeleteRealm(t, job[t].applied, "deleteKey")

DeleteKey(t) ==
  pc[t] = "deleteKey" /\ DeleteRealm(t, job[t].settings.key, "post")

(* POST /admin/realms answers 409 for a realm that exists.                 *)
PostRealm(t) ==
  /\ pc[t] = "post"
  /\ LET key     == job[t].settings.key
         created == [realms EXCEPT ![key] = [content |-> job[t].built, scoped |-> FALSE]]
     IN \/ /\ realms[key] = NoRealm
           /\ realms' = created
           /\ Goto(t, "scopes")
           /\ UNCHANGED <<lock, job, faults>>
        \/ /\ realms[key] = NoRealm
           /\ Fail(t)
           /\ realms' \in {realms, created}
        \/ /\ realms[key] # NoRealm
           /\ Leave(t)
           /\ UNCHANGED <<realms, faults>>
  /\ UNCHANGED <<files, edge, reconciled, attempts, requests, restarts>>

Scoped(realm) == [content |-> realm.content, scoped |-> TRUE]

AttachScopes(t) ==
  /\ pc[t] = "scopes"
  /\ LET key == job[t].settings.key
         attached == [realms EXCEPT ![key] = Scoped(@)]
     IN \/ Goto(t, "health") /\ realms' = attached /\ UNCHANGED <<lock, job, faults>>
        \/ Fail(t) /\ realms' \in {realms, attached}
  /\ UNCHANGED <<files, edge, reconciled, attempts, requests, restarts>>

(* Keycloak issues with the hostname the stack was started with; discovery *)
(* is healthy when the issuer is the one the settings expect.              *)
AwaitHealth(t) ==
  /\ pc[t] = "health"
  /\ \/ /\ job[t].settings.edge = edge
        /\ Goto(t, CASE job[t].op \in {"apply", "reconcile"} -> "writeApplied"
                     [] job[t].op = "applyProfile"           -> "lockedVerify"
                     [] OTHER                                -> "succeeded")
        /\ UNCHANGED <<lock, job, faults>>
     \/ Fail(t)
     \/ job[t].settings.edge # edge /\ Leave(t) /\ UNCHANGED faults
  /\ UNCHANGED <<files, realms, edge, reconciled, attempts, requests, restarts>>

(* The answer 200 "applied", or the end of a successful reconciliation.    *)
Succeed(t) ==
  /\ pc[t] = "succeeded"
  /\ lock' = NoThread
  /\ Goto(t, IF t = Reconciler THEN "finished" ELSE "idle")
  /\ job' = IF t = Reconciler THEN job ELSE [job EXCEPT ![t] = NoJob]
  /\ reconciled' = (reconciled \/ t = Reconciler)
  /\ UNCHANGED <<files, realms, edge, attempts, counters>>

-----------------------------------------------------------------------------
(* verify_oidc (verify_saml): the verifier reads connection.json and tries *)
(* the realm; its result is written afterwards.                            *)

Verify(t) ==
  /\ pc[t] \in {"verify", "lockedVerify"}
  /\ job' = [job EXCEPT ![t].built = generated]
  /\ Goto(t, IF pc[t] = "verify" THEN "record" ELSE "lockedRecord")
  /\ UNCHANGED <<files, realms, edge, lock, reconciled, attempts, counters>>

Serves(content) ==
  /\ realms[content.key] # NoRealm
  /\ realms[content.key].content = content
  /\ content.edge = edge

RecordVerification(t) ==
  /\ pc[t] \in {"record", "lockedRecord"}
  /\ \E passed \in {FALSE, Serves(job[t].built)} :
       verification' = [profile |-> job[t].built.profile, passed |-> passed]
  /\ IF pc[t] = "lockedRecord"
     THEN Goto(t, "succeeded") /\ UNCHANGED <<lock, job>>
     ELSE Leave(t)
  /\ UNCHANGED <<document, temporary, profile, overlay, generated, realms, edge,
                 reconciled, attempts, counters>>

-----------------------------------------------------------------------------
(* reconcile_pending.                                                      *)

(* Nothing pending: the Account Console scopes are attached to the saved   *)
(* realm, which fails while that realm does not exist, and then to the lab *)
(* realms, which may fail after it.                                        *)
EnsureAccess(t) ==
  /\ pc[t] = "ensure"
  /\ LET key == job[t].settings.key
         attached == [realms EXCEPT ![key] = Scoped(@)]
     IN \/ /\ realms[key] # NoRealm
           /\ realms' = attached
           /\ reconciled' = TRUE
           /\ lock' = NoThread
           /\ Goto(t, "finished")
           /\ UNCHANGED <<job, faults>>
        \/ /\ Fail(t)
           /\ \/ UNCHANGED realms
              \/ realms[key] # NoRealm /\ realms' = attached
           /\ UNCHANGED reconciled
        \/ realms[key] = NoRealm /\ Leave(t) /\ UNCHANGED <<realms, reconciled, faults>>
  /\ UNCHANGED <<files, edge, attempts, requests, restarts>>

(* Mutant: the reconciliation thread ends after its first attempt.         *)
SleepOnce(t) ==
  /\ pc[t] = "sleep"
  /\ attempts' = attempts + 1
  /\ Goto(t, "finished")
  /\ UNCHANGED <<files, realms, edge, lock, job, reconciled, counters>>

Sleep(t) ==
  /\ pc[t] = "sleep"
  /\ attempts' = attempts + 1
  /\ Goto(t, IF attempts' = ReconcileAttempts THEN "finished" ELSE "acquire")
  /\ UNCHANGED <<files, realms, edge, lock, job, reconciled, counters>>

-----------------------------------------------------------------------------
(* Restarts.  Files and Keycloak's database survive all three.             *)

ThreadsRestarted ==
  /\ lock' = NoThread
  /\ pc' = [t \in Threads |-> IF t = Reconciler THEN "acquire" ELSE "idle"]
  /\ job' = [t \in Threads |-> IF t = Reconciler THEN FreshJob("reconcile") ELSE NoJob]
  /\ reconciled' = FALSE
  /\ attempts' = 0

Restarting ==
  /\ restarts < MaxRestarts
  /\ restarts' = restarts + 1
  /\ UNCHANGED <<document, temporary, profile, verification, overlay, requests, faults>>

(* Keycloak starts with --import-realm: a realm that exists is kept.       *)
Imported(content) ==
  IF realms[content.key] = NoRealm
  THEN [realms EXCEPT ![content.key] = [content |-> content, scoped |-> FALSE]]
  ELSE realms

(* The configuration container alone restarts (restart: unless-stopped).   *)
ServiceRestart ==
  /\ Restarting
  /\ ThreadsRestarted
  /\ UNCHANGED <<generated, realms, edge>>

KeycloakRestart ==
  /\ Restarting
  /\ realms' = Imported(generated)
  /\ UNCHANGED <<generated, edge, lock, pc, job, reconciled, attempts>>

(* Stop-Identity and Start-Identity: New-IdentityRealm regenerates the     *)
(* import file from the saved documents and the containers get the saved   *)
(* edge.                                                                   *)
StackRestart ==
  /\ Restarting
  /\ ThreadsRestarted
  /\ generated' = Built(document.settings, profile, overlay)
  /\ realms' = Imported(generated')
  /\ edge' = document.settings.edge

-----------------------------------------------------------------------------
Replace(t) ==
  \/ DeletePrevious(t) \/ DeleteKey(t) \/ PostRealm(t) \/ AttachScopes(t)
  \/ AwaitHealth(t)

Step(t) ==
  \/ Acquire(t) \/ WriteOverlay(t) \/ Load(t) \/ WriteProfile(t)
  \/ ClearVerification(t) \/ Generate(t) \/ WriteTemporary(t) \/ Install(t)
  \/ Replace(t) \/ Succeed(t) \/ Verify(t) \/ RecordVerification(t)
  \/ EnsureAccess(t) \/ Sleep(t)

Restart == ServiceRestart \/ KeycloakRestart \/ StackRestart

Next == (\E t \in Threads : Begin(t) \/ Step(t)) \/ Restart

Spec == Init /\ [][Next]_vars

(* Threads run, and every call they make ends: urlopen and the verifiers   *)
(* have timeouts.  Clients, restarts and failures are not obliged to occur.*)
Fairness == \A t \in Threads : WF_vars(Step(t))

-----------------------------------------------------------------------------
TypeOK ==
  /\ document \in Document
  /\ temporary \in Document \union {NoFile}
  /\ profile \in Profiles
  /\ verification \in Result \union {NoFile}
  /\ overlay \in Nat
  /\ generated \in Content
  /\ realms \in [Keys -> Realm \union {NoRealm}]
  /\ edge \in Edges
  /\ lock \in Threads \union {NoThread}
  /\ pc \in [Threads -> LockedLabels \union FreeLabels]
  /\ job \in [Threads -> Job]
  /\ reconciled \in BOOLEAN
  /\ attempts \in Nat
  /\ requests \in 0..MaxRequests
  /\ faults \in 0..MaxFaults
  /\ restarts \in 0..MaxRestarts

(* _apply_lock is held by the thread inside a "with" block and by no other *)
(* (server.py, every "with self._apply_lock"): no failure path keeps it,   *)
(* and no two threads tear down and rebuild a realm at once.               *)
LockDiscipline ==
  \A t \in Threads : lock = t <=> pc[t] \in LockedLabels

(* When the service is about to answer that a realm was applied, Keycloak  *)
(* serves exactly the realm this request generated, with its scopes, under *)
(* the running edge and with every overlay edit saved so far, whatever     *)
(* other threads did since the realm was generated.                        *)
SuccessIsServed ==
  \A t \in Threads :
    pc[t] = "succeeded" =>
      /\ realms[job[t].settings.key] = [content |-> job[t].built, scoped |-> TRUE]
      /\ job[t].settings.edge = edge
      /\ job[t].built.overlay = overlay

(* Every request is answered, whichever calls fail.                        *)
RequestsAnswered ==
  \A t \in Handlers : pc[t] # "idle" ~> pc[t] = "idle"

(* A document that is not marked pending is truthful: Keycloak holds the   *)
(* realm it names, generated from its settings.  apply writes the pending  *)
(* document before it touches Keycloak so that a crash or failure at any   *)
(* later step leaves the retry on disk.                                    *)
TruthfulDocument ==
  ~document.pending =>
    /\ document.applied = document.settings.key
    /\ realms[document.applied] # NoRealm
    /\ realms[document.applied].content.key = document.settings.key
    /\ realms[document.applied].content.edge = document.settings.edge

(* server.py:1501, "Northlake will retry after the next stack start": an   *)
(* apply that fails leaves its settings pending on disk.                   *)
ApplyFailsPending ==
  \A t \in Handlers :
    /\ job[t].op = "apply" /\ restarts' = restarts
    /\ pc[t] \in {"deletePrevious", "deleteKey", "post", "scopes", "health"}
    /\ pc'[t] = "idle"
    => document.pending /\ document.settings = job[t].settings
FailedApplyStaysPending == [][ApplyFailsPending]_vars
=============================================================================
