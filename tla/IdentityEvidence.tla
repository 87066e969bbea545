-------------------------- MODULE IdentityEvidence --------------------------
(***************************************************************************)
(* The evidence chain of the stable realm: identity_evidence.py, the       *)
(* catalog it validates, and the scripts that drive it,                    *)
(* Promote-IdentityStableRealm.ps1, Rotate-IdentitySigningKey.ps1,         *)
(* Test-IdentityRestartStability.ps1 and Test-IdentityEvidence.ps1.        *)
(*                                                                         *)
(* Every script leaves files under .runtime that the next one reads, and a *)
(* script that stops leaves the files of an earlier run.  While the        *)
(* harness works, somebody may apply other settings (which replaces the    *)
(* realm and its keys) or rotate the key.  A snapshot or result carries    *)
(* the number of the realm or of the harness run it comes from: the code   *)
(* does not have these, the properties compare them.                       *)
(*                                                                         *)
(* The realm key, the issuer, the subjects and the image do not change     *)
(* here; redaction, hashes and revisions are left out, and so are the      *)
(* commands that only read and leave no file the properties are about: a   *)
(* manifest passes here if those passed.                                   *)
(***************************************************************************)
EXTENDS KeyRotation

CONSTANTS
  Scripted,      \* the rotation that Rotate-IdentitySigningKey.ps1 runs
  Catalog,       \* scenarios of coverage-catalog.json
  MaxRuns,       \* bound: runs of the harness
  MaxChanges     \* bound: settings applied by hand

ASSUME EvidenceAssumption ==
  Scripted \in Rotations /\ MaxRuns \in Nat /\ MaxChanges \in Nat

\* "stable-realm-normal-oidc-and-saml-promotion" and "provider-outage-recovery-
\* and-full-stack-restart-stability" are required
ASSUME CatalogAssumption ==
  /\ \E s \in Catalog : s.required /\ <<"command", "stable-promotion">> \in s.evidence
  /\ \E s \in Catalog : s.required /\ <<"command", "restart-stability">> \in s.evidence

VARIABLES
  settings,      \* "stable": exactly Modern OIDC and Standard SAML
  changes,       \* settings applied by hand so far
  script,        \* where Rotate-IdentitySigningKey.ps1 is
  pre,           \* stable-pre-rotation.json
  rotationFile,  \* last-key-rotation.json
  harness, run,  \* where Test-IdentityEvidence.ps1 is, and its number
  commands,      \* ids of the commands of this run that passed
  promotion,     \* stable-promotion.json: the runs that wrote it
  before,        \* stable-before.json, while this run may read it
  restart,       \* restart-stability.json
  manifest       \* identity-evidence.json

evidenceVars == <<settings, changes, script, pre, rotationFile, harness, run,
                  commands, promotion, before, restart, manifest>>
vars == <<rotVars, evidenceVars>>

\* a file is the set of its contents: {} while it does not exist
NoFile == {}

Init ==
  /\ RotInit
  /\ settings \in {"stable", "other"} /\ changes = 0
  /\ script = "idle" /\ pre = NoFile /\ rotationFile = NoFile
  /\ harness = "idle" /\ run = 0 /\ commands = {}
  /\ promotion = NoFile /\ before = NoFile /\ restart = NoFile /\ manifest = NoFile

-----------------------------------------------------------------------------
(* identity_evidence.py                                                    *)

\* validate_coverage_catalog: evidence or a gap, and evidence when required
CatalogValid ==
  \A s \in Catalog : (s.evidence = {} => s.gap) /\ (s.required => s.evidence # {})

\* capture_stable_snapshot: refused unless the realm has the two stable
\* clients and a signing key; the SAML metadata publishes the same keys
SnapshotPossible == CatalogValid /\ settings = "stable" /\ DOMAIN providers # {}
Snapshot == [keys |-> DOMAIN providers, settings |-> settings, realm |-> epoch]

\* mutant: the configuration only
StableSettings(first, second) == first.settings = second.settings

\* compare_stable_snapshots
Stable(first, second) ==
  first.keys = second.keys /\ first.settings = second.settings

\* _artifact_status for a rotation result
RotationPassed(file) ==
  /\ file.result.old # file.result.new
  /\ file.result.old \in file.result.retained
  /\ file.verified

\* _resolve_evidence: a command of this run, or a file whatever run wrote it
EvidencePassed(item) ==
  CASE item[1] = "command" -> item[2] \in commands
    [] item[1] = "restart" -> \E r \in restart : r.passed
    [] item = <<"artifact", "key-rotation">> -> \E f \in rotationFile : RotationPassed(f)
    [] item = <<"artifact", "stable-promotion">> -> promotion # NoFile

\* mutant: one passing item is enough
ScenarioPassedOnce(scenario) == \E item \in scenario.evidence : EvidencePassed(item)

ScenarioPassed(scenario) ==
  scenario.evidence # {} /\ \A item \in scenario.evidence : EvidencePassed(item)

ScenarioStatus(scenario) ==
  CASE ScenarioPassed(scenario) /\ ~scenario.gap -> "passed"
    [] ScenarioPassed(scenario) /\ scenario.gap -> "passed-with-gap"
    [] ~ScenarioPassed(scenario) /\ scenario.gap -> "gap"
    [] OTHER -> "failed"

\* export_evidence; a required scenario passes, with or without a gap
Manifest ==
  [run |-> run,
   passed |-> \A s \in Catalog :
                s.required => ScenarioStatus(s) \in {"passed", "passed-with-gap"}]

-----------------------------------------------------------------------------
(* Rotate-IdentitySigningKey.ps1                                           *)

ScriptStart ==
  /\ script = "idle" /\ SnapshotPossible
  /\ pre' = {Snapshot} /\ script' = "start"
  /\ UNCHANGED <<rotVars, settings, changes, rotationFile, harness, run,
                 commands, promotion, before, restart, manifest>>

ScriptRotates ==
  /\ script = "start" /\ script' = "rotate" /\ ReadComponents(Scripted)
  /\ UNCHANGED <<settings, changes, pre, rotationFile, harness, run, commands,
                 promotion, before, restart, manifest>>

\* rotate_signing_key.py wrote its result over the earlier one
ScriptRotated ==
  /\ script = "rotate" /\ WriteResult(Scripted)
  /\ rotationFile' =
       {[result |-> RotationResult(Scripted), realm |-> epoch,
         verified |-> FALSE, straight |-> TRUE]}
  /\ script' = "verify"
  /\ UNCHANGED <<settings, changes, pre, harness, run, commands, promotion,
                 before, restart, manifest>>

ScriptStops ==
  /\ \/ script = "rotate" /\ Fails(Scripted)
     \/ script \in {"verify", "existing"} /\ UNCHANGED rotVars
  /\ script' = "idle"
  /\ UNCHANGED <<settings, changes, pre, rotationFile, harness, run,
                 commands, promotion, before, restart, manifest>>

\* -VerifyExistingResult
ScriptExisting ==
  /\ script = "idle" /\ rotationFile # NoFile /\ script' = "existing"
  /\ UNCHANGED <<rotVars, settings, changes, pre, rotationFile, harness, run,
                 commands, promotion, before, restart, manifest>>

\* mutant: more certificates than before
CertificatesAdded(first, second) == Cardinality(first.keys) < Cardinality(second.keys)

\* Test-Identity.ps1 passed and a second snapshot was taken: the earlier
\* certificates are still published, and there are more
CertificatesOverlap(first, second) ==
  first.keys \subseteq second.keys /\ Cardinality(first.keys) < Cardinality(second.keys)

ScriptVerified ==
  /\ script \in {"verify", "existing"} /\ SnapshotPossible
  /\ \E first \in pre : CertificatesOverlap(first, Snapshot)
  /\ rotationFile' =
       {[result |-> f.result, realm |-> f.realm, verified |-> TRUE,
         straight |-> f.straight /\ script = "verify"] : f \in rotationFile}
  /\ script' = "idle"
  /\ UNCHANGED <<rotVars, settings, changes, pre, harness, run, commands,
                 promotion, before, restart, manifest>>

-----------------------------------------------------------------------------
(* Test-IdentityEvidence.ps1                                               *)

HarnessStart ==
  /\ harness \in {"idle", "ended"} /\ run < MaxRuns
  /\ run' = run + 1 /\ harness' = "promote"
  /\ commands' = {"unit-tests"} \cup (IF CatalogValid THEN {"catalog-validation"} ELSE {})
  /\ UNCHANGED <<rotVars, settings, changes, script, pre, rotationFile,
                 promotion, before, restart, manifest>>

\* Promote-IdentityStableRealm.ps1: saves and applies what differs
Promote ==
  /\ harness = "promote" /\ settings # "stable"
  /\ settings' = "stable" /\ NewRealm
  /\ UNCHANGED <<rotation, rotFaults, changes, script, pre,
                 rotationFile, harness, run, commands, promotion, before,
                 restart, manifest>>

\* the focused verifiers passed and the snapshot was taken
Promoted ==
  /\ harness = "promote" /\ SnapshotPossible
  /\ promotion' = {[run |-> run]} /\ commands' = commands \cup {"stable-promotion"}
  /\ harness' = "before"
  /\ UNCHANGED <<rotVars, settings, changes, script, pre, rotationFile, run,
                 before, restart, manifest>>

\* Test-IdentityRestartStability.ps1, up to the outage
SnapshotBefore ==
  /\ harness = "before" /\ SnapshotPossible
  /\ before' = {Snapshot} /\ harness' = "restart"
  /\ UNCHANGED <<rotVars, settings, changes, script, pre, rotationFile, run,
                 commands, promotion, restart, manifest>>

\* after the outage, the restart and the full verifier
CompareAfter ==
  /\ harness = "restart" /\ SnapshotPossible
  /\ \E first \in before :
       /\ restart' = {[passed |-> Stable(first, Snapshot), run |-> run,
                       realms |-> {first.realm, epoch}]}
       /\ commands' = IF Stable(first, Snapshot)
                      THEN commands \cup {"restart-stability"} ELSE commands
  /\ harness' = "export" /\ before' = NoFile
  /\ UNCHANGED <<rotVars, settings, changes, script, pre, rotationFile, run,
                 promotion, manifest>>

\* a command throws: the harness records it as failed and goes on
CommandThrows ==
  /\ harness \in {"promote", "before", "restart"}
  /\ harness' = IF harness = "promote" THEN "before" ELSE "export"
  /\ before' = NoFile
  /\ UNCHANGED <<rotVars, settings, changes, script, pre, rotationFile, run,
                 commands, promotion, restart, manifest>>

Export ==
  /\ harness = "export" /\ harness' = "ended"
  /\ manifest' = IF CatalogValid THEN {Manifest} ELSE manifest
  /\ UNCHANGED <<rotVars, settings, changes, script, pre, rotationFile, run,
                 commands, promotion, before, restart>>

-----------------------------------------------------------------------------
(* Others.                                                                 *)

ApplySettings ==
  /\ changes < MaxChanges /\ changes' = changes + 1
  /\ settings' \in {"stable", "other"} /\ NewRealm
  /\ UNCHANGED <<rotation, rotFaults, script, pre, rotationFile,
                 harness, run, commands, promotion, before, restart, manifest>>

\* the scripted rotation proceeds within its script, another by itself
ScriptedStep == script = "rotate" /\ Advance(Scripted) /\ UNCHANGED evidenceVars
OtherStep ==
  (\E r \in Rotations \ {Scripted} : Rotate(r)) /\ UNCHANGED evidenceVars

Next ==
  \/ ScriptStart \/ ScriptRotates \/ ScriptRotated \/ ScriptStops \/ ScriptExisting \/ ScriptVerified
  \/ HarnessStart \/ Promote \/ Promoted \/ SnapshotBefore
  \/ CompareAfter \/ CommandThrows \/ Export
  \/ ApplySettings \/ ScriptedStep \/ OtherStep

Spec == Init /\ [][Next]_vars

-----------------------------------------------------------------------------
(* Properties.                                                             *)

TypeOK ==
  /\ settings \in {"stable", "other"} /\ run \in 0 .. MaxRuns
  /\ harness \in {"idle", "promote", "before", "restart", "export", "ended"}
  /\ script \in {"idle", "start", "rotate", "verify", "existing"}
  /\ \A file \in {pre, rotationFile, promotion, before, restart, manifest} :
       Cardinality(file) <= 1
  /\ script \in {"verify", "existing"} => rotationFile # NoFile
  /\ at \in [Rotations -> {"idle", "keys", "post", "poll", "passivate", "jwks"}]
  /\ script = "rotate" <=> at[Scripted] # "idle"

(* A manifest that passes is exported when the restart comparison and the  *)
(* promotion on disk are of the same harness run, although the exporter    *)
(* reads whatever files it finds: an abbreviated run, or one whose restart *)
(* check failed, is not mistaken for an acceptance.                        *)
ManifestOfThisRun ==
  [][\A m \in manifest' \ manifest : m.passed =>
       /\ \E r \in restart : r.passed /\ r.run = m.run
       /\ promotion = {[run |-> m.run]}]_vars

(* A restart comparison that passed compared two snapshots of the same     *)
(* realm: no replacement went unnoticed between them.                      *)
RestartIsOfOneRealm ==
  \A r \in restart : r.passed => Cardinality(r.realms) = 1

(* When Rotate-IdentitySigningKey.ps1 marks the result of its own rotation *)
(* as verified, the keys it took before, the result and the keys it finds  *)
(* now are of one realm, whatever was applied or rotated meanwhile.        *)
VerifiedRotationIsOfOneRealm ==
  [][\A f \in rotationFile' \ rotationFile : f.verified /\ f.straight =>
       /\ f.realm = epoch
       /\ \A first \in pre : first.realm = epoch]_vars
=============================================================================
