----------------------- MODULE IdentityEvidenceProofs -----------------------
(***************************************************************************)
(* Proofs about IdentityEvidence: the evidence chain rotates keys as       *)
(* KeyRotation does, so its theorems hold there, and the three properties  *)
(* of the files hold for every catalog and every bound.                    *)
(*                                                                         *)
(* The argument for the snapshots: keys are numbered by their creation and *)
(* a replaced realm has one that no earlier snapshot can hold, so a        *)
(* snapshot that shares a key with the realm is of that realm.             *)
(***************************************************************************)
EXTENDS IdentityEvidence, KeyRotationProofs, FiniteSetTheorems

(* Every step of the evidence chain is a step of the rotations or leaves   *)
(* the keys alone.                                                         *)
LEMMA StepRotates == [Next]_vars => [RotNext]_rotVars
<1> SUFFICES ASSUME [Next]_vars PROVE [RotNext]_rotVars
  OBVIOUS
<1>1. CASE UNCHANGED vars
  BY <1>1 DEF vars
<1>2. CASE ScriptRotates \/ ScriptRotated \/ ScriptStops \/ ScriptedStep
  BY <1>2, EvidenceAssumption
     DEF ScriptRotates, ScriptRotated, ScriptStops, ScriptedStep, RotNext, Rotate
<1>3. CASE OtherStep
  BY <1>3 DEF OtherStep, RotNext
<1>4. CASE Promote \/ ApplySettings
  BY <1>4 DEF Promote, ApplySettings, RotNext, ReplaceRealm
<1>5. CASE \/ ScriptStart \/ ScriptExisting \/ ScriptVerified
           \/ HarnessStart \/ Promoted \/ SnapshotBefore
           \/ CompareAfter \/ CommandThrows \/ Export
  BY <1>5 DEF ScriptStart, ScriptExisting, ScriptVerified, HarnessStart, Promoted,
              SnapshotBefore, CompareAfter, CommandThrows, Export
<1> QED
  BY <1>1, <1>2, <1>3, <1>4, <1>5 DEF Next

(* The evidence chain implements KeyRotation.                              *)
THEOREM EvidenceImplementsRotation == Spec => RotSpec
<1>1. Init => RotInit
  BY DEF Init
<1> QED
  BY <1>1, StepRotates, PTL DEF Spec, RotSpec

(* While scripts, harness runs and applies interleave with rotations, the  *)
(* realm keeps an active signing key.                                      *)
THEOREM EvidenceKeepsAKey == Spec => []SomeKeySigns
  BY EvidenceImplementsRotation, RotationKeepsAKey, PTL

(* ... and the keys a written result calls retained stay passive.          *)
THEOREM EvidenceRetires == Spec => []RetiredKeysStay
  BY EvidenceImplementsRotation, RotationRetires, PTL

-----------------------------------------------------------------------------
(* The invariant of the files.                                             *)

Snapshots == pre \cup before

\* a snapshot has keys that exist only in its realm
SnapshotsOfRealms ==
  /\ epoch \in Nat
  /\ \A s \in Snapshots :
       /\ s.realm \in Nat /\ s.realm <= epoch
       /\ s.keys # {} /\ s.keys \subseteq 1 .. made
       /\ s.realm # epoch => s.keys \cap DOMAIN providers = {}

\* what the script verifies was written after its first snapshot
ResultAfterSnapshot ==
  /\ \A first \in pre : \A f \in rotationFile :
       script = "verify" => /\ f.realm \in Nat /\ f.realm <= epoch
                            /\ first.realm <= f.realm

\* the commands of this run left its files
CommandsLeftFiles ==
  /\ "stable-promotion" \in commands => promotion = {[run |-> run]}
  /\ "restart-stability" \in commands => \E r \in restart : r.passed /\ r.run = run
  /\ harness \in {"promote", "before", "restart"} => "restart-stability" \notin commands

OneSnapshot == \A s, t \in pre : s = t

EInv ==
  OneSnapshot /\ RInv /\ SnapshotsOfRealms /\ ResultAfterSnapshot /\ CommandsLeftFiles /\ RestartIsOfOneRealm

LEMMA EvidenceInit == Init => EInv
  BY InitInv DEF Init, RotInit, EInv, SnapshotsOfRealms, Snapshots, ResultAfterSnapshot,
                 CommandsLeftFiles, RestartIsOfOneRealm, NoFile, OneSnapshot

\* the keys of a realm: none is lost, and a new realm shares none
LEMMA KeysOfRealm ==
  ASSUME RInv, [Next]_vars
  PROVE  /\ made \in Nat /\ made' \in Nat /\ made <= made'
         /\ DOMAIN providers \subseteq 1 .. made
         /\ \/ epoch' = epoch /\ \A k \in 1 .. made :
                 k \in DOMAIN providers' => k \in DOMAIN providers
            \/ epoch' = epoch + 1 /\ DOMAIN providers' = {made + 1}
<1>1. [RotNext]_rotVars
  BY StepRotates
<1>2. made \in Nat /\ DOMAIN providers \subseteq 1 .. made
  BY DEF RInv, Shape, Numbered
<1>3. ASSUME NEW r \in Rotations, CreateProvider(r), epoch' = epoch
      PROVE  made' = made + 1 /\ \A k \in 1 .. made :
               k \in DOMAIN providers' => k \in DOMAIN providers
  BY <1>3, CreateKeeps
<1>4. ASSUME NEW k \in DOMAIN providers, providers' = Deactivated(providers, k)
      PROVE  DOMAIN providers' = DOMAIN providers
  BY <1>4 DEF Deactivated
<1>5. CASE UNCHANGED <<providers, made, epoch>>
  BY <1>2, <1>5
<1>6. ASSUME NEW r \in Rotations, Rotate(r)
      PROVE  \/ UNCHANGED <<providers, made, epoch>>
             \/ CreateProvider(r) /\ epoch' = epoch
             \/ /\ \E k \in DOMAIN providers : providers' = Deactivated(providers, k)
                /\ UNCHANGED <<made, epoch>>
  BY <1>6 DEF Rotate, Advance, Fails, ReadComponents, ReadKeys, PostProvider, SeeNewKey,
              Passivate, Check, WriteResult, GiveUp, CallFails
<1>7. ASSUME NEW r \in Rotations, Rotate(r) PROVE  /\ made' \in Nat /\ made <= made'
             /\ epoch' = epoch /\ \A k \in 1 .. made :
                  k \in DOMAIN providers' => k \in DOMAIN providers
  BY <1>2, <1>3, <1>4, <1>5, <1>6, <1>7
<1>8. CASE ReplaceRealm
  BY <1>2, <1>8 DEF ReplaceRealm, NewRealm
<1> QED
  BY <1>1, <1>2, <1>5, <1>7, <1>8 DEF RotNext, rotVars

\* a snapshot that stays true of its realm
LEMMA SnapshotKeeps ==
  ASSUME EInv, [Next]_vars, NEW s \in Snapshots
  PROVE  /\ epoch' \in Nat /\ s.realm \in Nat /\ s.realm <= epoch'
         /\ s.keys # {} /\ s.keys \subseteq 1 .. made'
         /\ s.realm # epoch' => s.keys \cap DOMAIN providers' = {}
<1>1. /\ epoch \in Nat /\ s.realm \in Nat /\ s.realm <= epoch
      /\ s.keys # {} /\ s.keys \subseteq 1 .. made
      /\ s.realm # epoch => s.keys \cap DOMAIN providers = {}
  BY DEF EInv, SnapshotsOfRealms
<1>2. /\ made \in Nat /\ made' \in Nat /\ made <= made'
      /\ DOMAIN providers \subseteq 1 .. made
      /\ \/ epoch' = epoch /\ \A k \in 1 .. made :
              k \in DOMAIN providers' => k \in DOMAIN providers
         \/ epoch' = epoch + 1 /\ DOMAIN providers' = {made + 1}
  BY KeysOfRealm DEF EInv
<1>3. made + 1 \notin s.keys
  BY <1>1, <1>2
<1>4. s.keys \subseteq 1 .. made'
  BY <1>1, <1>2
<1>5. epoch' \in Nat /\ s.realm <= epoch'
  BY <1>1, <1>2
<1>6. s.realm # epoch' => s.keys \cap DOMAIN providers' = {}
  BY <1>1, <1>2, <1>3
<1> QED
  BY <1>1, <1>4, <1>5, <1>6

\* a snapshot taken in a step that keeps the realm
LEMMA SnapshotTaken ==
  ASSUME EInv, SnapshotPossible, UNCHANGED rotVars
  PROVE  /\ Snapshot.realm = epoch /\ Snapshot.keys = DOMAIN providers
         /\ Snapshot.keys # {} /\ Snapshot.keys \subseteq 1 .. made
         /\ epoch \in Nat /\ epoch' = epoch /\ made' = made
         /\ Snapshot.settings = settings
  BY DEF EInv, RInv, Numbered, SnapshotsOfRealms, SnapshotPossible, Snapshot, rotVars

\* two snapshots with a key in common are of one realm
LEMMA SameRealm ==
  ASSUME EInv, SnapshotPossible, NEW s \in Snapshots, s.keys \subseteq DOMAIN providers
  PROVE  s.realm = epoch
  BY DEF EInv, SnapshotsOfRealms

LEMMA SnapshotsInv == EInv /\ [Next]_vars => SnapshotsOfRealms'
<1> SUFFICES ASSUME EInv, [Next]_vars PROVE SnapshotsOfRealms'
  OBVIOUS
<1>1. \A s \in Snapshots :
         /\ epoch' \in Nat /\ s.realm \in Nat /\ s.realm <= epoch'
         /\ s.keys # {} /\ s.keys \subseteq 1 .. made'
         /\ s.realm # epoch' => s.keys \cap DOMAIN providers' = {}
  BY SnapshotKeeps
<1>2. epoch' \in Nat
  <2>1. epoch \in Nat
    BY DEF EInv, SnapshotsOfRealms
  <2> QED
    BY <2>1, KeysOfRealm DEF EInv
<1>3. CASE Snapshots' \subseteq Snapshots
  BY <1>1, <1>2, <1>3 DEF SnapshotsOfRealms
<1>4. CASE ScriptStart \/ SnapshotBefore
  <2>1. SnapshotPossible /\ UNCHANGED rotVars
    BY <1>4 DEF ScriptStart, SnapshotBefore
  <2>2. Snapshots' \subseteq Snapshots \cup {Snapshot}
    BY <1>4 DEF ScriptStart, SnapshotBefore, Snapshots
  <2> QED
    BY <1>1, <1>2, <2>1, <2>2, SnapshotTaken DEF SnapshotsOfRealms
<1>5. Snapshots' \subseteq Snapshots \/ ScriptStart \/ SnapshotBefore
  BY DEF Snapshots, NoFile, vars, evidenceVars, Next, ScriptRotates, ScriptRotated,
         ScriptStops, ScriptExisting, ScriptVerified, HarnessStart, Promote, Promoted,
         CompareAfter, CommandThrows, Export, ApplySettings, ScriptedStep, OtherStep
<1> QED
  BY <1>3, <1>4, <1>5

LEMMA ResultInv == EInv /\ [Next]_vars => ResultAfterSnapshot'
<1> SUFFICES ASSUME EInv, [Next]_vars PROVE ResultAfterSnapshot'
  OBVIOUS
<1>1. /\ epoch \in Nat /\ epoch' \in Nat /\ epoch <= epoch'
      /\ \A first \in pre : first.realm \in Nat /\ first.realm <= epoch
  <2>1. epoch \in Nat /\ \A first \in pre : first.realm \in Nat /\ first.realm <= epoch
    BY DEF EInv, SnapshotsOfRealms, Snapshots
  <2> QED
    BY <2>1, KeysOfRealm DEF EInv
<1>2. CASE ScriptRotated
  BY <1>1, <1>2 DEF ScriptRotated, WriteResult, ResultAfterSnapshot
<1>3. CASE script' # "verify"
  BY <1>3 DEF ResultAfterSnapshot
<1>4. CASE script' = script /\ UNCHANGED <<pre, rotationFile>>
  BY <1>1, <1>4 DEF EInv, ResultAfterSnapshot
<1>5. \/ ScriptRotated \/ script' # "verify"
      \/ script' = script /\ UNCHANGED <<pre, rotationFile>>
  BY DEF vars, evidenceVars, Next, ScriptStart, ScriptRotates, ScriptStops, ScriptExisting,
         ScriptVerified, HarnessStart, Promote, Promoted, SnapshotBefore, CompareAfter,
         CommandThrows, Export, ApplySettings, ScriptedStep, OtherStep
<1> QED
  BY <1>2, <1>3, <1>4, <1>5

LEMMA CommandsInv == EInv /\ [Next]_vars => CommandsLeftFiles'
<1> SUFFICES ASSUME EInv, [Next]_vars PROVE CommandsLeftFiles'
  OBVIOUS
<1>1. CommandsLeftFiles
  BY DEF EInv
<1>2. CASE HarnessStart
  BY <1>2 DEF HarnessStart, CommandsLeftFiles
<1>3. CASE Promoted
  BY <1>1, <1>3 DEF Promoted, CommandsLeftFiles
<1>4. CASE CompareAfter
  <2>1. PICK first \in before :
          /\ restart' = {[passed |-> Stable(first, Snapshot), run |-> run,
                          realms |-> {first.realm, epoch}]}
          /\ commands' = IF Stable(first, Snapshot)
                         THEN commands \cup {"restart-stability"} ELSE commands
    BY <1>4 DEF CompareAfter
  <2>2. UNCHANGED <<run, promotion>> /\ harness = "restart" /\ harness' = "export"
    BY <1>4 DEF CompareAfter
  <2>3. CASE Stable(first, Snapshot)
    <3>1. PICK r \in restart' : r.passed /\ r.run = run
      BY <2>1, <2>3
    <3> QED
      BY <1>1, <2>1, <2>2, <2>3, <3>1 DEF CommandsLeftFiles
  <2>4. CASE ~Stable(first, Snapshot)
    BY <1>1, <2>1, <2>2, <2>4 DEF CommandsLeftFiles
  <2> QED
    BY <2>3, <2>4
<1>5. CASE /\ UNCHANGED <<commands, promotion, restart, run>>
           /\ harness' \in {"promote", "before", "restart"}
                => harness \in {"promote", "before", "restart"}
  BY <1>1, <1>5 DEF CommandsLeftFiles
<1>6. \/ HarnessStart \/ Promoted \/ CompareAfter
      \/ /\ UNCHANGED <<commands, promotion, restart, run>>
         /\ harness' \in {"promote", "before", "restart"}
              => harness \in {"promote", "before", "restart"}
  BY DEF vars, evidenceVars, Next, ScriptStart, ScriptRotates, ScriptRotated, ScriptStops,
         ScriptExisting, ScriptVerified, Promote, SnapshotBefore, CommandThrows, Export,
         ApplySettings, ScriptedStep, OtherStep
<1> QED
  BY <1>2, <1>3, <1>4, <1>5, <1>6

LEMMA RestartInv == EInv /\ [Next]_vars => RestartIsOfOneRealm'
<1> SUFFICES ASSUME EInv, [Next]_vars PROVE RestartIsOfOneRealm'
  OBVIOUS
<1>1. CASE CompareAfter
  <2>1. PICK first \in before :
          restart' = {[passed |-> Stable(first, Snapshot), run |-> run,
                       realms |-> {first.realm, epoch}]}
    BY <1>1 DEF CompareAfter
  <2>2. ASSUME Stable(first, Snapshot)
        PROVE  first.realm = epoch
    BY <1>1, <2>2, SameRealm DEF CompareAfter, Stable, Snapshot, Snapshots
  <2>3. Cardinality({epoch}) = 1
    BY FS_Singleton
  <2> QED
    BY <2>1, <2>2, <2>3 DEF RestartIsOfOneRealm
<1>2. CASE UNCHANGED restart
  BY <1>2 DEF EInv, RestartIsOfOneRealm
<1>3. CompareAfter \/ UNCHANGED restart
  BY DEF vars, evidenceVars, Next, ScriptStart, ScriptRotates, ScriptRotated, ScriptStops,
         ScriptExisting, ScriptVerified, HarnessStart, Promote, Promoted, SnapshotBefore,
         CommandThrows, Export, ApplySettings, ScriptedStep, OtherStep
<1> QED
  BY <1>1, <1>2, <1>3

LEMMA EvidenceInvariant == Spec => []EInv
<1>1. EInv /\ [Next]_vars => EInv'
  <2> SUFFICES ASSUME EInv, [Next]_vars PROVE EInv'
    OBVIOUS
  <2>1. RInv'
    BY StepRotates, StepInv DEF EInv
  <2>2. OneSnapshot'
    BY DEF EInv, OneSnapshot, vars, evidenceVars, Next, ScriptStart, ScriptRotates,
         ScriptRotated, ScriptStops, ScriptExisting, ScriptVerified, HarnessStart,
         Promote, Promoted, SnapshotBefore, CompareAfter, CommandThrows, Export,
         ApplySettings, ScriptedStep, OtherStep
  <2> QED
    BY <2>1, <2>2, SnapshotsInv, ResultInv, CommandsInv, RestartInv DEF EInv
<1> QED
  BY <1>1, EvidenceInit, PTL DEF Spec

-----------------------------------------------------------------------------
(* A restart comparison that passed (identity_evidence.py:115-145) saw one *)
(* realm throughout.                                                       *)
THEOREM RestartComparesOneRealm == Spec => []RestartIsOfOneRealm
<1>1. EInv => RestartIsOfOneRealm
  BY DEF EInv
<1> QED
  BY <1>1, EvidenceInvariant, PTL

(* A rotation the script marks as verified is of the realm it compared     *)
(* (Rotate-IdentitySigningKey.ps1:53-79).                                  *)
THEOREM VerifiedRotationSound == Spec => VerifiedRotationIsOfOneRealm
<1>1. ASSUME EInv, [Next]_vars, NEW f \in rotationFile' \ rotationFile,
             f.verified, f.straight
      PROVE  f.realm = epoch /\ \A first \in pre : first.realm = epoch
  <2>1. CASE ScriptVerified
    <3>1. PICK g \in rotationFile :
            f = [result |-> g.result, realm |-> g.realm, verified |-> TRUE,
                 straight |-> g.straight /\ script = "verify"]
      BY <1>1, <2>1 DEF ScriptVerified
    <3>2. script = "verify" /\ f.realm = g.realm
      BY <1>1, <3>1
    <3>3. SnapshotPossible /\ \E first \in pre : CertificatesOverlap(first, Snapshot)
      BY <2>1 DEF ScriptVerified
    <3>4. PICK first \in pre : first.keys \subseteq DOMAIN providers
      BY <3>3 DEF CertificatesOverlap, Snapshot
    <3>5. first.realm = epoch
      BY <1>1, <3>3, <3>4, SameRealm DEF Snapshots
    <3>6. g.realm \in Nat /\ g.realm <= epoch /\ epoch <= g.realm /\ epoch \in Nat
      BY <1>1, <3>2, <3>4, <3>5 DEF EInv, ResultAfterSnapshot, SnapshotsOfRealms
    <3>7. pre = {first}
      BY <1>1, <3>4 DEF EInv, OneSnapshot
    <3> QED
      BY <3>2, <3>5, <3>6, <3>7
  <2>2. CASE ScriptRotated
    BY <1>1, <2>2 DEF ScriptRotated
  <2>3. ScriptVerified \/ ScriptRotated
    BY <1>1 DEF vars, evidenceVars, Next, ScriptStart, ScriptRotates, ScriptStops,
         ScriptExisting, HarnessStart, Promote, Promoted, SnapshotBefore, CompareAfter,
         CommandThrows, Export, ApplySettings, ScriptedStep, OtherStep
  <2> QED
    BY <2>1, <2>2, <2>3
<1>2. EInv /\ [Next]_vars =>
        [\A f \in rotationFile' \ rotationFile : f.verified /\ f.straight =>
           /\ f.realm = epoch
           /\ \A first \in pre : first.realm = epoch]_vars
  BY <1>1
<1> QED
  BY <1>2, EvidenceInvariant, PTL DEF Spec, VerifiedRotationIsOfOneRealm

(* A passing manifest (identity_evidence.py:148-249) rests on a restart    *)
(* comparison and a promotion of its own harness run, for every catalog    *)
(* that requires the two commands.                                         *)
THEOREM ManifestSound == Spec => ManifestOfThisRun
<1>1. ASSUME EInv, [Next]_vars, NEW m \in manifest' \ manifest, m.passed
      PROVE  /\ \E r \in restart : r.passed /\ r.run = m.run
             /\ promotion = {[run |-> m.run]}
  <2>1. Export /\ m = Manifest
    BY <1>1 DEF vars, evidenceVars, Next, ScriptStart, ScriptRotates, ScriptRotated,
         ScriptStops, ScriptExisting, ScriptVerified, HarnessStart, Promote, Promoted,
         SnapshotBefore, CompareAfter, CommandThrows, Export, ApplySettings,
         ScriptedStep, OtherStep
  <2>2. m.run = run /\ \A s \in Catalog : s.required => ScenarioPassed(s)
    BY <1>1, <2>1 DEF Manifest, ScenarioStatus
  <2>3. ASSUME NEW s \in Catalog, s.required, NEW id, <<"command", id>> \in s.evidence
        PROVE  id \in commands
    BY <2>2, <2>3 DEF ScenarioPassed, EvidencePassed
  <2>4. "stable-promotion" \in commands /\ "restart-stability" \in commands
    BY <2>3, CatalogAssumption
  <2> QED
    BY <1>1, <2>2, <2>4 DEF EInv, CommandsLeftFiles
<1>2. EInv /\ [Next]_vars =>
        [\A m \in manifest' \ manifest : m.passed =>
           /\ \E r \in restart : r.passed /\ r.run = m.run
           /\ promotion = {[run |-> m.run]}]_vars
  BY <1>1
<1> QED
  BY <1>2, EvidenceInvariant, PTL DEF Spec, ManifestOfThisRun

-----------------------------------------------------------------------------
(* The shape of the state.                                                 *)

Single(file) == \A s, t \in file : s = t

LEMMA SingleSize ==
  ASSUME NEW file, Single(file)
  PROVE  Cardinality(file) <= 1
<1>1. CASE file = {}
  BY <1>1, FS_EmptySet
<1>2. ASSUME NEW s \in file PROVE Cardinality(file) <= 1
  <2>1. file = {s}
    BY <1>2 DEF Single
  <2> QED
    BY <2>1, FS_Singleton
<1> QED
  BY <1>1, <1>2

SingleFiles ==
  /\ Single(pre) /\ Single(rotationFile) /\ Single(promotion)
  /\ Single(before) /\ Single(restart) /\ Single(manifest)

\* where the scripts are, and where the scripted rotation is
Places ==
  /\ settings \in {"stable", "other"} /\ run \in 0 .. MaxRuns
  /\ harness \in {"idle", "promote", "before", "restart", "export", "ended"}
  /\ script \in {"idle", "start", "rotate", "verify", "existing"}
  /\ script \in {"verify", "existing"} => rotationFile # NoFile
  /\ script = "rotate" <=> at[Scripted] # "idle"

\* only its script moves the scripted rotation
LEMMA OthersKeepPlace ==
  ASSUME Shape, NEW r \in Rotations, r # Scripted, Rotate(r)
  PROVE  at'[Scripted] = at[Scripted]
  BY EvidenceAssumption
     DEF Shape, Rotate, Advance, Fails, ReadComponents, ReadKeys, PostProvider, SeeNewKey,
         Passivate, Check, WriteResult, GiveUp, CallFails, Exits, Goto

\* a rotation that advances stays between its first and its last step
LEMMA AdvanceStays ==
  ASSUME Shape, NEW r \in Rotations, Advance(r)
  PROVE  at[r] # "idle" /\ at'[r] # "idle"
  BY DEF Shape, Labels, Advance, ReadKeys, PostProvider, SeeNewKey, Passivate, Check, Goto

LEMMA FailsEnds ==
  ASSUME Shape, NEW r \in Rotations, Fails(r)
  PROVE  at'[r] = "idle"
  BY DEF Shape, Fails, GiveUp, CallFails, Exits, Goto

LEMMA FilesStaySingle ==
  ASSUME SingleFiles, [Next]_vars
  PROVE  SingleFiles'
<1>1. CASE ScriptVerified
  <2>1. \A f, g \in rotationFile : f = g
    BY DEF SingleFiles, Single
  <2>2. ASSUME NEW s \in rotationFile', NEW t \in rotationFile' PROVE s = t
    <3>1. PICK f \in rotationFile :
            s = [result |-> f.result, realm |-> f.realm, verified |-> TRUE,
                 straight |-> f.straight /\ script = "verify"]
      BY <1>1, <2>2 DEF ScriptVerified
    <3>2. PICK g \in rotationFile :
            t = [result |-> g.result, realm |-> g.realm, verified |-> TRUE,
                 straight |-> g.straight /\ script = "verify"]
      BY <1>1, <2>2 DEF ScriptVerified
    <3>3. f = g
      BY <2>1
    <3> QED
      BY <3>1, <3>2, <3>3
  <2>3. Single(rotationFile)'
    BY <2>2 DEF Single
  <2> QED
    BY <1>1, <2>3 DEF ScriptVerified, SingleFiles, Single
<1>2. CASE CompareAfter
  <2>1. Single(restart)'
    BY <1>2 DEF CompareAfter, Single
  <2> QED
    BY <1>2, <2>1 DEF CompareAfter, SingleFiles, Single, NoFile
<1>3. CASE \/ UNCHANGED vars \/ ScriptStart \/ ScriptRotates \/ ScriptRotated \/ ScriptStops
           \/ ScriptExisting \/ HarnessStart \/ Promote
  BY <1>3 DEF SingleFiles, Single, vars, evidenceVars, ScriptStart, ScriptRotates,
       ScriptRotated, ScriptStops, ScriptExisting, HarnessStart, Promote
<1>4. CASE \/ Promoted \/ SnapshotBefore \/ CommandThrows \/ Export
           \/ ApplySettings \/ ScriptedStep \/ OtherStep
  BY <1>4 DEF SingleFiles, Single, evidenceVars, NoFile, Promoted, SnapshotBefore,
       CommandThrows, Export, ApplySettings, ScriptedStep, OtherStep
<1> QED
  BY <1>1, <1>2, <1>3, <1>4 DEF Next

LEMMA PlacesKept ==
  ASSUME Shape, Places, [Next]_vars
  PROVE  Places'
<1> USE DEF Places, NoFile
<1>1. CASE UNCHANGED vars
  BY <1>1 DEF vars, rotVars, rotation, evidenceVars
<1>2. CASE ScriptStart
  BY <1>2 DEF ScriptStart, rotVars, rotation
<1>3. CASE ScriptRotates
  <2>1. at'[Scripted] = "keys"
    BY <1>3, EvidenceAssumption DEF Shape, ScriptRotates, ReadComponents, Goto
  <2> QED
    BY <1>3, <2>1 DEF ScriptRotates
<1>4. CASE ScriptRotated
  <2>1. at'[Scripted] = "idle"
    BY <1>4, EvidenceAssumption DEF Shape, ScriptRotated, WriteResult, Exits, Goto
  <2> QED
    BY <1>4, <2>1 DEF ScriptRotated
<1>5. CASE ScriptStops
  <2>1. at'[Scripted] = "idle"
    BY <1>5, FailsEnds, EvidenceAssumption DEF ScriptStops, rotVars, rotation
  <2> QED
    BY <1>5, <2>1 DEF ScriptStops
<1>6. CASE ScriptExisting \/ ScriptVerified
  BY <1>6 DEF ScriptExisting, ScriptVerified, rotVars, rotation
<1>7. CASE HarnessStart
  BY <1>7, EvidenceAssumption DEF HarnessStart, rotVars, rotation
<1>8. CASE Promote \/ ApplySettings
  BY <1>8 DEF Promote, ApplySettings, rotation
<1>9. CASE Promoted \/ SnapshotBefore \/ CompareAfter \/ CommandThrows \/ Export
  BY <1>9 DEF Promoted, SnapshotBefore, CompareAfter, CommandThrows, Export, rotVars, rotation
<1>10. CASE ScriptedStep
  BY <1>10, AdvanceStays, EvidenceAssumption DEF ScriptedStep, evidenceVars
<1>11. CASE OtherStep
  BY <1>11, OthersKeepPlace DEF OtherStep, evidenceVars
<1> QED
  BY <1>1, <1>2, <1>3, <1>4, <1>5, <1>6, <1>7, <1>8, <1>9, <1>10, <1>11 DEF Next

(* Every reachable state of the evidence chain is well typed: a file has   *)
(* one content, a result is there while its script verifies it, and the    *)
(* rotation of the script runs exactly while the script waits for it       *)
(* (Rotate-IdentitySigningKey.ps1:25-79).                                  *)
THEOREM EvidenceTypeCorrect == Spec => []TypeOK
<1>1. Init => SingleFiles /\ Places
  BY EvidenceAssumption DEF Init, RotInit, SingleFiles, Single, Places, NoFile
<1>2. SingleFiles /\ Places /\ EInv /\ [Next]_vars => (SingleFiles /\ Places)'
  BY FilesStaySingle, PlacesKept DEF EInv, RInv
<1>3. SingleFiles /\ Places /\ EInv => TypeOK
  BY SingleSize DEF SingleFiles, Places, EInv, RInv, Shape, Labels, TypeOK
<1> QED
  BY <1>1, <1>2, <1>3, EvidenceInvariant, PTL DEF Spec
=============================================================================
