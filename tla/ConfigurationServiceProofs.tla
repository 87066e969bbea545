---------------------- MODULE ConfigurationServiceProofs ----------------------
(***************************************************************************)
(* Proofs about ConfigurationService for every set of request threads,     *)
(* realm keys, edges and profiles, and every value of the bounds.          *)
(*                                                                         *)
(* The inductive invariant adds to the type invariant and the lock         *)
(* discipline what the lock holder knows at each stage of a replacement:   *)
(* the content it generated is still what the files describe, and from the *)
(* creation of the realm on Keycloak holds exactly that content.           *)
(***************************************************************************)
EXTENDS ConfigurationRecorded, TLAPS

(* The stages of an operation after its generation, under the lock.        *)
GeneratedLabels ==
  {"writePending", "installPending", "deletePrevious", "deleteKey", "post",
   "scopes", "health", "writeApplied", "installApplied", "lockedVerify",
   "lockedRecord", "succeeded"}

(* The stages after the Account Console scopes are attached.               *)
ScopedLabels ==
  {"health", "writeApplied", "installApplied", "lockedVerify", "lockedRecord",
   "succeeded"}

(* The stages after the realm was found healthy.                           *)
HealthyLabels == ScopedLabels \ {"health"}

Stage(t) ==
  /\ pc[t] \in GeneratedLabels =>
       /\ job[t].built = generated
       /\ generated.overlay = overlay
  /\ pc[t] = "scopes" =>
       realms[job[t].settings.key] = [content |-> job[t].built, scoped |-> FALSE]
  /\ pc[t] \in ScopedLabels =>
       realms[job[t].settings.key] = [content |-> job[t].built, scoped |-> TRUE]
  /\ pc[t] \in HealthyLabels => job[t].settings.edge = edge

(* The route of an operation: Save never comes to the lock, only Save      *)
(* reads the document outside it, and the reconciliation thread does       *)
(* nothing but reconcile.                                                  *)
Route(t) ==
  /\ pc[t] \in LockedLabels \union {"acquire", "sleep"} => job[t].op # "save"
  /\ pc[t] = "loadUnlocked" => job[t].op = "save"
  /\ t = Reconciler => job[t].op = "reconcile"

IInv ==
  /\ TypeOK
  /\ LockDiscipline
  /\ \A t \in Threads : Route(t)
  /\ \A t \in Threads : Stage(t)

-----------------------------------------------------------------------------
(* The inputs a realm is generated from determine a well-formed content.   *)
LEMMA BuiltType ==
  ASSUME NEW settings \in Settings, NEW p \in Profiles, NEW o \in Nat
  PROVE  Built(settings, p, o) \in Content
BY DEF Built, Content, Settings

LEMMA FreshJobType ==
  ASSUME NEW op \in AllOps \union {"none", "reconcile"}
  PROVE  FreshJob(op) \in Job /\ FreshJob(op).op = op
<1>1. Built(DefaultSettings, DefaultProfile, 0) \in Content
  BY BuiltType, ConfigurationAssumption
<1>2. DefaultSettings.key \in Keys
  BY ConfigurationAssumption DEF Settings
<1>3. DefaultSettings \in Settings /\ DefaultProfile \in Profiles
  BY ConfigurationAssumption
<1>4. ASSUME NEW s \in Settings, NEW p \in Profiles, NEW k \in Keys, NEW c \in Content
      PROVE  [op |-> op, settings |-> s, profile |-> p, applied |-> k, built |-> c] \in Job
  BY DEF Job
<1>5. QED
  BY <1>1, <1>2, <1>3, <1>4 DEF FreshJob

LEMMA InitIInv == Init => IInv
<1> SUFFICES ASSUME Init PROVE IInv
  OBVIOUS
<1>1. TypeOK
  <2>1. /\ document \in Document
        /\ temporary \in Document \union {NoFile}
        /\ verification \in Result \union {NoFile}
        /\ edge \in Edges
    BY ConfigurationAssumption DEF Init, Document, Settings
  <2>2. generated \in Content
    BY BuiltType, ConfigurationAssumption DEF Init
  <2>3. realms \in [Keys -> Realm \union {NoRealm}]
    BY <2>2 DEF Init, Realm
  <2>4. pc \in [Threads -> LockedLabels \union FreeLabels]
    BY DEF Init, LockedLabels, FreeLabels
  <2>5. job \in [Threads -> Job]
    BY FreshJobType DEF Init, NoJob
  <2>6. /\ profile \in Profiles
        /\ lock \in Threads \union {NoThread}
        /\ reconciled \in BOOLEAN
    BY ConfigurationAssumption DEF Init
  <2>7. /\ overlay \in Nat
        /\ attempts \in Nat
        /\ requests \in 0..MaxRequests
        /\ faults \in 0..MaxFaults
        /\ restarts \in 0..MaxRestarts
    BY ConfigurationAssumption DEF Init
  <2>8. QED
    BY <2>1, <2>2, <2>3, <2>4, <2>5, <2>6, <2>7 DEF TypeOK
<1>2. LockDiscipline
  BY ConfigurationAssumption DEF Init, LockDiscipline, LockedLabels, Threads
<1>3. ASSUME NEW t \in Threads PROVE Route(t) /\ Stage(t)
  BY FreshJobType, ConfigurationAssumption
  DEF Init, Route, Stage, LockedLabels, GeneratedLabels, ScopedLabels,
      HealthyLabels, NoJob, Threads
<1>4. QED
  BY <1>1, <1>2, <1>3 DEF IInv

-----------------------------------------------------------------------------
(* Type correctness.  The part about the threads is proved first: every    *)
(* step of a thread either moves to a label, or leaves its operation.      *)
ThreadsOK ==
  /\ lock \in Threads \union {NoThread}
  /\ pc \in [Threads -> LockedLabels \union FreeLabels]
  /\ job \in [Threads -> Job]

LEMMA MoveType ==
  ASSUME ThreadsOK, NEW t \in Threads, NEW label \in LockedLabels \union FreeLabels,
         Goto(t, label), UNCHANGED <<lock, job>>
  PROVE  ThreadsOK'
BY DEF ThreadsOK, Goto

LEMMA LeaveType ==
  ASSUME ThreadsOK, NEW t \in Threads, Leave(t)
  PROVE  ThreadsOK'
<1>1. NoJob \in Job
  BY FreshJobType DEF NoJob
<1>2. job' \in [Threads -> Job]
  BY <1>1 DEF ThreadsOK, Leave
<1>3. pc' \in [Threads -> LockedLabels \union FreeLabels]
  BY DEF ThreadsOK, Leave, Goto, FreeLabels
<1>4. lock' \in Threads \union {NoThread}
  BY DEF ThreadsOK, Leave
<1>5. QED
  BY <1>2, <1>3, <1>4 DEF ThreadsOK

LEMMA RestartType ==
  ASSUME ThreadsRestarted
  PROVE  ThreadsOK' /\ reconciled' \in BOOLEAN /\ attempts' \in Nat
<1>1. NoJob \in Job /\ FreshJob("reconcile") \in Job
  BY FreshJobType DEF NoJob
<1>2. QED
  BY <1>1 DEF ThreadsRestarted, ThreadsOK, FreeLabels

LEMMA FaultType ==
  ASSUME TypeOK, NEW t \in Threads, Fail(t)
  PROVE  ThreadsOK' /\ faults' \in 0..MaxFaults
<1>1. ThreadsOK'
  BY LeaveType DEF Fail, TypeOK, ThreadsOK
<1>2. faults' \in 0..MaxFaults
  BY ConfigurationAssumption DEF Fail, TypeOK
<1>3. QED
  BY <1>1, <1>2

LEMMA TypeStep ==
  ASSUME IInv, NEW t \in Threads, Step(t)
  PROVE  TypeOK'
<1> USE ConfigurationAssumption DEF files, counters
<1>0. TypeOK /\ ThreadsOK
  BY DEF IInv, TypeOK, ThreadsOK
<1>1. CASE Acquire(t)
  BY <1>0, <1>1 DEF Acquire, TypeOK, Goto, LockedLabels, FreeLabels
<1>2. CASE WriteOverlay(t)
  BY <1>0, <1>2 DEF WriteOverlay, TypeOK, Goto, LockedLabels
<1>3. CASE Load(t)
  <2>1. PICK k \in Keys, s \in Settings :
          job' = [job EXCEPT ![t].applied = k, ![t].settings = s]
    BY <1>0, <1>3 DEF Load, TypeOK, Document, Job
  <2>2. job' \in [Threads -> Job]
    BY <1>0, <2>1 DEF TypeOK, Job
  <2>3. pc' \in [Threads -> LockedLabels \union FreeLabels]
    BY <1>0, <1>3 DEF Load, TypeOK, Goto, LockedLabels, FreeLabels
  <2>4. ThreadsOK'
    BY <1>0, <1>3, <2>2, <2>3 DEF Load, ThreadsOK
  <2>5. QED
    BY <1>0, <1>3, <2>4 DEF Load, TypeOK, ThreadsOK
<1>4. CASE WriteProfile(t)
  BY <1>0, <1>4 DEF WriteProfile, TypeOK, Goto, Job, LockedLabels, FreeLabels
<1>5. CASE ClearVerification(t)
  <2>1. ThreadsOK'
    BY <1>0, <1>5, LeaveType, MoveType DEF ClearVerification, LockedLabels
  <2>2. QED
    BY <1>0, <1>5, <2>1 DEF ClearVerification, TypeOK, ThreadsOK
<1>6. CASE Generate(t)
  <2> DEFINE content == Built(job[t].settings,
                              IF job[t].op = "applyProfile" THEN job[t].profile
                              ELSE profile, overlay)
  <2>1. content \in Content
    BY <1>0, BuiltType DEF TypeOK, Job
  <2> HIDE DEF content
  <2>2. CASE /\ generated' = content
             /\ job' = [job EXCEPT ![t].built = content]
             /\ Goto(t, IF job[t].op = "apply" THEN "writePending" ELSE FirstDelete(t))
             /\ UNCHANGED <<lock, faults>>
    <3>1. ThreadsOK'
      BY <1>0, <2>1, <2>2 DEF ThreadsOK, Goto, FirstDelete, Job, LockedLabels
    <3>2. QED
      BY <1>0, <1>6, <2>1, <2>2, <3>1 DEF Generate, TypeOK, ThreadsOK
  <2>3. CASE Fail(t) /\ UNCHANGED generated
    BY <1>0, <1>6, <2>3, FaultType DEF Generate, TypeOK, ThreadsOK
  <2>4. QED
    BY <1>6, <2>2, <2>3 DEF Generate, content
<1>7. CASE WriteTemporary(t)
  <2>1. NewDocument(t) \in Document
    BY <1>0, <1>7 DEF WriteTemporary, NewDocument, TypeOK, Document, Job, Settings
  <2>2. ThreadsOK'
    BY <1>0, <1>7 DEF WriteTemporary, ThreadsOK, Goto, LockedLabels, FreeLabels
  <2>3. QED
    BY <1>0, <1>7, <2>1, <2>2 DEF WriteTemporary, TypeOK, ThreadsOK
<1>8. CASE Install(t)
  <2>1. CASE InstallSucceeds(t)
    <3>1. ThreadsOK'
      BY <1>0, <1>8, <2>1, LeaveType, MoveType
      DEF Install, InstallSucceeds, FirstDelete, LockedLabels
    <3>2. QED
      BY <1>0, <1>8, <2>1, <3>1 DEF Install, InstallSucceeds, TypeOK, ThreadsOK
  <2>2. CASE InstallRaises(t)
    <3>1. NoJob \in Job
      BY FreshJobType DEF NoJob
    <3>2. ThreadsOK'
      BY <1>0, <2>2, <3>1 DEF InstallRaises, ThreadsOK, Goto, FreeLabels
    <3>3. QED
      BY <1>0, <1>8, <2>2, <3>2 DEF Install, InstallRaises, TypeOK, ThreadsOK
  <2>3. QED
    BY <1>8, <2>1, <2>2 DEF Install
<1>9. CASE DeletePrevious(t) \/ DeleteKey(t)
  <2> DEFINE key  == IF pc[t] = "deletePrevious" THEN job[t].applied
                     ELSE job[t].settings.key
             next == IF pc[t] = "deletePrevious" THEN "deleteKey" ELSE "post"
  <2>1. DeleteRealm(t, key, next)
    BY <1>9 DEF DeletePrevious, DeleteKey
  <2> HIDE DEF key
  <2>2. realms' \in [Keys -> Realm \union {NoRealm}]
    BY <1>0, <2>1 DEF DeleteRealm, TypeOK
  <2>3. ThreadsOK' /\ faults' \in 0..MaxFaults
    BY <1>0, <2>1, MoveType, FaultType DEF DeleteRealm, LockedLabels, TypeOK
  <2>4. QED
    BY <1>0, <2>1, <2>2, <2>3 DEF DeleteRealm, TypeOK, ThreadsOK
<1>10. CASE PostRealm(t)
  <2>1. [content |-> job[t].built, scoped |-> FALSE] \in Realm
    BY <1>0 DEF TypeOK, Job, Realm
  <2>2. realms' \in [Keys -> Realm \union {NoRealm}]
    BY <1>0, <1>10, <2>1 DEF PostRealm, TypeOK
  <2>3. ThreadsOK' /\ faults' \in 0..MaxFaults
    BY <1>0, <1>10, MoveType, FaultType, LeaveType DEF PostRealm, LockedLabels, TypeOK
  <2>4. QED
    BY <1>0, <1>10, <2>2, <2>3 DEF PostRealm, TypeOK, ThreadsOK
<1>11. CASE AttachScopes(t)
  <2> DEFINE key == job[t].settings.key
  <2>1. key \in Keys /\ job[t].built \in Content
    BY <1>0 DEF TypeOK, Job, Settings
  <2>2. realms[key] = [content |-> job[t].built, scoped |-> FALSE]
    BY <1>11 DEF AttachScopes, IInv, Stage
  <2>3. realms' = realms \/ realms' = [realms EXCEPT ![key] = Scoped(@)]
    BY <1>11 DEF AttachScopes
  <2> HIDE DEF key
  <2>4. Scoped(realms[key]) = [content |-> job[t].built, scoped |-> TRUE]
    BY <2>2 DEF Scoped
  <2>5. [content |-> job[t].built, scoped |-> TRUE] \in Realm
    BY <2>1 DEF Realm
  <2>6. realms' \in [Keys -> Realm \union {NoRealm}]
    BY <1>0, <2>1, <2>3, <2>4, <2>5 DEF TypeOK
  <2>7. ThreadsOK' /\ faults' \in 0..MaxFaults
    BY <1>0, <1>11, MoveType, FaultType DEF AttachScopes, LockedLabels, TypeOK
  <2>8. QED
    BY <1>0, <1>11, <2>6, <2>7 DEF AttachScopes, TypeOK, ThreadsOK
<1>12. CASE AwaitHealth(t)
  <2>1. ThreadsOK' /\ faults' \in 0..MaxFaults
    BY <1>0, <1>12, MoveType, FaultType, LeaveType DEF AwaitHealth, LockedLabels, TypeOK
  <2>2. QED
    BY <1>0, <1>12, <2>1 DEF AwaitHealth, TypeOK, ThreadsOK
<1>13. CASE Succeed(t)
  <2>1. NoJob \in Job
    BY FreshJobType DEF NoJob
  <2>2. ThreadsOK'
    BY <1>0, <1>13, <2>1 DEF Succeed, ThreadsOK, Goto, FreeLabels
  <2>3. QED
    BY <1>0, <1>13, <2>2 DEF Succeed, TypeOK, ThreadsOK
<1>14. CASE Verify(t)
  <2>1. ThreadsOK'
    BY <1>0, <1>14 DEF Verify, TypeOK, ThreadsOK, Goto, Job, LockedLabels, FreeLabels
  <2>2. QED
    BY <1>0, <1>14, <2>1 DEF Verify, TypeOK, ThreadsOK
<1>15. CASE RecordVerification(t)
  <2> DEFINE verified == job[t].built.profile
  <2>0. verified \in Profiles
    BY <1>0 DEF TypeOK, Job, Content
  <2> HIDE DEF verified
  <2>1. verification' \in Result
    <3>1. PICK passed \in {FALSE, Serves(job[t].built)} :
            verification' = [profile |-> verified, passed |-> passed]
      BY <1>15 DEF RecordVerification, verified
    <3>2. passed \in BOOLEAN
      BY <3>1 DEF Serves
    <3>3. QED
      BY <2>0, <3>1, <3>2 DEF Result
  <2>2. ThreadsOK'
    BY <1>0, <1>15, MoveType, LeaveType DEF RecordVerification, LockedLabels
  <2>3. QED
    BY <1>0, <1>15, <2>1, <2>2 DEF RecordVerification, TypeOK, ThreadsOK
<1>16. CASE EnsureAccess(t)
  <2>1. realms' \in [Keys -> Realm \union {NoRealm}]
    <3> DEFINE key == job[t].settings.key
    <3>1. key \in Keys
      BY <1>0 DEF TypeOK, Job, Settings
    <3>2. \/ realms' = realms
          \/ realms[key] # NoRealm /\ realms' = [realms EXCEPT ![key] = Scoped(@)]
      BY <1>16 DEF EnsureAccess
    <3> HIDE DEF key
    <3>3. ASSUME realms[key] # NoRealm
          PROVE  Scoped(realms[key]) \in Realm
      <4>1. realms[key] \in Realm
        BY <1>0, <3>1, <3>3 DEF TypeOK
      <4>2. QED
        BY <4>1 DEF Realm, Scoped
    <3>4. QED
      BY <1>0, <3>1, <3>2, <3>3 DEF TypeOK
  <2>2. ThreadsOK' /\ faults' \in 0..MaxFaults /\ reconciled' \in BOOLEAN
    BY <1>0, <1>16, FaultType, LeaveType
    DEF EnsureAccess, TypeOK, ThreadsOK, Goto, FreeLabels
  <2>3. QED
    BY <1>0, <1>16, <2>1, <2>2 DEF EnsureAccess, TypeOK, ThreadsOK
<1>17. CASE Sleep(t)
  <2>1. ThreadsOK'
    BY <1>0, <1>17 DEF Sleep, ThreadsOK, Goto, FreeLabels
  <2>2. QED
    BY <1>0, <1>17, <2>1 DEF Sleep, TypeOK, ThreadsOK
<1>18. QED
  BY <1>1, <1>2, <1>3, <1>4, <1>5, <1>6, <1>7, <1>8, <1>9, <1>10, <1>11, <1>12,
     <1>13, <1>14, <1>15, <1>16, <1>17
  DEF Step, Replace

LEMMA TypeBegin ==
  ASSUME TypeOK, NEW t \in Threads, Begin(t)
  PROVE  TypeOK'
<1> USE ConfigurationAssumption DEF files, counters
<1>1. PICK request \in Requests :
        job' = [job EXCEPT ![t] = request] /\ Goto(t, FirstLabel(request.op))
  BY DEF Begin
<1>2. request \in Job
  <2>1. NoJob \in Job
    BY FreshJobType DEF NoJob
  <2>2. NoJob.applied \in Keys /\ NoJob.built \in Content
    BY <2>1 DEF Job
  <2>3. QED
    BY <1>1, <2>2 DEF Requests, Job
<1>3. FirstLabel(request.op) \in FreeLabels
  BY DEF FirstLabel, FreeLabels
<1>4. requests' \in 0..MaxRequests
  BY DEF Begin, TypeOK
<1>5. job' \in [Threads -> Job] /\ pc' \in [Threads -> LockedLabels \union FreeLabels]
  BY <1>1, <1>2, <1>3 DEF TypeOK, Goto
<1>6. QED
  BY <1>4, <1>5 DEF Begin, TypeOK

(* What Keycloak imports at a start is a realm of the generated content.   *)
LEMMA ImportedType ==
  ASSUME TypeOK, NEW content \in Content
  PROVE  Imported(content) \in [Keys -> Realm \union {NoRealm}]
<1>1. content.key \in Keys /\ [content |-> content, scoped |-> FALSE] \in Realm
  BY DEF Content, Realm
<1>2. QED
  BY <1>1 DEF Imported, TypeOK

LEMMA TypeRestart ==
  ASSUME TypeOK, Restart
  PROVE  TypeOK'
<1> USE ConfigurationAssumption DEF files, counters
<1>1. restarts' \in 0..MaxRestarts
  BY DEF Restart, ServiceRestart, KeycloakRestart, StackRestart, Restarting, TypeOK
<1>2. CASE ServiceRestart
  <2>1. ThreadsOK' /\ reconciled' \in BOOLEAN /\ attempts' \in Nat
    BY <1>2, RestartType DEF ServiceRestart
  <2>2. QED
    BY <1>1, <1>2, <2>1 DEF ServiceRestart, Restarting, TypeOK, ThreadsOK
<1>3. CASE KeycloakRestart
  <2>1. realms' \in [Keys -> Realm \union {NoRealm}]
    BY <1>3, ImportedType DEF KeycloakRestart, TypeOK
  <2>2. QED
    BY <1>1, <1>3, <2>1 DEF KeycloakRestart, Restarting, TypeOK
<1>4. CASE StackRestart
  <2>1. ThreadsOK' /\ reconciled' \in BOOLEAN /\ attempts' \in Nat
    BY <1>4, RestartType DEF StackRestart
  <2>2. generated' \in Content /\ edge' \in Edges
    <3>1. document.settings \in Settings /\ profile \in Profiles /\ overlay \in Nat
      BY DEF TypeOK, Document
    <3>2. QED
      BY <1>4, <3>1, BuiltType DEF StackRestart, Settings
  <2>3. realms' \in [Keys -> Realm \union {NoRealm}]
    BY <1>4, <2>2, ImportedType DEF StackRestart
  <2>4. QED
    BY <1>1, <1>4, <2>1, <2>2, <2>3 DEF StackRestart, Restarting, TypeOK, ThreadsOK
<1>5. QED
  BY <1>2, <1>3, <1>4 DEF Restart

-----------------------------------------------------------------------------
(* The lock.  A thread keeps it while it moves between two labels of the   *)
(* same kind, and gives it back when it comes to a free label.             *)
LEMMA KeepsLock ==
  ASSUME IInv, NEW t \in Threads, NEW label, Goto(t, label), lock' = lock,
         pc[t] \in LockedLabels <=> label \in LockedLabels
  PROVE  LockDiscipline'
BY DEF IInv, TypeOK, LockDiscipline, Goto

LEMMA ReleasesLock ==
  ASSUME IInv, NEW t \in Threads, NEW label, Goto(t, label),
         lock' = IF lock = t THEN NoThread ELSE lock,
         label \notin LockedLabels
  PROVE  LockDiscipline'
<1>1. NoThread \notin Threads
  BY ConfigurationAssumption
<1>2. QED
  BY <1>1 DEF IInv, TypeOK, LockDiscipline, Goto

LEMMA LeaveReleases ==
  ASSUME IInv, NEW t \in Threads, Leave(t)
  PROVE  LockDiscipline'
<1>1. (IF t = Reconciler THEN "sleep" ELSE "idle") \notin LockedLabels
  BY DEF LockedLabels
<1>2. QED
  BY <1>1, ReleasesLock DEF Leave

LEMMA LockStep ==
  ASSUME IInv, NEW t \in Threads, Step(t)
  PROVE  LockDiscipline'
<1>0. lock = t <=> pc[t] \in LockedLabels
  BY DEF IInv, LockDiscipline
<1>1. CASE Acquire(t)
  <2>1. NoThread \notin Threads
    BY ConfigurationAssumption
  <2>2. pc' = [pc EXCEPT ![t] = pc'[t]] /\ pc'[t] \in LockedLabels /\ lock' = t
    BY <1>1 DEF IInv, TypeOK, Acquire, Goto, LockedLabels
  <2>3. \A u \in Threads : pc[u] \notin LockedLabels
    BY <1>1, <2>1 DEF IInv, LockDiscipline, Acquire
  <2>4. QED
    BY <2>2, <2>3 DEF IInv, TypeOK, LockDiscipline
<1>2. CASE WriteOverlay(t)
  BY <1>2, KeepsLock DEF WriteOverlay, LockedLabels
<1>3. CASE Load(t)
  <2>1. pc[t] = "load" => job[t].op # "save"
    BY DEF IInv, Route, LockedLabels
  <2>2. pc[t] = "loadUnlocked" => job[t].op = "save"
    BY DEF IInv, Route
  <2> DEFINE next ==
        CASE job[t].op = "save"         -> "writeSaved"
          [] job[t].op = "applyProfile" -> "profile"
          [] job[t].op = "reconcile" /\ ~document.pending -> "ensure"
          [] OTHER                      -> "generate"
  <2>3. Goto(t, next) /\ lock' = lock /\ pc[t] \in {"load", "loadUnlocked"}
    BY <1>3 DEF Load
  <2>4. pc[t] \in LockedLabels <=> next \in LockedLabels
    BY <2>1, <2>2, <2>3 DEF LockedLabels
  <2> HIDE DEF next
  <2>5. QED
    BY <2>3, <2>4, KeepsLock
<1>4. CASE WriteProfile(t)
  <2>1. CASE pc[t] = "profile"
    BY <1>4, <2>1, KeepsLock DEF WriteProfile, LockedLabels
  <2>2. CASE pc[t] = "profileUnlocked"
    BY <1>4, <2>2, KeepsLock DEF WriteProfile, LockedLabels
  <2>3. QED
    BY <1>4, <2>1, <2>2 DEF WriteProfile
<1>5. CASE ClearVerification(t)
  BY <1>5, KeepsLock, LeaveReleases DEF ClearVerification, LockedLabels
<1>6. CASE Generate(t)
  <2>1. pc[t] \in LockedLabels /\ FirstDelete(t) \in LockedLabels
        /\ "writePending" \in LockedLabels
    BY <1>6 DEF Generate, FirstDelete, LockedLabels
  <2>2. \/ Goto(t, IF job[t].op = "apply" THEN "writePending" ELSE FirstDelete(t))
           /\ lock' = lock
        \/ Leave(t)
    BY <1>6 DEF Generate, Fail
  <2>3. QED
    BY <2>1, <2>2, KeepsLock, LeaveReleases
<1>7. CASE WriteTemporary(t)
  <2>1. CASE pc[t] = "writeSaved"
    BY <1>7, <2>1, KeepsLock DEF WriteTemporary, LockedLabels
  <2>2. CASE pc[t] = "writePending"
    BY <1>7, <2>2, KeepsLock DEF WriteTemporary, LockedLabels
  <2>3. CASE pc[t] = "writeApplied"
    BY <1>7, <2>3, KeepsLock DEF WriteTemporary, LockedLabels
  <2>4. QED
    BY <1>7, <2>1, <2>2, <2>3 DEF WriteTemporary
<1>8. CASE Install(t)
  <2>1. CASE InstallSucceeds(t)
    <3>1. FirstDelete(t) \in LockedLabels /\ "succeeded" \in LockedLabels
          /\ "installPending" \in LockedLabels /\ "installApplied" \in LockedLabels
      BY DEF FirstDelete, LockedLabels
    <3>2. CASE pc[t] = "installSaved"
      BY <2>1, <3>2, LeaveReleases DEF InstallSucceeds
    <3>3. CASE pc[t] = "installPending"
      BY <2>1, <3>1, <3>3, KeepsLock, LeaveReleases DEF InstallSucceeds
    <3>4. CASE pc[t] = "installApplied"
      BY <2>1, <3>1, <3>4, KeepsLock DEF InstallSucceeds
    <3>5. QED
      BY <1>8, <3>2, <3>3, <3>4 DEF Install
  <2>2. CASE InstallRaises(t)
    <3>1. (IF t = Reconciler THEN "finished" ELSE "idle") \notin LockedLabels
      BY DEF LockedLabels
    <3>2. QED
      BY <2>2, <3>1, ReleasesLock DEF InstallRaises
  <2>3. QED
    BY <1>8, <2>1, <2>2 DEF Install
<1>9. CASE DeletePrevious(t)
  BY <1>9, KeepsLock, LeaveReleases DEF DeletePrevious, DeleteRealm, Fail, LockedLabels
<1>10. CASE DeleteKey(t)
  BY <1>10, KeepsLock, LeaveReleases DEF DeleteKey, DeleteRealm, Fail, LockedLabels
<1>11. CASE PostRealm(t)
  BY <1>11, KeepsLock, LeaveReleases DEF PostRealm, Fail, LockedLabels
<1>12. CASE AttachScopes(t)
  BY <1>12, KeepsLock, LeaveReleases DEF AttachScopes, Fail, LockedLabels
<1>13. CASE AwaitHealth(t)
  <2>1. \/ \E label \in {"writeApplied", "lockedVerify", "succeeded"} :
             Goto(t, label) /\ lock' = lock
        \/ Leave(t)
    BY <1>13 DEF AwaitHealth, Fail
  <2>2. {"health", "writeApplied", "lockedVerify", "succeeded"} \subseteq LockedLabels
    BY DEF LockedLabels
  <2>3. QED
    BY <1>13, <2>1, <2>2, KeepsLock, LeaveReleases DEF AwaitHealth
<1>14. CASE Succeed(t)
  <2>1. pc[t] \in LockedLabels
    BY <1>14 DEF Succeed, LockedLabels
  <2>2. (IF t = Reconciler THEN "finished" ELSE "idle") \notin LockedLabels
    BY DEF LockedLabels
  <2>3. QED
    BY <1>0, <1>14, <2>1, <2>2, ReleasesLock DEF Succeed
<1>15. CASE Verify(t)
  <2>1. CASE pc[t] = "verify"
    BY <1>15, <2>1, KeepsLock DEF Verify, LockedLabels
  <2>2. CASE pc[t] = "lockedVerify"
    BY <1>15, <2>2, KeepsLock DEF Verify, LockedLabels
  <2>3. QED
    BY <1>15, <2>1, <2>2 DEF Verify
<1>16. CASE RecordVerification(t)
  BY <1>16, KeepsLock, LeaveReleases DEF RecordVerification, LockedLabels
<1>17. CASE EnsureAccess(t)
  <2>1. CASE Leave(t)
    BY <2>1, LeaveReleases
  <2>2. CASE lock' = NoThread /\ Goto(t, "finished")
    <3>1. pc[t] \in LockedLabels /\ "finished" \notin LockedLabels
      BY <1>17 DEF EnsureAccess, LockedLabels
    <3>2. QED
      BY <1>0, <2>2, <3>1, ReleasesLock
  <2>3. QED
    BY <1>17, <2>1, <2>2 DEF EnsureAccess, Fail
<1>18. CASE Sleep(t)
  <2>1. \E label \in {"finished", "acquire"} : Goto(t, label)
    BY <1>18 DEF Sleep
  <2>2. QED
    BY <1>18, <2>1, KeepsLock DEF Sleep, LockedLabels
<1>19. QED
  BY <1>1, <1>2, <1>3, <1>4, <1>5, <1>6, <1>7, <1>8, <1>9, <1>10, <1>11, <1>12,
     <1>13, <1>14, <1>15, <1>16, <1>17, <1>18
  DEF Step, Replace

-----------------------------------------------------------------------------
(* What a step of one thread leaves to the others: their labels and local  *)
(* variables always; and, without the lock, all that Stage speaks of.      *)
LEMMA Frame ==
  ASSUME IInv, NEW t \in Threads, Step(t), NEW u \in Threads \ {t}
  PROVE  /\ pc'[u] = pc[u] /\ job'[u] = job[u] /\ edge' = edge
         /\ pc[t] \notin LockedLabels => UNCHANGED <<generated, overlay, realms>>
<1> USE DEF files, counters
<1>1. pc \in [Threads -> LockedLabels \union FreeLabels] /\ job \in [Threads -> Job]
  BY DEF IInv, TypeOK
<1>2. CASE Acquire(t)
  BY <1>1, <1>2 DEF Acquire, Goto
<1>3. CASE WriteOverlay(t)
  BY <1>1, <1>3 DEF WriteOverlay, Goto, LockedLabels
<1>4. CASE Load(t)
  BY <1>1, <1>4 DEF Load, Goto
<1>5. CASE WriteProfile(t)
  BY <1>1, <1>5 DEF WriteProfile, Goto
<1>6. CASE ClearVerification(t)
  BY <1>1, <1>6 DEF ClearVerification, Leave, Goto
<1>7. CASE Generate(t)
  BY <1>1, <1>7 DEF Generate, Fail, Leave, Goto, LockedLabels
<1>8. CASE WriteTemporary(t)
  BY <1>1, <1>8 DEF WriteTemporary, Goto
<1>9. CASE Install(t)
  BY <1>1, <1>9 DEF Install, InstallSucceeds, InstallRaises, Leave, Goto
<1>10. CASE DeletePrevious(t) \/ DeleteKey(t)
  BY <1>1, <1>10 DEF DeletePrevious, DeleteKey, DeleteRealm, Fail, Leave, Goto, LockedLabels
<1>11. CASE PostRealm(t)
  BY <1>1, <1>11 DEF PostRealm, Fail, Leave, Goto, LockedLabels
<1>12. CASE AttachScopes(t)
  BY <1>1, <1>12 DEF AttachScopes, Fail, Leave, Goto, LockedLabels
<1>13. CASE AwaitHealth(t)
  BY <1>1, <1>13 DEF AwaitHealth, Fail, Leave, Goto
<1>14. CASE Succeed(t)
  BY <1>1, <1>14 DEF Succeed, Goto
<1>15. CASE Verify(t)
  BY <1>1, <1>15 DEF Verify, Goto
<1>16. CASE RecordVerification(t)
  BY <1>1, <1>16 DEF RecordVerification, Leave, Goto
<1>17. CASE EnsureAccess(t)
  BY <1>1, <1>17 DEF EnsureAccess, Fail, Leave, Goto, LockedLabels
<1>18. CASE Sleep(t)
  BY <1>1, <1>18 DEF Sleep, Goto
<1>19. QED
  BY <1>2, <1>3, <1>4, <1>5, <1>6, <1>7, <1>8, <1>9, <1>10, <1>11, <1>12, <1>13,
     <1>14, <1>15, <1>16, <1>17, <1>18
  DEF Step, Replace

(* So the stage another thread is at is not disturbed: if it matters, that *)
(* thread holds the lock and the stepping one does not.                    *)
LEMMA OthersUndisturbed ==
  ASSUME IInv, NEW t \in Threads, Step(t), NEW u \in Threads \ {t}
  PROVE  Route(u)' /\ Stage(u)'
<1>1. pc'[u] = pc[u] /\ job'[u] = job[u] /\ edge' = edge
  BY Frame
<1>2. Route(u) /\ Stage(u)
  BY DEF IInv
<1>3. Route(u)'
  BY <1>1, <1>2 DEF Route
<1>4. CASE pc[u] \in GeneratedLabels
  <2>1. lock = u
    BY <1>4 DEF IInv, LockDiscipline, GeneratedLabels, LockedLabels
  <2>2. pc[t] \notin LockedLabels
    BY <2>1 DEF IInv, LockDiscipline
  <2>3. UNCHANGED <<generated, overlay, realms>>
    BY <2>2, Frame
  <2>4. Stage(u)'
    BY <1>1, <1>2, <2>3 DEF Stage
  <2>5. QED
    BY <1>3, <2>4
<1>5. CASE pc[u] \notin GeneratedLabels
  BY <1>1, <1>3, <1>5 DEF Stage, GeneratedLabels, ScopedLabels, HealthyLabels
<1>6. QED
  BY <1>4, <1>5

(* A thread that has left its operation is at no stage of it.              *)
LEMMA LeftStage ==
  ASSUME IInv, NEW t \in Threads, NEW label \in {"idle", "finished", "sleep"},
         Goto(t, label), label = "sleep" => t = Reconciler,
         t = Reconciler => job' = job
  PROVE  Route(t)' /\ Stage(t)'
<1>1. pc'[t] = label
  BY DEF IInv, TypeOK, Goto
<1>2. t = Reconciler => job[t].op = "reconcile"
  BY DEF IInv, Route
<1>3. QED
  BY <1>1, <1>2 DEF Route, Stage, LockedLabels, GeneratedLabels, ScopedLabels, HealthyLabels

LEMMA LeaveStage ==
  ASSUME IInv, NEW t \in Threads, Leave(t)
  PROVE  Route(t)' /\ Stage(t)'
BY LeftStage DEF Leave

(* Before the generation a thread only has to keep to its route.           *)
LEMMA EarlyStage ==
  ASSUME IInv, NEW t \in Threads, NEW label, Goto(t, label),
         label \notin GeneratedLabels, job'[t].op = job[t].op,
         label = "loadUnlocked" => job[t].op = "save",
         label \in LockedLabels \union {"acquire", "sleep"} => job[t].op # "save"
  PROVE  Route(t)' /\ Stage(t)'
<1>1. pc'[t] = label
  BY DEF IInv, TypeOK, Goto
<1>2. t = Reconciler => job[t].op = "reconcile"
  BY DEF IInv, Route
<1>3. QED
  BY <1>1, <1>2 DEF Route, Stage, GeneratedLabels, ScopedLabels, HealthyLabels

(* After it a locked label keeps the route, so only the stage is left.     *)
LEMMA LateRoute ==
  ASSUME IInv, NEW t \in Threads, pc[t] \in LockedLabels,
         pc'[t] \in LockedLabels, job'[t].op = job[t].op
  PROVE  Route(t)'
BY DEF IInv, Route, LockedLabels

(* What the holder of the lock knows at its next stage, action by action.  *)
LEMMA StageStep ==
  ASSUME IInv, NEW t \in Threads, Step(t)
  PROVE  Route(t)' /\ Stage(t)'
<1> USE DEF files
<1> DEFINE key == job[t].settings.key
<1>0. /\ pc \in [Threads -> LockedLabels \union FreeLabels]
      /\ job \in [Threads -> Job]
      /\ realms \in [Keys -> Realm \union {NoRealm}]
      /\ key \in Keys
  BY DEF IInv, TypeOK, Job, Settings
<1>00. Route(t) /\ Stage(t)
  BY DEF IInv
<1> HIDE DEF key
<1>1. CASE Acquire(t)
  <2>1. pc[t] = "acquire"
    BY <1>1 DEF Acquire
  <2>2. job[t].op # "save"
    BY <1>00, <2>1 DEF Route
  <2>3. QED
    BY <1>1, <2>2, EarlyStage DEF Acquire, GeneratedLabels
<1>2. CASE WriteOverlay(t)
  <2>1. job[t].op # "save"
    BY <1>00, <1>2 DEF Route, WriteOverlay, LockedLabels
  <2>2. QED
    BY <1>2, <2>1, EarlyStage DEF WriteOverlay, GeneratedLabels
<1>3. CASE Load(t)
  <2> DEFINE next ==
        CASE job[t].op = "save"         -> "writeSaved"
          [] job[t].op = "applyProfile" -> "profile"
          [] job[t].op = "reconcile" /\ ~document.pending -> "ensure"
          [] OTHER                      -> "generate"
  <2>1. Goto(t, next) /\ job'[t].op = job[t].op
    BY <1>0, <1>3 DEF Load, Job
  <2>2. next \notin GeneratedLabels \union {"loadUnlocked", "acquire", "sleep"}
    BY DEF GeneratedLabels
  <2>3. next \in LockedLabels => job[t].op # "save"
    BY DEF LockedLabels
  <2> HIDE DEF next
  <2>4. QED
    BY <2>1, <2>2, <2>3, EarlyStage
<1>4. CASE WriteProfile(t)
  <2>1. CASE pc[t] = "profile"
    <3>1. job[t].op # "save"
      BY <1>00, <2>1 DEF Route, LockedLabels
    <3>2. QED
      BY <1>4, <2>1, <3>1, EarlyStage DEF WriteProfile, GeneratedLabels
  <2>2. CASE pc[t] = "profileUnlocked"
    BY <1>4, <2>2, EarlyStage DEF WriteProfile, GeneratedLabels, LockedLabels
  <2>3. QED
    BY <1>4, <2>1, <2>2 DEF WriteProfile
<1>5. CASE ClearVerification(t)
  <2>1. CASE Leave(t)
    BY <2>1, LeaveStage
  <2>2. CASE pc[t] = "clear" /\ Goto(t, "generate") /\ job' = job
    <3>1. job[t].op # "save"
      BY <1>00, <2>2 DEF Route, LockedLabels
    <3>2. QED
      BY <2>2, <3>1, EarlyStage DEF GeneratedLabels
  <2>3. QED
    BY <1>5, <2>1, <2>2 DEF ClearVerification
<1>6. CASE Generate(t)
  <2>1. CASE Leave(t)
    BY <2>1, LeaveStage
  <2> DEFINE content == Built(job[t].settings,
                              IF job[t].op = "applyProfile" THEN job[t].profile
                              ELSE profile, overlay)
             next == IF job[t].op = "apply" THEN "writePending" ELSE FirstDelete(t)
  <2>2. CASE /\ generated' = content
             /\ job' = [job EXCEPT ![t].built = content]
             /\ Goto(t, next)
    <3>1. content.overlay = overlay /\ overlay' = overlay
      BY <1>6 DEF Generate, Built
    <3>2. next \in {"writePending", "deletePrevious", "deleteKey"}
      BY DEF FirstDelete
    <3> HIDE DEF content, next
    <3>3. pc'[t] = next /\ job'[t].built = content /\ job'[t].op = job[t].op
      BY <1>0, <2>2 DEF Goto, Job
    <3>4. Stage(t)'
      BY <2>2, <3>1, <3>2, <3>3 DEF Stage, ScopedLabels, HealthyLabels
    <3>5. pc[t] \in LockedLabels /\ pc'[t] \in LockedLabels
      BY <1>6, <3>2, <3>3 DEF Generate, LockedLabels
    <3>6. QED
      BY <3>3, <3>4, <3>5, LateRoute
  <2>3. QED
    BY <1>6, <2>1, <2>2 DEF Generate, Fail
<1>7. CASE WriteTemporary(t)
  <2>1. CASE pc[t] = "writeSaved"
    BY <1>7, <2>1, EarlyStage DEF WriteTemporary, GeneratedLabels, LockedLabels
  <2>2. CASE pc[t] \in {"writePending", "writeApplied"}
    <3>1. pc'[t] = (IF pc[t] = "writePending" THEN "installPending" ELSE "installApplied")
      BY <1>0, <1>7, <2>2 DEF WriteTemporary, Goto
    <3>2. UNCHANGED <<job, generated, overlay, realms, edge>>
      BY <1>7 DEF WriteTemporary
    <3>3. Stage(t)'
      BY <1>00, <2>2, <3>1, <3>2
      DEF Stage, GeneratedLabels, ScopedLabels, HealthyLabels
    <3>4. QED
      BY <2>2, <3>1, <3>2, <3>3, LateRoute DEF LockedLabels
  <2>3. QED
    BY <1>7, <2>1, <2>2 DEF WriteTemporary
<1>8. CASE Install(t)
  <2>1. CASE InstallRaises(t)
    BY <2>1, LeftStage DEF InstallRaises
  <2>2. CASE Leave(t)
    BY <2>2, LeaveStage
  <2>3. CASE pc[t] = "installPending" /\ Goto(t, FirstDelete(t)) /\ job' = job
    <3>1. pc'[t] \in {"deletePrevious", "deleteKey"}
      BY <1>0, <2>3 DEF Goto, FirstDelete
    <3>2. UNCHANGED <<generated, overlay, realms, edge>>
      BY <1>8 DEF Install
    <3>3. Stage(t)'
      BY <1>00, <2>3, <3>1, <3>2
      DEF Stage, GeneratedLabels, ScopedLabels, HealthyLabels
    <3>4. QED
      BY <2>3, <3>1, <3>3, LateRoute DEF LockedLabels
  <2>4. CASE pc[t] = "installApplied" /\ Goto(t, "succeeded") /\ job' = job
    <3>1. pc'[t] = "succeeded"
      BY <1>0, <2>4 DEF Goto
    <3>2. UNCHANGED <<generated, overlay, realms, edge>>
      BY <1>8 DEF Install
    <3>3. Stage(t)'
      BY <1>00, <2>4, <3>1, <3>2
      DEF Stage, GeneratedLabels, ScopedLabels, HealthyLabels
    <3>4. QED
      BY <2>4, <3>1, <3>3, LateRoute DEF LockedLabels
  <2>5. QED
    BY <1>8, <2>1, <2>2, <2>3, <2>4 DEF Install, InstallSucceeds
<1>9. CASE DeletePrevious(t) \/ DeleteKey(t)
  <2>1. CASE Leave(t)
    BY <2>1, LeaveStage
  <2>2. CASE ~Leave(t)
    <3>1. /\ pc[t] \in {"deletePrevious", "deleteKey"}
          /\ pc'[t] \in {"deleteKey", "post"}
          /\ UNCHANGED <<job, generated, overlay, edge>>
      BY <1>0, <1>9, <2>2
      DEF DeletePrevious, DeleteKey, DeleteRealm, Fail, Goto
    <3>2. Stage(t)'
      BY <1>00, <3>1 DEF Stage, GeneratedLabels, ScopedLabels, HealthyLabels
    <3>3. QED
      BY <3>1, <3>2, LateRoute DEF LockedLabels
  <2>3. QED
    BY <2>1, <2>2
<1>10. CASE PostRealm(t)
  <2>1. CASE Leave(t)
    BY <2>1, LeaveStage
  <2>2. CASE ~Leave(t)
    <3>1. /\ pc[t] = "post" /\ pc'[t] = "scopes"
          /\ UNCHANGED <<job, generated, overlay, edge>>
          /\ realms' = [realms EXCEPT ![key] = [content |-> job[t].built, scoped |-> FALSE]]
      BY <1>0, <1>10, <2>2 DEF PostRealm, Fail, Goto, key
    <3>2. realms'[key] = [content |-> job[t].built, scoped |-> FALSE]
      BY <1>0, <3>1
    <3>3. Stage(t)'
      BY <1>00, <3>1, <3>2 DEF Stage, GeneratedLabels, ScopedLabels, HealthyLabels, key
    <3>4. QED
      BY <3>1, <3>3, LateRoute DEF LockedLabels
  <2>3. QED
    BY <2>1, <2>2
<1>11. CASE AttachScopes(t)
  <2>1. CASE Leave(t)
    BY <2>1, LeaveStage
  <2>2. CASE ~Leave(t)
    <3>1. /\ pc[t] = "scopes" /\ pc'[t] = "health"
          /\ UNCHANGED <<job, generated, overlay, edge>>
          /\ realms' = [realms EXCEPT ![key] = Scoped(@)]
      BY <1>0, <1>11, <2>2 DEF AttachScopes, Fail, Goto, key
    <3>2. realms[key] = [content |-> job[t].built, scoped |-> FALSE]
      BY <1>00, <3>1 DEF Stage, key
    <3>3. Scoped(realms[key]) = [content |-> job[t].built, scoped |-> TRUE]
      BY <3>2 DEF Scoped
    <3>4. realms'[key] = [content |-> job[t].built, scoped |-> TRUE]
      BY <1>0, <3>1, <3>3
    <3>5. Stage(t)'
      BY <1>00, <3>1, <3>4 DEF Stage, GeneratedLabels, ScopedLabels, HealthyLabels, key
    <3>6. QED
      BY <3>1, <3>5, LateRoute DEF LockedLabels
  <2>3. QED
    BY <2>1, <2>2
<1>12. CASE AwaitHealth(t)
  <2>1. CASE Leave(t)
    BY <2>1, LeaveStage
  <2>2. CASE ~Leave(t)
    <3>1. /\ pc[t] = "health" /\ pc'[t] \in {"writeApplied", "lockedVerify", "succeeded"}
          /\ job[t].settings.edge = edge
          /\ UNCHANGED <<job, generated, overlay, realms, edge>>
      BY <1>0, <1>12, <2>2 DEF AwaitHealth, Fail, Goto
    <3>2. Stage(t)'
      BY <1>00, <3>1 DEF Stage, GeneratedLabels, ScopedLabels, HealthyLabels
    <3>3. QED
      BY <3>1, <3>2, LateRoute DEF LockedLabels
  <2>3. QED
    BY <2>1, <2>2
<1>13. CASE Succeed(t)
  BY <1>13, LeftStage DEF Succeed
<1>14. CASE Verify(t)
  <2>1. CASE pc[t] = "verify"
    <3>1. Goto(t, "record") /\ job'[t].op = job[t].op
      BY <1>0, <1>14, <2>1 DEF Verify, Job
    <3>2. QED
      BY <3>1, EarlyStage DEF GeneratedLabels, LockedLabels
  <2>2. CASE pc[t] = "lockedVerify"
    <3>1. /\ pc'[t] = "lockedRecord"
          /\ job' = [job EXCEPT ![t].built = generated]
          /\ UNCHANGED <<generated, overlay, realms, edge>>
      BY <1>0, <1>14, <2>2 DEF Verify, Goto
    <3>2. job[t].built = generated
      BY <1>00, <2>2 DEF Stage, GeneratedLabels
    <3>3. /\ job'[t].built = job[t].built /\ job'[t].op = job[t].op
          /\ job'[t].settings = job[t].settings
      BY <1>0, <3>1, <3>2 DEF Job
    <3>4. Stage(t)'
      BY <1>00, <2>2, <3>1, <3>3
      DEF Stage, GeneratedLabels, ScopedLabels, HealthyLabels
    <3>5. QED
      BY <2>2, <3>1, <3>3, <3>4, LateRoute DEF LockedLabels
  <2>3. QED
    BY <1>14, <2>1, <2>2 DEF Verify
<1>15. CASE RecordVerification(t)
  <2>1. CASE Leave(t)
    BY <2>1, LeaveStage
  <2>2. CASE ~Leave(t)
    <3>1. /\ pc[t] = "lockedRecord" /\ pc'[t] = "succeeded"
          /\ UNCHANGED <<job, generated, overlay, realms, edge>>
      BY <1>0, <1>15, <2>2 DEF RecordVerification, Goto
    <3>2. Stage(t)'
      BY <1>00, <3>1 DEF Stage, GeneratedLabels, ScopedLabels, HealthyLabels
    <3>3. QED
      BY <3>1, <3>2, LateRoute DEF LockedLabels
  <2>3. QED
    BY <2>1, <2>2
<1>16. CASE EnsureAccess(t)
  BY <1>16, LeaveStage, LeftStage DEF EnsureAccess, Fail
<1>17. CASE Sleep(t)
  <2>1. job[t].op # "save"
    BY <1>00, <1>17 DEF Route, Sleep
  <2>2. \E label \in {"finished", "acquire"} : Goto(t, label)
    BY <1>17 DEF Sleep
  <2>3. QED
    BY <1>17, <2>1, <2>2, EarlyStage DEF Sleep, GeneratedLabels
<1>18. QED
  BY <1>1, <1>2, <1>3, <1>4, <1>5, <1>6, <1>7, <1>8, <1>9, <1>10, <1>11, <1>12,
     <1>13, <1>14, <1>15, <1>16, <1>17
  DEF Step, Replace

-----------------------------------------------------------------------------
(* A new request is at no stage, and its route is the one Begin chose.     *)
LEMMA BeginStep ==
  ASSUME IInv, NEW t \in Threads, Begin(t)
  PROVE  IInv'
<1>1. TypeOK'
  BY TypeBegin DEF IInv
<1>2. PICK request \in Requests :
        job' = [job EXCEPT ![t] = request] /\ Goto(t, FirstLabel(request.op))
  BY DEF Begin
<1>3. /\ FirstLabel(request.op) \in {"loadUnlocked", "profileUnlocked", "verify", "acquire"}
      /\ FirstLabel(request.op) = "loadUnlocked" => request.op = "save"
      /\ FirstLabel(request.op) = "acquire" => request.op # "save"
  BY DEF FirstLabel
<1>4. LockDiscipline'
  BY <1>2, <1>3, KeepsLock DEF Begin, LockedLabels
<1>5. pc'[t] = FirstLabel(request.op) /\ job'[t] = request /\ t # Reconciler
  BY <1>2, ConfigurationAssumption DEF IInv, TypeOK, Begin, Goto
<1>6. Route(t)' /\ Stage(t)'
  BY <1>3, <1>5
  DEF Route, Stage, LockedLabels, GeneratedLabels, ScopedLabels, HealthyLabels
<1>7. ASSUME NEW u \in Threads \ {t} PROVE Route(u)' /\ Stage(u)'
  <2>1. /\ pc'[u] = pc[u] /\ job'[u] = job[u]
        /\ UNCHANGED <<generated, overlay, realms, edge>>
    BY <1>2 DEF IInv, TypeOK, Begin, Goto, files
  <2>2. QED
    BY <2>1 DEF IInv, Route, Stage
<1>8. QED
  BY <1>1, <1>4, <1>6, <1>7 DEF IInv

(* A restart of the service forgets its threads; a restart of Keycloak     *)
(* alone imports at most a realm that did not exist, and the lock holder   *)
(* relies only on a realm that does.                                       *)
LEMMA RestartStep ==
  ASSUME IInv, Restart
  PROVE  IInv'
<1>1. TypeOK'
  BY TypeRestart DEF IInv
<1>2. CASE ThreadsRestarted
  <2>1. /\ \A u \in Threads : pc'[u] = IF u = Reconciler THEN "acquire" ELSE "idle"
        /\ \A u \in Threads : job'[u] = IF u = Reconciler THEN FreshJob("reconcile") ELSE NoJob
        /\ lock' = NoThread
    BY <1>2 DEF ThreadsRestarted
  <2>2. LockDiscipline'
    BY <2>1, ConfigurationAssumption DEF LockDiscipline, LockedLabels
  <2>3. FreshJob("reconcile").op = "reconcile"
    BY DEF FreshJob
  <2>4. ASSUME NEW u \in Threads PROVE Route(u)' /\ Stage(u)'
    BY <2>1, <2>3
    DEF Route, Stage, LockedLabels, GeneratedLabels, ScopedLabels, HealthyLabels
  <2>5. QED
    BY <1>1, <2>2, <2>4 DEF IInv
<1>3. CASE KeycloakRestart
  <2>1. /\ UNCHANGED <<lock, pc, job, generated, overlay, edge>>
        /\ realms' = Imported(generated)
    BY <1>3 DEF KeycloakRestart, Restarting
  <2>2. LockDiscipline' /\ \A u \in Threads : Route(u)'
    BY <2>1 DEF IInv, LockDiscipline, Route
  <2>3. ASSUME NEW k \in Keys, realms[k] # NoRealm PROVE realms'[k] = realms[k]
    BY <2>1, <2>3 DEF IInv, TypeOK, Imported
  <2>4. ASSUME NEW u \in Threads PROVE Stage(u)'
    <3>1. job[u].settings.key \in Keys /\ job[u].built \in Content
      BY DEF IInv, TypeOK, Job, Settings
    <3>2. ASSUME NEW s \in BOOLEAN PROVE [content |-> job[u].built, scoped |-> s] # NoRealm
      BY <3>1, ConfigurationAssumption DEF Realm
    <3>3. Stage(u)
      BY DEF IInv
    <3>4. QED
      BY <2>1, <2>3, <3>1, <3>2, <3>3 DEF Stage
  <2>5. QED
    BY <1>1, <2>2, <2>4 DEF IInv
<1>4. QED
  BY <1>2, <1>3 DEF Restart, ServiceRestart, StackRestart

LEMMA NextIInv == IInv /\ [Next]_vars => IInv'
<1> SUFFICES ASSUME IInv, [Next]_vars PROVE IInv'
  OBVIOUS
<1>1. ASSUME NEW t \in Threads, Step(t) PROVE IInv'
  <2>1. TypeOK' /\ LockDiscipline'
    BY <1>1, TypeStep, LockStep
  <2>2. ASSUME NEW u \in Threads PROVE Route(u)' /\ Stage(u)'
    BY <1>1, StageStep, OthersUndisturbed
  <2>3. QED
    BY <2>1, <2>2 DEF IInv
<1>2. CASE UNCHANGED vars
  BY <1>2 DEF vars, files, counters, IInv, TypeOK, LockDiscipline, Route, Stage
<1>3. QED
  BY <1>1, <1>2, BeginStep, RestartStep DEF Next

-----------------------------------------------------------------------------
(* The documents, the realms and the local variables of every thread keep  *)
(* their types, whatever calls fail and whatever restarts.                 *)
THEOREM TypeCorrect == Spec => []TypeOK
<1>1. IInv => TypeOK
  BY DEF IInv
<1>2. QED
  BY <1>1, InitIInv, NextIInv, PTL DEF Spec

(* No two operations tear down and rebuild a realm at once, and no failure *)
(* path keeps _apply_lock.                                                 *)
THEOREM MutualExclusion == Spec => []LockDiscipline
<1>1. IInv => LockDiscipline
  BY DEF IInv
<1>2. QED
  BY <1>1, InitIInv, NextIInv, PTL DEF Spec

(* An operation that answers "applied" leaves Keycloak serving exactly the *)
(* realm it generated, for any number of threads, realm keys and edges.    *)
THEOREM AppliedIsServed == Spec => []SuccessIsServed
<1>1. IInv => SuccessIsServed
  <2> SUFFICES ASSUME IInv, NEW t \in Threads, pc[t] = "succeeded"
               PROVE  /\ realms[job[t].settings.key]
                            = [content |-> job[t].built, scoped |-> TRUE]
                      /\ job[t].settings.edge = edge
                      /\ job[t].built.overlay = overlay
    BY DEF SuccessIsServed
  <2>1. Stage(t)
    BY DEF IInv
  <2>2. QED
    BY <2>1 DEF Stage, GeneratedLabels, ScopedLabels, HealthyLabels
<1>2. QED
  BY <1>1, InitIInv, NextIInv, PTL DEF Spec

-----------------------------------------------------------------------------
(* While only applies, profile Saves and verifications were asked for.     *)

(* The stages at which the realm on file is being torn down and rebuilt.   *)
ReplacingLabels ==
  {"deletePrevious", "deleteKey", "post", "scopes", "health", "writeApplied",
   "installApplied"}

(* The document on file asks for what the thread is doing.                 *)
Retried(t) == document.pending /\ document.settings = job[t].settings

(* A replacement has its retry on disk, and what it is about to install is *)
(* its own document.                                                       *)
Calm(t) ==
  /\ t \in Handlers => job[t].op \in ApplyOnly \union {"none"}
  /\ pc[t] \in LockedLabels \union {"acquire", "sleep"} => job[t].op \in {"apply", "reconcile"}
  /\ pc[t] \notin {"overlay", "profile", "clear", "lockedVerify", "lockedRecord",
                   "loadUnlocked", "writeSaved", "installSaved"}
  /\ pc[t] \in {"writePending", "installPending"} => job[t].op = "apply"
  /\ pc[t] = "generate" /\ job[t].op = "reconcile" => Retried(t)
  /\ pc[t] \in ReplacingLabels => Retried(t)
  /\ pc[t] \in GeneratedLabels =>
       job[t].built.key = job[t].settings.key /\ job[t].built.edge = job[t].settings.edge
  /\ pc[t] = "installPending" => temporary.pending /\ temporary.settings = job[t].settings
  /\ pc[t] = "installApplied" =>
       temporary = [settings |-> job[t].settings, applied |-> job[t].settings.key,
                    pending |-> FALSE]

HInv == ~others => TruthfulDocument /\ \A t \in Threads : Calm(t)

(* Initially, and after a restart of the service, no thread is at work.    *)
LEMMA CalmAtRest ==
  ASSUME NEW j, NEW label, NEW t \in Threads,
         label = IF t = Reconciler THEN "acquire" ELSE "idle",
         j = IF t = Reconciler THEN FreshJob("reconcile") ELSE NoJob
  PROVE  /\ label \notin LockedLabels \union {"sleep", "loadUnlocked", "writeSaved", "installSaved"}
         /\ label = "acquire" => j.op = "reconcile"
         /\ t \in Handlers => j.op = "none"
BY ConfigurationAssumption DEF LockedLabels, FreshJob, NoJob

LEMMA CalmResting ==
  ASSUME NEW t \in Threads,
         pc[t] = IF t = Reconciler THEN "acquire" ELSE "idle",
         job[t] = IF t = Reconciler THEN FreshJob("reconcile") ELSE NoJob
  PROVE  Calm(t)
<1>1. /\ pc[t] \in {"acquire", "idle"}
      /\ pc[t] = "acquire" => job[t].op = "reconcile"
      /\ t \in Handlers => job[t].op = "none"
  BY CalmAtRest
<1>2. QED
  BY <1>1 DEF Calm, LockedLabels, ReplacingLabels, GeneratedLabels, Retried

(* A handler that leaves its operation asks for nothing any more.          *)
LEMMA CalmLeft ==
  ASSUME IInv, NEW t \in Threads, Calm(t),
         NEW label \in {"idle", "finished", "sleep"},
         Goto(t, label), label = "sleep" => t = Reconciler,
         job' = IF t = Reconciler THEN job ELSE [job EXCEPT ![t] = NoJob]
  PROVE  Calm(t)'
<1>1. pc'[t] = label
  BY DEF IInv, TypeOK, Goto
<1>2. job'[t] = IF t = Reconciler THEN job[t] ELSE NoJob
  BY DEF IInv, TypeOK
<1>3. t = Reconciler => job[t].op = "reconcile" /\ t \notin Handlers
  BY ConfigurationAssumption DEF IInv, Route
<1>4. NoJob.op = "none"
  BY DEF NoJob, FreshJob
<1>5. QED
  BY <1>1, <1>2, <1>3, <1>4 DEF Calm, LockedLabels, ReplacingLabels, GeneratedLabels, Retried

LEMMA CalmLeave ==
  ASSUME IInv, NEW t \in Threads, Calm(t), Leave(t)
  PROVE  Calm(t)'
BY CalmLeft DEF Leave

(* A step that keeps the document and the realms keeps its truth, and so   *)
(* does one that finds it pending.                                         *)
LEMMA TruthKept ==
  ASSUME TruthfulDocument, document' = document,
         document.pending \/ UNCHANGED realms
  PROVE  TruthfulDocument'
BY DEF TruthfulDocument

(* The own steps of a thread, action by action.                            *)
LEMMA CalmStep ==
  ASSUME IInv, NEW t \in Threads, TruthfulDocument, Calm(t), Step(t)
  PROVE  TruthfulDocument' /\ Calm(t)'
<1> USE DEF files
<1> DEFINE key == job[t].settings.key
<1>0. /\ pc \in [Threads -> LockedLabels \union FreeLabels]
      /\ job \in [Threads -> Job]
      /\ realms \in [Keys -> Realm \union {NoRealm}]
      /\ key \in Keys
  BY DEF IInv, TypeOK, Job, Settings
<1>00. Route(t) /\ Stage(t)
  BY DEF IInv
<1> HIDE DEF key
<1>1. CASE Acquire(t)
  <2>1. pc[t] = "acquire" /\ pc'[t] = "load" /\ UNCHANGED <<document, realms, job>>
    BY <1>0, <1>1 DEF Acquire, Goto, Calm
  <2>2. QED
    BY <2>1, TruthKept DEF Calm, LockedLabels, ReplacingLabels, GeneratedLabels, Retried
<1>2. CASE WriteOverlay(t)
  BY <1>2 DEF WriteOverlay, Calm
<1>3. CASE Load(t)
  <2>1. pc[t] = "load" /\ job[t].op \in {"apply", "reconcile"}
    BY <1>3 DEF Load, Calm, LockedLabels
  <2>2. job'[t].op = job[t].op /\ UNCHANGED <<document, realms>>
    BY <1>0, <1>3 DEF Load, Job
  <2>3. \/ pc'[t] = "ensure"
        \/ pc'[t] = "generate" /\ (job[t].op = "reconcile" =>
                document.pending /\ job'[t].settings = document.settings)
    BY <1>0, <1>3, <2>1 DEF Load, Goto, Job
  <2>4. QED
    BY <2>1, <2>2, <2>3, TruthKept DEF Calm, LockedLabels, ReplacingLabels, GeneratedLabels, Retried
<1>4. CASE WriteProfile(t)
  <2>1. /\ pc[t] = "profileUnlocked" /\ pc'[t] = "clearUnlocked"
        /\ UNCHANGED <<document, realms, job>>
    BY <1>0, <1>4 DEF WriteProfile, Goto, Calm
  <2>2. QED
    BY <2>1, TruthKept DEF Calm, LockedLabels, ReplacingLabels, GeneratedLabels, Retried
<1>5. CASE ClearVerification(t)
  <2>1. Leave(t) /\ UNCHANGED <<document, realms>>
    BY <1>5 DEF ClearVerification, Calm
  <2>2. QED
    BY <2>1, CalmLeave, TruthKept
<1>6. CASE Generate(t)
  <2> DEFINE content == Built(job[t].settings,
                              IF job[t].op = "applyProfile" THEN job[t].profile
                              ELSE profile, overlay)
             next == IF job[t].op = "apply" THEN "writePending" ELSE FirstDelete(t)
  <2>0. UNCHANGED <<document, realms>>
    BY <1>6 DEF Generate
  <2>1. CASE Leave(t)
    BY <2>0, <2>1, CalmLeave, TruthKept
  <2>2. CASE job' = [job EXCEPT ![t].built = content] /\ Goto(t, next)
    <3>1. pc[t] = "generate" /\ job[t].op \in {"apply", "reconcile"}
      BY <1>6 DEF Generate, Calm, LockedLabels
    <3>2. content.key = job[t].settings.key /\ content.edge = job[t].settings.edge
      BY DEF Built
    <3>3. \/ next = "writePending" /\ job[t].op = "apply"
          \/ next \in {"deletePrevious", "deleteKey"} /\ Retried(t)
      BY <3>1 DEF FirstDelete, Calm
    <3> HIDE DEF content, next
    <3>4. /\ pc'[t] = next /\ job'[t].built = content
          /\ job'[t].op = job[t].op /\ job'[t].settings = job[t].settings
      BY <1>0, <2>2 DEF Goto, Job
    <3>5. QED
      BY <2>0, <3>1, <3>2, <3>3, <3>4, TruthKept
      DEF Calm, LockedLabels, ReplacingLabels, GeneratedLabels, Retried
  <2>3. QED
    BY <1>6, <2>1, <2>2 DEF Generate, Fail
<1>7. CASE WriteTemporary(t)
  <2>1. UNCHANGED <<document, realms, job>>
    BY <1>7 DEF WriteTemporary
  <2>2. CASE pc[t] = "writePending"
    <3>1. pc'[t] = "installPending" /\ temporary'.pending
          /\ temporary'.settings = job[t].settings
      BY <1>0, <1>7, <2>2 DEF WriteTemporary, NewDocument, Goto
    <3>2. QED
      BY <2>1, <2>2, <3>1, TruthKept DEF Calm, LockedLabels, ReplacingLabels, GeneratedLabels, Retried
  <2>3. CASE pc[t] = "writeApplied"
    <3>1. /\ pc'[t] = "installApplied"
          /\ temporary' = [settings |-> job[t].settings, applied |-> job[t].settings.key,
                           pending |-> FALSE]
      BY <1>0, <1>7, <2>3 DEF WriteTemporary, NewDocument, Goto
    <3>2. QED
      BY <2>1, <2>3, <3>1, TruthKept DEF Calm, LockedLabels, ReplacingLabels, GeneratedLabels, Retried
  <2>4. QED
    BY <1>7, <2>2, <2>3 DEF WriteTemporary, Calm
<1>8. CASE Install(t)
  <2>0. UNCHANGED realms
    BY <1>8 DEF Install
  <2>1. CASE InstallRaises(t)
    BY <2>0, <2>1, CalmLeft, TruthKept DEF InstallRaises
  <2>2. CASE InstallSucceeds(t) /\ pc[t] = "installPending"
    <3>1. document' = temporary /\ temporary.pending
          /\ temporary.settings = job[t].settings
      BY <2>2 DEF InstallSucceeds, Calm
    <3>2. TruthfulDocument'
      BY <3>1 DEF TruthfulDocument
    <3>3. CASE Leave(t)
      BY <3>2, <3>3, CalmLeave
    <3>4. CASE Goto(t, FirstDelete(t)) /\ job' = job
      <4>1. pc'[t] \in {"deletePrevious", "deleteKey"}
        BY <1>0, <3>4 DEF Goto, FirstDelete
      <4>2. QED
        BY <2>2, <3>1, <3>2, <3>4, <4>1 DEF Calm, LockedLabels, ReplacingLabels, GeneratedLabels, Retried
    <3>5. QED
      BY <2>2, <3>3, <3>4 DEF InstallSucceeds
  <2>3. CASE InstallSucceeds(t) /\ pc[t] = "installApplied"
    <3>1. document' = [settings |-> job[t].settings, applied |-> key, pending |-> FALSE]
      BY <2>3 DEF InstallSucceeds, Calm, key
    <3>2. realms[key] = [content |-> job[t].built, scoped |-> TRUE]
      BY <1>00, <2>3 DEF Stage, ScopedLabels, key
    <3>3. realms[key] # NoRealm
      <4>1. job[t].built \in Content
        BY <1>0 DEF Job
      <4>2. [content |-> job[t].built, scoped |-> TRUE] \in Realm
        BY <4>1 DEF Realm
      <4>3. QED
        BY <3>2, <4>2, ConfigurationAssumption
    <3>4. job[t].built.key = key /\ job[t].built.edge = job[t].settings.edge
      BY <2>3 DEF Calm, GeneratedLabels, key
    <3>5. TruthfulDocument'
      BY <2>0, <3>1, <3>2, <3>3, <3>4 DEF TruthfulDocument, key
    <3>6. pc'[t] = "succeeded" /\ job' = job
      BY <1>0, <2>3 DEF InstallSucceeds, Goto
    <3>7. QED
      BY <2>3, <3>5, <3>6 DEF Calm, LockedLabels, ReplacingLabels, GeneratedLabels, Retried
  <2>4. QED
    BY <1>8, <2>1, <2>2, <2>3 DEF Install, Calm
<1>9. CASE DeletePrevious(t) \/ DeleteKey(t)
  <2>1. /\ pc[t] \in {"deletePrevious", "deleteKey"} /\ document' = document
        /\ \/ Leave(t)
           \/ pc'[t] \in {"deleteKey", "post"} /\ UNCHANGED job
    BY <1>0, <1>9 DEF DeletePrevious, DeleteKey, DeleteRealm, Fail, Goto
  <2>2. document.pending
    BY <2>1 DEF Calm, ReplacingLabels, Retried
  <2>3. QED
    BY <2>1, <2>2, CalmLeave, TruthKept
    DEF Calm, LockedLabels, ReplacingLabels, GeneratedLabels, Retried
<1>10. CASE PostRealm(t)
  <2>1. /\ pc[t] = "post" /\ document' = document
        /\ \/ Leave(t)
           \/ pc'[t] = "scopes" /\ UNCHANGED job
    BY <1>0, <1>10 DEF PostRealm, Fail, Goto
  <2>2. document.pending
    BY <2>1 DEF Calm, ReplacingLabels, Retried
  <2>3. QED
    BY <2>1, <2>2, CalmLeave, TruthKept
    DEF Calm, LockedLabels, ReplacingLabels, GeneratedLabels, Retried
<1>11. CASE AttachScopes(t)
  <2>1. /\ pc[t] = "scopes" /\ document' = document
        /\ \/ Leave(t)
           \/ pc'[t] = "health" /\ UNCHANGED job
    BY <1>0, <1>11 DEF AttachScopes, Fail, Goto
  <2>2. document.pending
    BY <2>1 DEF Calm, ReplacingLabels, Retried
  <2>3. QED
    BY <2>1, <2>2, CalmLeave, TruthKept
    DEF Calm, LockedLabels, ReplacingLabels, GeneratedLabels, Retried
<1>12. CASE AwaitHealth(t)
  <2>1. /\ pc[t] = "health" /\ UNCHANGED <<document, realms>>
    BY <1>12 DEF AwaitHealth
  <2>2. document.pending /\ job[t].op \in {"apply", "reconcile"}
    BY <2>1 DEF Calm, ReplacingLabels, LockedLabels, Retried
  <2>3. \/ Leave(t)
        \/ pc'[t] = "writeApplied" /\ UNCHANGED job
    BY <1>0, <1>12, <2>2 DEF AwaitHealth, Fail, Goto
  <2>4. QED
    BY <2>1, <2>2, <2>3, CalmLeave, TruthKept
    DEF Calm, LockedLabels, ReplacingLabels, GeneratedLabels, Retried
<1>13. CASE Succeed(t)
  BY <1>13, CalmLeft, TruthKept DEF Succeed
<1>14. CASE Verify(t)
  <2>1. /\ pc[t] = "verify" /\ pc'[t] = "record" /\ job'[t].op = job[t].op
        /\ UNCHANGED <<document, realms>>
    BY <1>0, <1>14 DEF Verify, Goto, Calm, Job
  <2>2. QED
    BY <2>1, TruthKept DEF Calm, LockedLabels, ReplacingLabels, GeneratedLabels, Retried
<1>15. CASE RecordVerification(t)
  <2>1. Leave(t) /\ UNCHANGED <<document, realms>>
    BY <1>15 DEF RecordVerification, Calm
  <2>2. QED
    BY <2>1, CalmLeave, TruthKept
<1>16. CASE EnsureAccess(t)
  <2>1. Calm(t)'
    <3>1. CASE Leave(t)
      BY <3>1, CalmLeave
    <3>2. CASE Goto(t, "finished") /\ job' = job
      BY <1>0, <3>2 DEF Goto, Calm, LockedLabels, ReplacingLabels, GeneratedLabels, Retried
    <3>3. QED
      BY <1>16, <3>1, <3>2 DEF EnsureAccess, Fail
  <2>2. TruthfulDocument'
    <3>1. document' = document
      BY <1>16 DEF EnsureAccess
    <3>2. CASE UNCHANGED realms
      BY <3>1, <3>2, TruthKept
    <3>3. CASE realms[key] # NoRealm /\ realms' = [realms EXCEPT ![key] = Scoped(@)]
      <4>1. realms'[key] = Scoped(realms[key]) /\ Scoped(realms[key]).content = realms[key].content
        BY <1>0, <3>3 DEF Scoped
      <4>2. Scoped(realms[key]) # NoRealm
        <5>1. realms[key] \in Realm
          BY <1>0, <3>3
        <5>2. Scoped(realms[key]) \in Realm
          BY <5>1 DEF Realm, Scoped
        <5>3. QED
          BY <5>2, ConfigurationAssumption
      <4>3. \A k \in Keys \ {key} : realms'[k] = realms[k]
        BY <1>0, <3>3
      <4>4. document.applied \in Keys
        BY DEF IInv, TypeOK, Document
      <4>5. QED
        BY <3>1, <4>1, <4>2, <4>3, <4>4 DEF TruthfulDocument
    <3>4. QED
      BY <1>16, <3>2, <3>3 DEF EnsureAccess, key
  <2>3. QED
    BY <2>1, <2>2
<1>17. CASE Sleep(t)
  <2>1. /\ pc[t] = "sleep" /\ pc'[t] \in {"finished", "acquire"}
        /\ UNCHANGED <<document, realms, job>>
    BY <1>0, <1>17 DEF Sleep, Goto
  <2>2. QED
    BY <2>1, TruthKept DEF Calm, LockedLabels, ReplacingLabels, GeneratedLabels, Retried
<1>18. QED
  BY <1>1, <1>2, <1>3, <1>4, <1>5, <1>6, <1>7, <1>8, <1>9, <1>10, <1>11, <1>12,
     <1>13, <1>14, <1>15, <1>16, <1>17
  DEF Step, Replace

(* What no step without the lock touches, as long as nobody saves: the     *)
(* document and the temporary file of the lock holder.                     *)
LEMMA DocumentFrame ==
  ASSUME NEW t \in Threads, Step(t), pc[t] \notin LockedLabels, Calm(t)
  PROVE  UNCHANGED <<document, temporary>>
BY DEF Step, Replace, Acquire, WriteOverlay, Load, WriteProfile, ClearVerification,
       Generate, WriteTemporary, Install, DeletePrevious, DeleteKey, PostRealm,
       AttachScopes, AwaitHealth, Succeed, Verify, RecordVerification, EnsureAccess,
       Sleep, DeleteRealm, Calm, LockedLabels, files

LEMMA CalmOthers ==
  ASSUME IInv, NEW t \in Threads, Step(t), Calm(t), NEW u \in Threads \ {t}, Calm(u)
  PROVE  Calm(u)'
<1>1. pc'[u] = pc[u] /\ job'[u] = job[u]
  BY Frame
<1>2. CASE pc[u] \in LockedLabels
  <2>1. pc[t] \notin LockedLabels
    BY <1>2 DEF IInv, LockDiscipline
  <2>2. UNCHANGED <<document, temporary>>
    BY <2>1, DocumentFrame
  <2>3. QED
    BY <1>1, <2>2 DEF Calm, Retried
<1>3. CASE pc[u] \notin LockedLabels
  BY <1>1, <1>3 DEF Calm, LockedLabels, ReplacingLabels, GeneratedLabels, Retried
<1>4. QED
  BY <1>2, <1>3

(* A request that makes `others' true promises nothing; an apply, a        *)
(* profile Save or a verification starts at a stage without a promise.     *)
LEMMA CalmBegin ==
  ASSUME IInv, NEW t \in Threads, Begin(t), ~Begun,
         TruthfulDocument, \A u \in Threads : Calm(u)
  PROVE  TruthfulDocument' /\ \A u \in Threads : Calm(u)'
<1>1. PICK request \in Requests :
        job' = [job EXCEPT ![t] = request] /\ Goto(t, FirstLabel(request.op))
  BY DEF Begin
<1>2. pc'[t] = FirstLabel(request.op) /\ job'[t] = request
  BY <1>1 DEF IInv, TypeOK, Goto
<1>3. request.op \in ApplyOnly
  <2>1. t \in Handlers /\ pc[t] = "idle" /\ pc'[t] # "idle"
    BY <1>2 DEF Begin, FirstLabel
  <2>2. QED
    BY <1>2, <2>1 DEF Begun
<1>4. t # Reconciler
  BY ConfigurationAssumption DEF Begin
<1>5. pc'[t] \in {"acquire", "profileUnlocked", "verify"}
      /\ (pc'[t] = "acquire" => request.op = "apply")
  BY <1>2, <1>3 DEF FirstLabel, ApplyOnly
<1>6. Calm(t)'
  BY <1>2, <1>3, <1>5 DEF Calm, LockedLabels, ReplacingLabels, GeneratedLabels, Retried
<1>7. UNCHANGED <<document, temporary, realms>>
  BY DEF Begin, files
<1>8. ASSUME NEW u \in Threads \ {t} PROVE Calm(u)'
  <2>1. pc'[u] = pc[u] /\ job'[u] = job[u]
    BY <1>1 DEF IInv, TypeOK, Goto
  <2>2. QED
    BY <1>7, <2>1 DEF Calm, Retried
<1>9. QED
  BY <1>6, <1>7, <1>8, TruthKept

(* A restart rests the threads, and an import adds a realm at most.        *)
LEMMA CalmRestart ==
  ASSUME IInv, Restart, TruthfulDocument, \A u \in Threads : Calm(u)
  PROVE  TruthfulDocument' /\ \A u \in Threads : Calm(u)'
<1>1. UNCHANGED <<document, temporary>>
  BY DEF Restart, ServiceRestart, KeycloakRestart, StackRestart, Restarting
<1>2. ASSUME NEW k \in Keys, realms[k] # NoRealm PROVE realms'[k] = realms[k]
  BY <1>2 DEF Restart, ServiceRestart, KeycloakRestart, StackRestart, Imported, IInv, TypeOK
<1>3. document.applied \in Keys
  BY DEF IInv, TypeOK, Document
<1>4. TruthfulDocument'
  BY <1>1, <1>2, <1>3 DEF TruthfulDocument
<1>5. CASE ThreadsRestarted
  <2>1. ASSUME NEW u \in Threads PROVE Calm(u)'
    <3>1. /\ pc'[u] = IF u = Reconciler THEN "acquire" ELSE "idle"
          /\ job'[u] = IF u = Reconciler THEN FreshJob("reconcile") ELSE NoJob
      BY <1>5 DEF ThreadsRestarted
    <3>2. /\ pc'[u] \in {"acquire", "idle"}
          /\ pc'[u] = "acquire" => job'[u].op = "reconcile"
          /\ u \in Handlers => job'[u].op = "none"
      BY <3>1, CalmAtRest
    <3>3. QED
      BY <3>2 DEF Calm, LockedLabels, ReplacingLabels, GeneratedLabels, Retried
  <2>2. QED
    BY <1>4, <2>1
<1>6. CASE UNCHANGED <<pc, job>>
  <2>1. ASSUME NEW u \in Threads PROVE Calm(u)'
    <3>1. Calm(u)
      OBVIOUS
    <3>2. QED
      BY <1>1, <1>6, <3>1 DEF Calm, Retried
  <2>2. QED
    BY <1>4, <2>1
<1>7. QED
  BY <1>5, <1>6 DEF Restart, ServiceRestart, KeycloakRestart, StackRestart

LEMMA InitHInv == RecordedInit => HInv
<1> SUFFICES ASSUME RecordedInit PROVE HInv
  OBVIOUS
<1>1. TruthfulDocument
  <2>1. Built(DefaultSettings, DefaultProfile, 0) \in Content
    BY BuiltType, ConfigurationAssumption
  <2>2. [content |-> generated, scoped |-> FALSE] \in Realm
    BY <2>1 DEF RecordedInit, Init, Realm
  <2>3. DefaultSettings.key \in Keys
    BY ConfigurationAssumption DEF Settings
  <2>4. realms[DefaultSettings.key] = [content |-> generated, scoped |-> FALSE]
    BY <2>3 DEF RecordedInit, Init
  <2>5. realms[DefaultSettings.key] # NoRealm
    BY <2>2, <2>4, ConfigurationAssumption
  <2>6. generated.key = DefaultSettings.key /\ generated.edge = DefaultSettings.edge
    BY DEF RecordedInit, Init, Built
  <2>7. document.settings = DefaultSettings /\ document.applied = DefaultSettings.key
    BY DEF RecordedInit, Init
  <2>8. QED
    BY <2>4, <2>5, <2>6, <2>7 DEF TruthfulDocument
<1>2. ASSUME NEW t \in Threads PROVE Calm(t)
  <2>1. /\ pc[t] = IF t = Reconciler THEN "acquire" ELSE "idle"
        /\ job[t] = IF t = Reconciler THEN FreshJob("reconcile") ELSE NoJob
    BY DEF RecordedInit, Init
  <2>2. QED
    BY <2>1, CalmResting
<1>3. QED
  BY <1>1, <1>2 DEF HInv

LEMMA NextHInv == IInv /\ HInv /\ [RecordedNext]_<<vars, others>> => HInv'
<1> SUFFICES ASSUME IInv, HInv, [RecordedNext]_<<vars, others>>, ~others'
             PROVE  TruthfulDocument' /\ \A u \in Threads : Calm(u)'
  BY DEF HInv
<1>1. CASE UNCHANGED <<vars, others>>
  BY <1>1 DEF HInv, Calm, Retried, TruthfulDocument, vars, files
<1>2. CASE RecordedNext
  <2>1. ~others /\ ~Begun /\ Next
    BY <1>2 DEF RecordedNext
  <2>2. TruthfulDocument /\ \A u \in Threads : Calm(u)
    BY <2>1 DEF HInv
  <2>3. ASSUME NEW t \in Threads, Step(t)
        PROVE  TruthfulDocument' /\ \A u \in Threads : Calm(u)'
    BY <2>2, <2>3, CalmStep, CalmOthers
  <2>4. QED
    BY <2>1, <2>2, <2>3, CalmBegin, CalmRestart DEF Next
<1>3. QED
  BY <1>1, <1>2

LEMMA HInvHolds == RecordedSpec => [](IInv /\ HInv)
<1>1. RecordedInit => IInv /\ HInv
  BY InitIInv, InitHInv DEF RecordedInit
<1>2. IInv /\ HInv /\ [RecordedNext]_<<vars, others>> => IInv' /\ HInv'
  <2>1. [RecordedNext]_<<vars, others>> => [Next]_vars
    BY DEF RecordedNext
  <2>2. QED
    BY <2>1, NextIInv, NextHInv
<1>3. QED
  BY <1>1, <1>2, PTL DEF RecordedSpec

(* While only applies, profile Saves and verifications were asked for, a   *)
(* document that is not marked pending names a realm Keycloak holds,       *)
(* generated from its settings: whatever fails and restarts, what an apply *)
(* tore down is still pending on disk (server.py, apply and                *)
(* reconcile_pending).                                                     *)
THEOREM PendingBeforeTearDown == RecordedSpec => []TruthfulAfterApplies
<1>1. HInv => TruthfulAfterApplies
  BY DEF HInv, TruthfulAfterApplies
<1>2. QED
  BY <1>1, HInvHolds, PTL

(* In such a behaviour an apply that fails leaves its own settings pending *)
(* on disk (server.py:1501): other applies wait for the lock, and the      *)
(* reconciliation writes only what is already there.                       *)
THEOREM FailureIsRetried == RecordedSpec => FailedApplyStaysPendingAlone
<1>1. IInv /\ HInv /\ [RecordedNext]_<<vars, others>>
        => [~others' => ApplyFailsPending]_<<vars, others>>
  <2> SUFFICES ASSUME IInv, HInv, RecordedNext, ~others'
               PROVE  ApplyFailsPending
    OBVIOUS
  <2>1. \A t \in Threads : Calm(t)
    BY DEF HInv, RecordedNext
  <2>2. QED
    BY <2>1 DEF ApplyFailsPending, Calm, ReplacingLabels, Retried, Threads
<1>2. QED
  BY <1>1, HInvHolds, PTL DEF RecordedSpec, FailedApplyStaysPendingAlone
=============================================================================
