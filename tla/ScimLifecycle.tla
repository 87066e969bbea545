---------------------------- MODULE ScimLifecycle ----------------------------
(***************************************************************************)
(* The SCIM provisioning client of the configuration service: save_scim,   *)
(* verify_scim, run_scim_lifecycle and set_scim_lifecycle_user_active of   *)
(* server.py, and ScimClient of scim.py.  None of them takes _apply_lock.  *)
(*                                                                         *)
(* The service provider is the environment: at each base URL it keeps the  *)
(* User and the Group of the run, each with a version that every change    *)
(* raises and that If-Match is compared with.  A request may fail, and one *)
(* that fails may have been carried out.  One connection, one synthetic    *)
(* user and one group binding stand for all; requests that only read       *)
(* (the userName filter, the three discovery documents) are part of the    *)
(* step they lead to, and the files are written at once.                   *)
(***************************************************************************)
EXTENDS Naturals

CONSTANTS
  Handlers,     \* request threads
  Endpoints,    \* base URLs the connection may be given
  First,        \* the base URL of the environment's settings
  Ops,          \* the operations clients call in this instance
  MaxRequests,  \* bound: requests in a behaviour
  MaxFaults,    \* bound: SCIM requests that fail, and contracts refused
  MaxRestarts,  \* bound: restarts of the service
  NoFile, NoResource, NoEndpoint

User  == [active: BOOLEAN, version: Nat, by: Handlers]
Group == [member: BOOLEAN, version: Nat, by: Handlers]
Resource == User \union Group
Verdicts == {"none", "passed", "failed", "contract"}
AllOps == {"save", "verify", "lifecycle", "deactivate", "reactivate"}

(* The result file: what it claims of the provider at one base URL.        *)
Result == [passed: BOOLEAN, endpoint: Endpoints, userResourceId: Endpoints \union {NoEndpoint},
           active: BOOLEAN, member: BOOLEAN, alone: BOOLEAN]

Discovered == [passed: BOOLEAN, endpoint: Endpoints, userResourceId: {NoEndpoint},
               active: BOOLEAN, member: BOOLEAN, alone: BOOLEAN]

ASSUME ScimAssumption ==
  /\ First \in Endpoints
  /\ NoEndpoint \notin Endpoints
  /\ Ops \subseteq AllOps
  /\ MaxRequests \in Nat /\ MaxFaults \in Nat /\ MaxRestarts \in Nat
  /\ NoFile \notin Result
  /\ NoResource \notin Resource

VARIABLES
  settings,     \* scim.json: the base URL of the connection
  credential,   \* scim-credentials.json: the connection has one
  verification, \* the discovery result
  lifecycle,    \* the lifecycle result
  user, group,  \* the provider's resources, by base URL
  pc, job,
  requests, faults, restarts

files    == <<settings, credential, verification, lifecycle>>
provider == <<user, group>>
counters == <<requests, faults, restarts>>
vars     == <<files, provider, pc, job, counters>>

(* alone and before are not in the code: no other request overlapped this  *)
(* one, and the faults there had been when it began.                       *)
NoJob == [op |-> "none", endpoint |-> First, credential |-> FALSE, binding |-> FALSE,
          resource |-> NoEndpoint, etag |-> 0, verdict |-> "none",
          alone |-> TRUE, before |-> 0]
Job == [op: AllOps \union {"none"}, endpoint: Endpoints, credential: BOOLEAN,
        binding: BOOLEAN, resource: Endpoints \union {NoEndpoint}, etag: Nat,
        verdict: Verdicts, alone: BOOLEAN, before: 0..MaxFaults]
Labels == {"idle", "writeSettings", "writeCredential", "clearVerification",
           "clearLifecycle", "previous", "client", "discover", "findUser", "createUser",
           "replace", "deactivate", "reactivate", "findGroup", "createGroup",
           "removeMember", "addMember", "getUser", "setActive", "record"}

Goto(t, label) == pc' = [pc EXCEPT ![t] = label]
Done(t) == Goto(t, "idle") /\ job' = [job EXCEPT ![t] = NoJob]
Verdict(t, verdict) == Goto(t, "record") /\ job' = [job EXCEPT ![t].verdict = verdict]
MyUser(t)  == user[job[t].endpoint]
MyGroup(t) == group[job[t].endpoint]

Init ==
  /\ settings = First /\ credential = FALSE
  /\ verification = NoFile /\ lifecycle = NoFile
  /\ user = [e \in Endpoints |-> NoResource]
  /\ group = [e \in Endpoints |-> NoResource]
  /\ pc = [t \in Handlers |-> "idle"]
  /\ job = [t \in Handlers |-> NoJob]
  /\ requests = 0 /\ faults = 0 /\ restarts = 0

-----------------------------------------------------------------------------
Begin(t) ==
  /\ pc[t] = "idle"
  /\ requests < MaxRequests
  /\ requests' = requests + 1
  /\ \E op \in Ops, endpoint \in Endpoints, given, binding \in BOOLEAN :
       /\ op # "save" => endpoint = First /\ ~given
       /\ binding => op = "lifecycle"
       /\ job' = [u \in Handlers |->
                    IF u = t
                    THEN [NoJob EXCEPT !.op = op, !.endpoint = endpoint, !.binding = binding,
                                       !.credential = given \/ (op = "save" /\ credential),
                                       !.alone = \A v \in Handlers : pc[v] = "idle",
                                       !.before = faults]
                    ELSE [job[u] EXCEPT !.alone = pc[u] = "idle"]]
       /\ Goto(t, CASE op = "save" -> "writeSettings"
                    [] op \in {"deactivate", "reactivate"} -> "previous"
                    [] OTHER -> "client")
  /\ UNCHANGED <<files, provider, faults, restarts>>

(* save_scim has read the credentials; it writes the settings, then the    *)
(* credentials, and removes the two results.                               *)
WriteSettings(t) ==
  /\ pc[t] = "writeSettings"
  /\ settings' = job[t].endpoint
  /\ Goto(t, "writeCredential")
  /\ UNCHANGED <<credential, verification, lifecycle, provider, job, counters>>

WriteCredential(t) ==
  /\ pc[t] = "writeCredential"
  /\ credential' = job[t].credential
  /\ Goto(t, "clearVerification")
  /\ UNCHANGED <<settings, verification, lifecycle, provider, job, counters>>

ClearVerification(t) ==
  /\ pc[t] = "clearVerification"
  /\ verification' = NoFile
  /\ Goto(t, "clearLifecycle")
  /\ UNCHANGED <<settings, credential, lifecycle, provider, job, counters>>

ClearLifecycle(t) ==
  /\ pc[t] = "clearLifecycle"
  /\ lifecycle' = NoFile
  /\ Done(t)
  /\ UNCHANGED <<settings, credential, verification, provider, counters>>

-----------------------------------------------------------------------------
(* set_scim_lifecycle_user_active takes the resource id of the last result.*)
ReadPrevious(t) ==
  /\ pc[t] = "previous"
  /\ IF lifecycle # NoFile /\ lifecycle.userResourceId # NoEndpoint
     THEN /\ job' = [job EXCEPT ![t].resource = lifecycle.userResourceId]
          /\ Goto(t, "client")
     ELSE Done(t)
  /\ UNCHANGED <<files, provider, counters>>

(* _scim_client reads the settings and needs a stored credential.          *)
MakeClient(t) ==
  /\ pc[t] = "client"
  /\ IF credential
     THEN /\ job' = [job EXCEPT ![t].endpoint = settings]
          /\ Goto(t, IF job[t].resource = NoEndpoint THEN "discover" ELSE "getUser")
     ELSE Done(t)
  /\ UNCHANGED <<files, provider, counters>>

Fault == faults < MaxFaults /\ faults' = faults + 1

(* A request that only reads.                                              *)
FailRead(t) ==
  /\ Fault
  /\ Verdict(t, "failed")
  /\ UNCHANGED provider

(* discover: the contract without bearer, PATCH, filter or ETag support is *)
(* refused with a message that says so.                                    *)
Discover(t) ==
  /\ pc[t] = "discover"
  /\ \/ /\ IF job[t].op = "verify"
           THEN Verdict(t, "passed") ELSE Goto(t, "findUser") /\ UNCHANGED job
        /\ UNCHANGED <<provider, faults>>
     \/ FailRead(t)
     \/ Fault /\ Verdict(t, "contract") /\ UNCHANGED provider
  /\ UNCHANGED <<files, requests, restarts>>

(* Mutant: the User is created without looking for it by externalId.       *)
FindNothing(t) ==
  /\ pc[t] = "findUser"
  /\ Goto(t, "createUser")
  /\ UNCHANGED <<files, provider, job, counters>>

FindUser(t) ==
  /\ pc[t] = "findUser"
  /\ \/ /\ IF MyUser(t) = NoResource
           THEN Goto(t, "createUser") /\ UNCHANGED job
           ELSE /\ job' = [job EXCEPT ![t].etag = MyUser(t).version]
                /\ Goto(t, "replace")
        /\ UNCHANGED <<provider, faults>>
     \/ FailRead(t)
  /\ UNCHANGED <<files, requests, restarts>>

(* Mutant: writes are sent without If-Match.                               *)
NoIfMatch(t, resource) == TRUE

IfMatch(t, resource) == resource.version = job[t].etag

(* A write: carried out and answered with the new version; refused with    *)
(* 404, 409 or 412; or failed, carried out or not.                         *)
Write(t, allowed, users, groups, version, next, done) ==
  \/ /\ allowed
     /\ user' = users /\ group' = groups
     /\ IF done THEN Verdict(t, "passed")
        ELSE Goto(t, next) /\ job' = [job EXCEPT ![t].etag = version]
     /\ UNCHANGED faults
  \/ /\ ~allowed
     /\ Verdict(t, "failed")
     /\ UNCHANGED <<provider, faults>>
  \/ /\ Fault
     /\ Verdict(t, "failed")
     /\ \/ UNCHANGED provider
        \/ allowed /\ user' = users /\ group' = groups

WriteUser(t, allowed, active, next, done) ==
  LET version == IF MyUser(t) = NoResource THEN 1 ELSE MyUser(t).version + 1
  IN Write(t, allowed,
           [user EXCEPT ![job[t].endpoint] =
              [active |-> active, version |-> version, by |-> t]],
           group, version, next, done)

WriteGroup(t, allowed, member, next, done) ==
  LET version == IF MyGroup(t) = NoResource THEN 1 ELSE MyGroup(t).version + 1
  IN Write(t, allowed, user,
           [group EXCEPT ![job[t].endpoint] =
              [member |-> member, version |-> version, by |-> t]],
           version, next, done)

CreateUser(t) ==
  /\ pc[t] = "createUser"
  /\ WriteUser(t, MyUser(t) = NoResource, TRUE, "replace", FALSE)
  /\ UNCHANGED <<files, requests, restarts>>

ReplaceUser(t) ==
  /\ pc[t] = "replace"
  /\ WriteUser(t, IfMatch(t, MyUser(t)), TRUE, "deactivate", FALSE)
  /\ UNCHANGED <<files, requests, restarts>>

Deactivate(t) ==
  /\ pc[t] = "deactivate"
  /\ WriteUser(t, IfMatch(t, MyUser(t)), FALSE, "reactivate", FALSE)
  /\ UNCHANGED <<files, requests, restarts>>

Reactivate(t) ==
  /\ pc[t] = "reactivate"
  /\ WriteUser(t, IfMatch(t, MyUser(t)), TRUE, "findGroup", ~job[t].binding)
  /\ UNCHANGED <<files, requests, restarts>>

FindGroup(t) ==
  /\ pc[t] = "findGroup"
  /\ \/ /\ IF MyGroup(t) = NoResource
           THEN Goto(t, "createGroup") /\ UNCHANGED job
           ELSE /\ job' = [job EXCEPT ![t].etag = MyGroup(t).version]
                /\ Goto(t, "removeMember")
        /\ UNCHANGED <<provider, faults>>
     \/ FailRead(t)
  /\ UNCHANGED <<files, requests, restarts>>

CreateGroup(t) ==
  /\ pc[t] = "createGroup"
  /\ WriteGroup(t, MyGroup(t) = NoResource, TRUE, "removeMember", FALSE)
  /\ UNCHANGED <<files, requests, restarts>>

RemoveMember(t) ==
  /\ pc[t] = "removeMember"
  /\ WriteGroup(t, IfMatch(t, MyGroup(t)), FALSE, "addMember", FALSE)
  /\ UNCHANGED <<files, requests, restarts>>

AddMember(t) ==
  /\ pc[t] = "addMember"
  /\ WriteGroup(t, IfMatch(t, MyGroup(t)), TRUE, "record", TRUE)
  /\ UNCHANGED <<files, requests, restarts>>

(* The id of another service's User is unknown here.                       *)
GetUser(t) ==
  /\ pc[t] = "getUser"
  /\ \/ /\ IF job[t].resource = job[t].endpoint /\ MyUser(t) # NoResource
           THEN /\ job' = [job EXCEPT ![t].etag = MyUser(t).version]
                /\ Goto(t, "setActive")
           ELSE Verdict(t, "failed")
        /\ UNCHANGED <<provider, faults>>
     \/ FailRead(t)
  /\ UNCHANGED <<files, requests, restarts>>

SetActive(t) ==
  /\ pc[t] = "setActive"
  /\ WriteUser(t, IfMatch(t, MyUser(t)), job[t].op = "reactivate", "record", TRUE)
  /\ UNCHANGED <<files, requests, restarts>>

-----------------------------------------------------------------------------
ResultOf(t) ==
  LET passed == job[t].verdict = "passed"
  IN [passed |-> passed,
      endpoint |-> job[t].endpoint,
      userResourceId |-> IF passed /\ job[t].op # "verify" THEN job[t].endpoint ELSE NoEndpoint,
      active |-> job[t].op # "deactivate",
      member |-> job[t].binding,
      alone |-> job[t].alone]

(* Mutant: a failure leaves the last result in place.                      *)
PassedOnly(t) == job[t].verdict = "passed"

(* write_redacted_evidence refuses a document that says "bearer ", which   *)
(* the message of a refused contract does; the request then answers 500.   *)
Writable(t) == job[t].verdict # "contract"

(* Mutant: all results go to one file.                                     *)
OneFile(t) == TRUE

(* scim_verification_path or scim_lifecycle_path.                          *)
ToVerification(t) == job[t].op = "verify"

Record(t) ==
  /\ pc[t] = "record"
  /\ IF Writable(t)
     THEN IF ToVerification(t)
          THEN verification' = ResultOf(t) /\ UNCHANGED lifecycle
          ELSE lifecycle' = ResultOf(t) /\ UNCHANGED verification
     ELSE UNCHANGED <<verification, lifecycle>>
  /\ Done(t)
  /\ UNCHANGED <<settings, credential, provider, counters>>

Restart ==
  /\ restarts < MaxRestarts
  /\ restarts' = restarts + 1
  /\ pc' = [t \in Handlers |-> "idle"]
  /\ job' = [t \in Handlers |-> NoJob]
  /\ UNCHANGED <<files, provider, requests, faults>>

-----------------------------------------------------------------------------
Step(t) ==
  \/ WriteSettings(t) \/ WriteCredential(t) \/ ClearVerification(t) \/ ClearLifecycle(t)
  \/ ReadPrevious(t) \/ MakeClient(t) \/ Discover(t) \/ FindUser(t) \/ CreateUser(t)
  \/ ReplaceUser(t) \/ Deactivate(t) \/ Reactivate(t) \/ FindGroup(t) \/ CreateGroup(t)
  \/ RemoveMember(t) \/ AddMember(t) \/ GetUser(t) \/ SetActive(t) \/ Record(t)

Next == (\E t \in Handlers : Begin(t) \/ Step(t)) \/ Restart

Spec == Init /\ [][Next]_vars

-----------------------------------------------------------------------------
TypeOK ==
  /\ settings \in Endpoints
  /\ credential \in BOOLEAN
  /\ verification \in Discovered \union {NoFile}
  /\ lifecycle \in Result \union {NoFile}
  /\ user \in [Endpoints -> User \union {NoResource}]
  /\ group \in [Endpoints -> Group \union {NoResource}]
  /\ pc \in [Handlers -> Labels]
  /\ job \in [Handlers -> Job]
  /\ requests \in 0..MaxRequests
  /\ faults \in 0..MaxFaults
  /\ restarts \in 0..MaxRestarts

(* scim.py:716-740: the reactivation and the restored membership of a run  *)
(* undo its own deactivation and its own removal, never one that another   *)
(* request made in between.                                                *)
UndoesItsOwn ==
  [][\A t \in Handlers :
       /\ Reactivate(t) /\ user' # user => MyUser(t).by = t
       /\ AddMember(t) /\ group' # group => MyGroup(t).by = t]_vars

(* identity/README.md:645, "creates or reconciles": a lifecycle that no    *)
(* other request overlaps and none of whose own requests fails passes,     *)
(* whatever state earlier failed or interrupted ones left.                 *)
RetryPasses ==
  \A t \in Handlers :
    /\ pc[t] = "record"
    /\ job[t].op = "lifecycle"
    /\ job[t].alone
    /\ faults = job[t].before
    => job[t].verdict = "passed"

(* identity/README.md:648, "leaves the user active with membership         *)
(* present": the result on file of a request that nothing overlapped is    *)
(* what the service provider holds, once no request is in progress.        *)
ResultIsTrue ==
  (/\ \A t \in Handlers : pc[t] = "idle"
   /\ restarts = 0
   /\ lifecycle # NoFile
   /\ lifecycle.alone /\ lifecycle.passed)
  => /\ user[lifecycle.endpoint].active = lifecycle.active
     /\ lifecycle.member => group[lifecycle.endpoint].member

(* SCIM-2.0-TESTING.md:139, "The runner emits a redacted machine-readable  *)
(* result": a request that reaches a verdict leaves it on file.            *)
VerdictRecorded ==
  [][\A t \in Handlers : Record(t) =>
       IF job[t].op = "verify" THEN verification' = ResultOf(t) ELSE lifecycle' = ResultOf(t)]_vars
=============================================================================
