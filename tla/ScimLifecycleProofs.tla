-------------------------- MODULE ScimLifecycleProofs --------------------------
(***************************************************************************)
(* Proofs about ScimLifecycle for every set of request threads and base    *)
(* URLs and every value of the bounds.                                     *)
(*                                                                         *)
(* A thread that is about to write holds a version no newer than the       *)
(* resource's, and if it is the resource's own version, the last write was *)
(* its own.  A thread nothing overlapped and none of whose requests failed *)
(* holds the resource's own version.                                       *)
(***************************************************************************)
EXTENDS ScimLifecycle, TLAPS

UserSteps  == {"replace", "deactivate", "reactivate", "setActive"}
GroupSteps == {"removeMember", "addMember"}

(* What a thread holds of the resource it writes.                          *)
Holds(t) ==
  /\ pc[t] \in UserSteps => MyUser(t) # NoResource /\ job[t].etag <= MyUser(t).version
  /\ pc[t] = "reactivate" /\ job[t].etag = MyUser(t).version => MyUser(t).by = t
  /\ pc[t] \in GroupSteps => MyGroup(t) # NoResource /\ job[t].etag <= MyGroup(t).version
  /\ pc[t] = "addMember" /\ job[t].etag = MyGroup(t).version => MyGroup(t).by = t

(* A request that nothing overlapped is the only one in progress.          *)
Alone(t) ==
  /\ job[t].before <= faults
  /\ pc[t] # "idle" /\ job[t].alone => \A u \in Handlers \ {t} : pc[u] = "idle"

(* A lifecycle does not start from an earlier result.                      *)
Route(t) ==
  job[t].op = "lifecycle" =>
    job[t].resource = NoEndpoint /\ pc[t] \notin {"previous", "getUser"}

(* A lifecycle that nothing overlapped and none of whose requests failed.  *)
Smooth(t) == job[t].op = "lifecycle" /\ job[t].alone /\ faults = job[t].before

Retry(t) ==
  Smooth(t) =>
    /\ pc[t] \in UserSteps => job[t].etag = MyUser(t).version
    /\ pc[t] \in GroupSteps => job[t].etag = MyGroup(t).version
    /\ pc[t] = "createUser" => MyUser(t) = NoResource
    /\ pc[t] = "createGroup" => MyGroup(t) = NoResource
    /\ pc[t] = "record" => job[t].verdict = "passed"

IInv ==
  /\ TypeOK
  /\ \A t \in Handlers : Holds(t) /\ Alone(t) /\ Route(t) /\ Retry(t)

-----------------------------------------------------------------------------
UserOrNone  == User \union {NoResource}
GroupOrNone == Group \union {NoResource}

(* The thread's own labels and local variables, and the counters, without  *)
(* the files and the provider.                                             *)
ThreadsOK ==
  /\ pc \in [Handlers -> Labels]
  /\ job \in [Handlers -> Job]
  /\ requests \in 0..MaxRequests
  /\ faults \in 0..MaxFaults
  /\ restarts \in 0..MaxRestarts

FilesOK ==
  /\ settings \in Endpoints
  /\ credential \in BOOLEAN
  /\ verification \in Discovered \union {NoFile}
  /\ lifecycle \in Result \union {NoFile}

ProviderOK ==
  /\ user \in [Endpoints -> UserOrNone]
  /\ group \in [Endpoints -> GroupOrNone]

LEMMA TypeParts == TypeOK <=> ThreadsOK /\ FilesOK /\ ProviderOK
BY DEF TypeOK, ThreadsOK, FilesOK, ProviderOK, UserOrNone, GroupOrNone

LEMMA NoJobType == NoJob \in Job
BY ScimAssumption DEF NoJob, Job, Verdicts, AllOps

(* A thread that moves keeps the types of its own state.                   *)
LEMMA VerdictType ==
  ASSUME ThreadsOK, NEW t \in Handlers, NEW v \in Verdicts, Verdict(t, v)
  PROVE  pc' \in [Handlers -> Labels] /\ job' \in [Handlers -> Job]
<1>1. [job[t] EXCEPT !.verdict = v] \in Job
  BY DEF ThreadsOK, Job
<1>2. QED
  BY <1>1 DEF Verdict, Goto, ThreadsOK, Labels

LEMMA DoneType ==
  ASSUME ThreadsOK, NEW t \in Handlers, Done(t)
  PROVE  pc' \in [Handlers -> Labels] /\ job' \in [Handlers -> Job]
BY NoJobType DEF Done, Goto, ThreadsOK, Labels

LEMMA FaultType == ThreadsOK /\ Fault => faults' \in 0..MaxFaults
BY ScimAssumption DEF ThreadsOK, Fault

(* The version a write gives a user.                                       *)
NextUser(t)  == IF MyUser(t) = NoResource THEN 1 ELSE MyUser(t).version + 1
NextGroup(t) == IF MyGroup(t) = NoResource THEN 1 ELSE MyGroup(t).version + 1

LEMMA VersionType ==
  ASSUME TypeOK, NEW t \in Handlers
  PROVE  /\ job[t].endpoint \in Endpoints /\ job[t].etag \in Nat
         /\ NextUser(t) \in Nat /\ NextGroup(t) \in Nat
         /\ MyUser(t) # NoResource => MyUser(t) \in User
         /\ MyGroup(t) # NoResource => MyGroup(t) \in Group
<1>1. job[t].endpoint \in Endpoints /\ job[t].etag \in Nat
  BY DEF TypeOK, Job
<1>2. MyUser(t) \in User \union {NoResource} /\ MyGroup(t) \in Group \union {NoResource}
  BY <1>1 DEF TypeOK, MyUser, MyGroup
<1>3. QED
  BY <1>1, <1>2 DEF NextUser, NextGroup, User, Group

UserAs(t, a)  == [active |-> a, version |-> NextUser(t), by |-> t]
GroupAs(t, a) == [member |-> a, version |-> NextGroup(t), by |-> t]

LEMMA ResourceType ==
  ASSUME TypeOK, NEW t \in Handlers, NEW a \in BOOLEAN
  PROVE  /\ UserAs(t, a) \in User /\ UserAs(t, a) # NoResource
         /\ GroupAs(t, a) \in Group /\ GroupAs(t, a) # NoResource
<1>1. UserAs(t, a) \in User /\ GroupAs(t, a) \in Group
  BY VersionType DEF UserAs, GroupAs, User, Group
<1>2. QED
  BY <1>1, ScimAssumption DEF Resource

-----------------------------------------------------------------------------
(* Where a step that was carried out goes with the version it was given,   *)
(* or with the verdict passed.                                             *)
Proceeds(t, version, next, done) ==
  IF done THEN Verdict(t, "passed")
  ELSE Goto(t, next) /\ job' = [job EXCEPT ![t].etag = version]

LEMMA ProceedsType ==
  ASSUME ThreadsOK, NEW t \in Handlers, NEW version \in Nat, NEW next \in Labels,
         NEW done \in BOOLEAN, Proceeds(t, version, next, done)
  PROVE  pc' \in [Handlers -> Labels] /\ job' \in [Handlers -> Job]
<1>1. CASE done
  BY <1>1, VerdictType DEF Proceeds, Verdicts
<1>2. CASE ~done
  <2>1. [job[t] EXCEPT !.etag = version] \in Job
    BY DEF ThreadsOK, Job
  <2>2. QED
    BY <1>2, <2>1 DEF Proceeds, Goto, ThreadsOK, Labels
<1>3. QED
  BY <1>1, <1>2

(* The three outcomes of a request that writes a user, or a group.         *)
PutsUser(t, a)  == user' = [user EXCEPT ![job[t].endpoint] = UserAs(t, a)] /\ UNCHANGED group
PutsGroup(t, a) == group' = [group EXCEPT ![job[t].endpoint] = GroupAs(t, a)] /\ UNCHANGED user

UserEffect(t, allowed, a, next, done) ==
  \/ allowed /\ PutsUser(t, a) /\ Proceeds(t, NextUser(t), next, done) /\ UNCHANGED faults
  \/ ~allowed /\ Verdict(t, "failed") /\ UNCHANGED <<provider, faults>>
  \/ Fault /\ Verdict(t, "failed") /\ (UNCHANGED provider \/ (allowed /\ PutsUser(t, a)))

GroupEffect(t, allowed, a, next, done) ==
  \/ allowed /\ PutsGroup(t, a) /\ Proceeds(t, NextGroup(t), next, done) /\ UNCHANGED faults
  \/ ~allowed /\ Verdict(t, "failed") /\ UNCHANGED <<provider, faults>>
  \/ Fault /\ Verdict(t, "failed") /\ (UNCHANGED provider \/ (allowed /\ PutsGroup(t, a)))

WritesUser(t)  == CreateUser(t) \/ ReplaceUser(t) \/ Deactivate(t) \/ Reactivate(t) \/ SetActive(t)
WritesGroup(t) == CreateGroup(t) \/ RemoveMember(t) \/ AddMember(t)

LEMMA UserWrites ==
  ASSUME NEW t \in Handlers
  PROVE  /\ CreateUser(t) => UserEffect(t, MyUser(t) = NoResource, TRUE, "replace", FALSE)
         /\ ReplaceUser(t) => UserEffect(t, MyUser(t).version = job[t].etag, TRUE, "deactivate", FALSE)
         /\ Deactivate(t) => UserEffect(t, MyUser(t).version = job[t].etag, FALSE, "reactivate", FALSE)
         /\ Reactivate(t) => UserEffect(t, MyUser(t).version = job[t].etag, TRUE, "findGroup",
                                        ~job[t].binding)
         /\ SetActive(t) => UserEffect(t, MyUser(t).version = job[t].etag,
                                       job[t].op = "reactivate", "record", TRUE)
BY DEF CreateUser, ReplaceUser, Deactivate, Reactivate, SetActive, WriteUser, Write, IfMatch,
       UserEffect, PutsUser, Proceeds, UserAs, NextUser, provider

LEMMA GroupWrites ==
  ASSUME NEW t \in Handlers
  PROVE  /\ CreateGroup(t) => GroupEffect(t, MyGroup(t) = NoResource, TRUE, "removeMember", FALSE)
         /\ RemoveMember(t) => GroupEffect(t, MyGroup(t).version = job[t].etag, FALSE, "addMember", FALSE)
         /\ AddMember(t) => GroupEffect(t, MyGroup(t).version = job[t].etag, TRUE, "record", TRUE)
BY DEF CreateGroup, RemoveMember, AddMember, WriteGroup, Write, IfMatch,
       GroupEffect, PutsGroup, Proceeds, GroupAs, NextGroup, provider

(* What a write can do, whichever it is.                                   *)
LEMMA WriteEffect ==
  ASSUME TypeOK, NEW t \in Handlers, WritesUser(t) \/ WritesGroup(t)
  PROVE  /\ \/ UNCHANGED provider
            \/ \E a \in BOOLEAN : PutsUser(t, a) \/ PutsGroup(t, a)
         /\ \/ Verdict(t, "failed")
            \/ \E v \in Nat, n \in Labels, d \in BOOLEAN : Proceeds(t, v, n, d)
         /\ UNCHANGED faults \/ Fault
         /\ UNCHANGED <<files, requests, restarts>>
<1>1. /\ NextUser(t) \in Nat /\ NextGroup(t) \in Nat
      /\ {"replace", "deactivate", "reactivate", "findGroup", "record", "removeMember",
          "addMember"} \subseteq Labels
      /\ (~job[t].binding) \in BOOLEAN /\ (job[t].op = "reactivate") \in BOOLEAN
  <2>1. job[t].binding \in BOOLEAN
    BY DEF TypeOK, Job
  <2>2. QED
    BY <2>1, VersionType DEF Labels
<1>2. UNCHANGED <<files, requests, restarts>>
  BY DEF WritesUser, WritesGroup, CreateUser, ReplaceUser, Deactivate, Reactivate, SetActive,
         CreateGroup, RemoveMember, AddMember
<1>3. CASE WritesUser(t)
  <2>1. PICK allowed \in BOOLEAN, a \in BOOLEAN, n \in Labels, d \in BOOLEAN :
               UserEffect(t, allowed, a, n, d)
    BY <1>1, <1>3, UserWrites DEF WritesUser
  <2>2. QED
    BY <1>1, <1>2, <2>1 DEF UserEffect
<1>4. CASE WritesGroup(t)
  <2>1. PICK allowed \in BOOLEAN, a \in BOOLEAN, n \in Labels, d \in BOOLEAN :
               GroupEffect(t, allowed, a, n, d)
    BY <1>1, <1>4, GroupWrites DEF WritesGroup
  <2>2. QED
    BY <1>1, <1>2, <2>1 DEF GroupEffect
<1>5. QED
  BY <1>3, <1>4

-----------------------------------------------------------------------------
(* Types.                                                                  *)

LEMMA ProviderType ==
  ASSUME TypeOK, NEW t \in Handlers, NEW a \in BOOLEAN, PutsUser(t, a) \/ PutsGroup(t, a)
  PROVE  ProviderOK'
BY ResourceType, VersionType DEF TypeOK, ProviderOK, PutsUser, PutsGroup, UserOrNone, GroupOrNone

LEMMA WriteType ==
  ASSUME TypeOK, NEW t \in Handlers, WritesUser(t) \/ WritesGroup(t)
  PROVE  TypeOK'
<1>1. ProviderOK'
  BY WriteEffect, ProviderType, TypeParts DEF ProviderOK, provider
<1>2. pc' \in [Handlers -> Labels] /\ job' \in [Handlers -> Job]
  BY WriteEffect, ProceedsType, VerdictType, TypeParts DEF Verdicts
<1>3. ThreadsOK' /\ FilesOK'
  BY <1>2, WriteEffect, FaultType, TypeParts DEF ThreadsOK, FilesOK, files
<1>4. QED
  BY <1>1, <1>3, TypeParts DEF TypeOK, ThreadsOK, FilesOK, ProviderOK, UserOrNone, GroupOrNone

(* What is put on file of a verdict.                                       *)
LEMMA ResultType ==
  ASSUME TypeOK, NEW t \in Handlers
  PROVE  /\ ResultOf(t) \in Result
         /\ ToVerification(t) => ResultOf(t) \in Discovered
<1>1. job[t] \in Job
  BY DEF TypeOK
<1>2. QED
  BY <1>1 DEF Job, ResultOf, ToVerification, Result, Discovered

(* The steps that read or write files, or only read from the provider.     *)
LEMMA OtherType ==
  ASSUME TypeOK, NEW t \in Handlers,
         \/ WriteSettings(t) \/ WriteCredential(t) \/ ClearVerification(t)
         \/ ClearLifecycle(t) \/ ReadPrevious(t) \/ MakeClient(t) \/ Discover(t)
         \/ FindUser(t) \/ FindGroup(t) \/ GetUser(t) \/ Record(t)
  PROVE  TypeOK'
<1>0. ThreadsOK /\ FilesOK /\ ProviderOK /\ job[t] \in Job
  BY TypeParts DEF TypeOK
<1>1. CASE WriteSettings(t) \/ WriteCredential(t) \/ ClearVerification(t)
  BY <1>0, <1>1 DEF WriteSettings, WriteCredential, ClearVerification, Goto, TypeOK, Job, Labels,
     provider, counters
<1>2. CASE ClearLifecycle(t)
  BY <1>0, <1>2, DoneType DEF ClearLifecycle, TypeOK, provider, counters
<1>3. CASE ReadPrevious(t)
  <2>1. CASE lifecycle # NoFile /\ lifecycle.userResourceId # NoEndpoint
    <3>1. lifecycle.userResourceId \in Endpoints \union {NoEndpoint}
      BY <2>1 DEF TypeOK, Result
    <3>2. [job[t] EXCEPT !.resource = lifecycle.userResourceId] \in Job
      BY <1>0, <3>1 DEF Job
    <3>3. QED
      BY <1>0, <1>3, <2>1, <3>2 DEF ReadPrevious, Goto, TypeOK, Labels, files, provider, counters
  <2>2. CASE ~(lifecycle # NoFile /\ lifecycle.userResourceId # NoEndpoint)
    BY <1>0, <1>3, <2>2, DoneType DEF ReadPrevious, TypeOK, files, provider, counters
  <2>3. QED
    BY <2>1, <2>2
<1>4. CASE MakeClient(t)
  <2>1. [job[t] EXCEPT !.endpoint = settings] \in Job
    BY <1>0 DEF Job, TypeOK
  <2>2. QED
    BY <1>0, <1>4, <2>1, DoneType DEF MakeClient, Goto, TypeOK, Labels, files, provider, counters
<1>5. CASE Discover(t) \/ FindUser(t) \/ FindGroup(t) \/ GetUser(t)
  <2>1. \/ \E v \in Verdicts : Verdict(t, v)
        \/ \E n \in Labels : Goto(t, n) /\ UNCHANGED job
        \/ \E n \in Labels, e \in Nat : Goto(t, n) /\ job' = [job EXCEPT ![t].etag = e]
    BY <1>5, VersionType
    DEF Discover, FindUser, FindGroup, GetUser, FailRead, Verdicts, Labels, User, Group
  <2>2. \A e \in Nat : [job[t] EXCEPT !.etag = e] \in Job
    BY <1>0 DEF Job
  <2>3. pc' \in [Handlers -> Labels] /\ job' \in [Handlers -> Job]
    <3>1. CASE \E v \in Verdicts : Verdict(t, v)
      BY <1>0, <3>1, VerdictType
    <3>2. CASE \E n \in Labels : Goto(t, n) /\ UNCHANGED job
      BY <1>0, <3>2 DEF Goto, ThreadsOK
    <3>3. CASE \E n \in Labels, e \in Nat : Goto(t, n) /\ job' = [job EXCEPT ![t].etag = e]
      BY <1>0, <2>2, <3>3 DEF Goto, ThreadsOK
    <3>4. QED
      BY <2>1, <3>1, <3>2, <3>3
  <2>4. faults' \in 0..MaxFaults
    BY <1>0, <1>5, FaultType
    DEF Discover, FindUser, FindGroup, GetUser, FailRead, ThreadsOK
  <2>5. UNCHANGED <<files, provider, requests, restarts>>
    BY <1>5 DEF Discover, FindUser, FindGroup, GetUser, FailRead
  <2>6. QED
    BY <2>3, <2>4, <2>5 DEF TypeOK, files, provider
<1>6. CASE Record(t)
  BY <1>0, <1>6, ResultType, DoneType DEF Record, TypeOK, provider, counters
<1>7. QED
  BY <1>1, <1>2, <1>3, <1>4, <1>5, <1>6

(* The variables of a request that begins.                                 *)
NewJob(op, endpoint, binding, c, a, f) ==
  [NoJob EXCEPT !.op = op, !.endpoint = endpoint, !.binding = binding,
                !.credential = c, !.alone = a, !.before = f]

LEMMA NewJobType ==
  ASSUME NEW op \in AllOps, NEW endpoint \in Endpoints, NEW binding \in BOOLEAN,
         NEW c \in BOOLEAN, NEW a \in BOOLEAN, NEW f \in 0..MaxFaults
  PROVE  /\ NewJob(op, endpoint, binding, c, a, f) \in Job
         /\ NewJob(op, endpoint, binding, c, a, f).alone = a
         /\ NewJob(op, endpoint, binding, c, a, f).before = f
         /\ NewJob(op, endpoint, binding, c, a, f).resource = NoEndpoint
         /\ NewJob(op, endpoint, binding, c, a, f).op = op
BY NoJobType DEF NewJob, NoJob, Job

(* A request begins: its own variables are fresh, and those of the others  *)
(* change in nothing but alone.                                            *)
LEMMA BeginEffect ==
  ASSUME TypeOK, NEW t \in Handlers, Begin(t)
  PROVE  /\ job' \in [Handlers -> Job]
         /\ job'[t].alone <=> \A v \in Handlers : pc[v] = "idle"
         /\ job'[t].before = faults /\ job'[t].resource = NoEndpoint
         /\ job'[t].op = "lifecycle" => pc'[t] = "client"
         /\ pc'[t] \in {"writeSettings", "previous", "client"}
         /\ \A u \in Handlers \ {t} :
              /\ job'[u] = [job[u] EXCEPT !.alone = pc[u] = "idle"]
              /\ pc'[u] = pc[u]
         /\ pc' \in [Handlers -> Labels]
         /\ requests' \in 0..MaxRequests
         /\ UNCHANGED <<files, provider, faults, restarts>>
<1>1. PICK op \in Ops, endpoint \in Endpoints, given, binding \in BOOLEAN :
        /\ op # "save" => endpoint = First /\ ~given
        /\ binding => op = "lifecycle"
        /\ job' = [u \in Handlers |->
                     IF u = t
                     THEN [NoJob EXCEPT !.op = op, !.endpoint = endpoint, !.binding = binding,
                                        !.credential = given \/ (op = "save" /\ credential),
                                        !.alone = \A v \in Handlers : pc[v] = "idle",
                                        !.before = faults]
                     ELSE [job[u] EXCEPT !.alone = pc[u] = "idle"]]
        /\ Goto(t, CASE op = "save" -> "writeSettings"
                     [] op \in {"deactivate", "reactivate"} -> "previous"
                     [] OTHER -> "client")
  BY DEF Begin
<1>2. op \in AllOps
  BY ScimAssumption
<1>3. DEFINE mine == job'[t]
<1>4. /\ mine \in Job
      /\ mine.alone <=> \A v \in Handlers : pc[v] = "idle"
      /\ mine.before = faults /\ mine.resource = NoEndpoint /\ mine.op = op
  <2>1. (given \/ (op = "save" /\ credential)) \in BOOLEAN
    OBVIOUS
  <2>2. (\A v \in Handlers : pc[v] = "idle") \in BOOLEAN
    OBVIOUS
  <2>3. faults \in 0..MaxFaults
    BY DEF TypeOK
  <2> DEFINE c == given \/ (op = "save" /\ credential)
             a == \A v \in Handlers : pc[v] = "idle"
  <2>4. mine = NewJob(op, endpoint, binding, c, a, faults)
    BY <1>1 DEF NewJob
  <2>5. c \in BOOLEAN /\ a \in BOOLEAN
    BY <2>1, <2>2
  <2> HIDE DEF mine, c, a
  <2>6. /\ mine \in Job /\ mine.alone = a
        /\ mine.before = faults /\ mine.resource = NoEndpoint /\ mine.op = op
    BY <1>2, <2>3, <2>4, <2>5, NewJobType
  <2>7. QED
    BY <2>6 DEF a
<1>5. ASSUME NEW u \in Handlers \ {t}
      PROVE  job'[u] = [job[u] EXCEPT !.alone = pc[u] = "idle"] /\ job'[u] \in Job
  <2>1. (pc[u] = "idle") \in BOOLEAN /\ job[u] \in Job
    BY DEF TypeOK
  <2>2. ASSUME NEW a \in BOOLEAN PROVE [job[u] EXCEPT !.alone = a] \in Job
    BY <2>1 DEF Job
  <2>3. job'[u] = [job[u] EXCEPT !.alone = pc[u] = "idle"]
    BY <1>1
  <2>4. QED
    BY <2>1, <2>2, <2>3
<1>6. job' \in [Handlers -> Job]
  BY <1>1, <1>4, <1>5
<1>7. /\ pc' \in [Handlers -> Labels]
      /\ pc'[t] \in {"writeSettings", "previous", "client"}
      /\ op = "lifecycle" => pc'[t] = "client"
      /\ \A u \in Handlers \ {t} : pc'[u] = pc[u]
  BY <1>1, <1>2 DEF Goto, TypeOK, Labels, AllOps
<1>8. requests' \in 0..MaxRequests /\ UNCHANGED <<files, provider, faults, restarts>>
  <2>1. /\ requests < MaxRequests /\ requests' = requests + 1
        /\ UNCHANGED <<files, provider, faults, restarts>>
    BY DEF Begin
  <2>2. QED
    BY <2>1, ScimAssumption DEF TypeOK
<1>9. QED
  BY <1>4, <1>5, <1>6, <1>7, <1>8

LEMMA NextType == TypeOK /\ [Next]_vars => TypeOK'
<1> SUFFICES ASSUME TypeOK, [Next]_vars PROVE TypeOK'
  OBVIOUS
<1>1. ASSUME NEW t \in Handlers, Begin(t) PROVE TypeOK'
  BY <1>1, BeginEffect DEF TypeOK, files, provider
<1>2. ASSUME NEW t \in Handlers, Step(t) PROVE TypeOK'
  BY <1>2, WriteType, OtherType DEF Step, WritesUser, WritesGroup
<1>3. CASE Restart
  BY <1>3, NoJobType, ScimAssumption DEF Restart, TypeOK, Labels, files, provider
<1>4. CASE UNCHANGED vars
  BY <1>4 DEF vars, files, provider, counters, TypeOK
<1>5. QED
  BY <1>1, <1>2, <1>3, <1>4 DEF Next

-----------------------------------------------------------------------------
(* What a step does to the other threads: nothing to their variables, and  *)
(* a resource it changes gets a higher version.                            *)

Raised(old, new) ==
  new = old \/ (new # NoResource /\ (old # NoResource => new.version > old.version))

LEMMA PutsRaised ==
  ASSUME TypeOK, NEW t \in Handlers, NEW a \in BOOLEAN, PutsUser(t, a) \/ PutsGroup(t, a)
  PROVE  \A e \in Endpoints : Raised(user[e], user'[e]) /\ Raised(group[e], group'[e])
<1>1. /\ UserAs(t, a) # NoResource /\ GroupAs(t, a) # NoResource
      /\ MyUser(t) # NoResource => UserAs(t, a).version > MyUser(t).version
      /\ MyGroup(t) # NoResource => GroupAs(t, a).version > MyGroup(t).version
  BY ResourceType, VersionType DEF UserAs, GroupAs, NextUser, NextGroup, User, Group
<1>2. QED
  BY <1>1, VersionType DEF TypeOK, PutsUser, PutsGroup, Raised, MyUser, MyGroup

LEMMA StepFrame ==
  ASSUME TypeOK, NEW t \in Handlers, Step(t)
  PROVE  /\ pc[t] # "idle"
         /\ \A u \in Handlers \ {t} : pc'[u] = pc[u] /\ job'[u] = job[u]
         /\ faults' \in Nat /\ faults <= faults'
         /\ \A e \in Endpoints : Raised(user[e], user'[e]) /\ Raised(group[e], group'[e])
         /\ UNCHANGED restarts
<1>0. faults \in Nat
  BY DEF TypeOK
<1>1. CASE WritesUser(t) \/ WritesGroup(t)
  <2>1. pc[t] # "idle"
    BY <1>1 DEF WritesUser, WritesGroup, CreateUser, ReplaceUser, Deactivate, Reactivate,
       SetActive, CreateGroup, RemoveMember, AddMember
  <2>2. \A u \in Handlers \ {t} : pc'[u] = pc[u] /\ job'[u] = job[u]
    BY <1>1, WriteEffect DEF Proceeds, Verdict, Goto, TypeOK
  <2>3. \A e \in Endpoints : Raised(user[e], user'[e]) /\ Raised(group[e], group'[e])
    BY <1>1, WriteEffect, PutsRaised DEF provider, Raised
  <2>4. faults' \in Nat /\ faults <= faults' /\ UNCHANGED restarts
    BY <1>0, <1>1, WriteEffect DEF Fault
  <2>5. QED
    BY <2>1, <2>2, <2>3, <2>4
<1>2. CASE ~(WritesUser(t) \/ WritesGroup(t))
  <2>1. \/ WriteSettings(t) \/ WriteCredential(t) \/ ClearVerification(t)
        \/ ClearLifecycle(t) \/ ReadPrevious(t) \/ MakeClient(t) \/ Discover(t)
        \/ FindUser(t) \/ FindGroup(t) \/ GetUser(t) \/ Record(t)
    BY <1>2 DEF Step, WritesUser, WritesGroup
  <2>2. pc[t] # "idle" /\ UNCHANGED provider /\ UNCHANGED restarts
    BY <2>1 DEF WriteSettings, WriteCredential, ClearVerification, ClearLifecycle, ReadPrevious,
       MakeClient, Discover, FindUser, FindGroup, GetUser, Record, FailRead, counters
  <2>3. UNCHANGED faults \/ Fault
    BY <2>1 DEF WriteSettings, WriteCredential, ClearVerification, ClearLifecycle, ReadPrevious,
       MakeClient, Discover, FindUser, FindGroup, GetUser, Record, FailRead, counters
  <2>4. \A u \in Handlers \ {t} : pc'[u] = pc[u] /\ job'[u] = job[u]
    BY <2>1 DEF WriteSettings, WriteCredential, ClearVerification, ClearLifecycle, ReadPrevious,
       MakeClient, Discover, FindUser, FindGroup, GetUser, Record, FailRead, Verdict, Done,
       Goto, TypeOK
  <2>5. QED
    BY <1>0, <2>2, <2>3, <2>4 DEF Fault, provider, Raised
<1>3. QED
  BY <1>1, <1>2

LEMMA OthersUndisturbed ==
  ASSUME IInv, NEW t \in Handlers, Step(t), NEW u \in Handlers \ {t}
  PROVE  Holds(u)' /\ Alone(u)' /\ Route(u)' /\ Retry(u)'
<1>0. TypeOK /\ Holds(u) /\ Alone(u) /\ Route(u) /\ Retry(u)
  BY DEF IInv
<1>1. /\ pc[t] # "idle" /\ pc'[u] = pc[u] /\ job'[u] = job[u]
      /\ \A v \in Handlers \ {t} : pc'[v] = pc[v]
      /\ faults' \in Nat /\ faults <= faults'
      /\ job[u].before \in Nat /\ faults \in Nat
  BY <1>0, StepFrame DEF TypeOK, Job
<1>2. /\ job[u].endpoint \in Endpoints /\ job[u].etag \in Nat
      /\ MyUser(u) # NoResource => MyUser(u).version \in Nat
      /\ MyGroup(u) # NoResource => MyGroup(u).version \in Nat
  BY <1>0, VersionType DEF User, Group
<1>3. TypeOK'
  BY <1>0, NextType DEF Next
<1>4. /\ MyUser(u)' # NoResource => MyUser(u)'.version \in Nat
      /\ MyGroup(u)' # NoResource => MyGroup(u)'.version \in Nat
  BY <1>1, <1>2, <1>3 DEF TypeOK, MyUser, MyGroup, User, Group
<1>5. Raised(MyUser(u), MyUser(u)') /\ Raised(MyGroup(u), MyGroup(u)')
  BY <1>0, <1>1, <1>2, StepFrame DEF MyUser, MyGroup
<1>6. Holds(u)'
  BY <1>0, <1>1, <1>2, <1>4, <1>5 DEF Holds, Raised, UserSteps, GroupSteps
<1>7. Alone(u)' /\ Route(u)'
  BY <1>0, <1>1 DEF Alone, Route
<1>8. Retry(u)'
  BY <1>0, <1>1 DEF Retry, Smooth, Alone, UserSteps, GroupSteps
<1>9. QED
  BY <1>6, <1>7, <1>8

-----------------------------------------------------------------------------
(* What a step does to its own thread.                                     *)

(* After a verdict a thread holds nothing; the verdict of a smooth         *)
(* lifecycle is passed, for failed and contract take a failed request.     *)
LEMMA VerdictHolds ==
  ASSUME IInv, NEW t \in Handlers, Step(t), NEW v \in Verdicts, Verdict(t, v),
         v = "passed" \/ Fault \/ ~Smooth(t), pc[t] \notin {"getUser", "previous"}
  PROVE  Holds(t)' /\ Alone(t)' /\ Route(t)' /\ Retry(t)'
<1>0. TypeOK /\ Alone(t) /\ Route(t)
  BY DEF IInv
<1>1. /\ pc'[t] = "record"
      /\ job'[t] = [job[t] EXCEPT !.verdict = v]
  BY <1>0 DEF Verdict, Goto, TypeOK
<1>2. /\ job'[t].op = job[t].op /\ job'[t].alone = job[t].alone
      /\ job'[t].before = job[t].before /\ job'[t].resource = job[t].resource
      /\ job'[t].verdict = v
  BY <1>0, <1>1 DEF TypeOK, Job
<1>3. /\ faults \in Nat /\ faults' \in Nat /\ faults <= faults' /\ job[t].before \in Nat
      /\ pc[t] # "idle"
      /\ \A u \in Handlers \ {t} : pc'[u] = pc[u]
  BY <1>0, StepFrame DEF TypeOK, Job
<1>4. Holds(t)'
  BY <1>1 DEF Holds, UserSteps, GroupSteps
<1>5. Alone(t)' /\ Route(t)'
  BY <1>0, <1>1, <1>2, <1>3 DEF Alone, Route
<1>6. Retry(t)'
  <2>1. Fault => faults' > job[t].before
    BY <1>0, <1>3 DEF Fault, Alone
  <2>2. Smooth(t)' => v = "passed"
    <3>1. ASSUME Smooth(t)', v # "passed" PROVE FALSE
      <4>1. job[t].op = "lifecycle" /\ job[t].alone /\ faults' = job[t].before
        BY <1>2, <3>1 DEF Smooth
      <4>2. faults = job[t].before
        BY <1>0, <1>3, <4>1 DEF Alone
      <4>3. QED
        BY <1>3, <2>1, <3>1, <4>1, <4>2 DEF Smooth
    <3>2. QED
      BY <3>1
  <2>3. QED
    BY <1>1, <1>2, <2>2 DEF Retry, UserSteps, GroupSteps
<1>7. QED
  BY <1>4, <1>5, <1>6

(* A thread that goes on keeps the variables the invariant reads.          *)
LEMMA GoesOn ==
  ASSUME IInv, NEW t \in Handlers, Step(t), NEW n \in Labels \ {"previous", "getUser"},
         NEW etag \in Nat, Goto(t, n), job' = [job EXCEPT ![t].etag = etag]
  PROVE  /\ pc'[t] = n /\ job'[t].etag = etag
         /\ job'[t].endpoint = job[t].endpoint
         /\ job'[t].op = job[t].op /\ job'[t].alone = job[t].alone
         /\ job'[t].before = job[t].before
         /\ Alone(t)' /\ Route(t)'
         /\ Smooth(t)' => Smooth(t)
<1>0. TypeOK /\ Alone(t) /\ Route(t)
  BY DEF IInv
<1>1. /\ pc'[t] = n /\ job'[t] = [job[t] EXCEPT !.etag = etag]
  BY <1>0 DEF Goto, TypeOK
<1>2. /\ job'[t].op = job[t].op /\ job'[t].alone = job[t].alone /\ job'[t].etag = etag
      /\ job'[t].before = job[t].before /\ job'[t].resource = job[t].resource
      /\ job'[t].endpoint = job[t].endpoint
  BY <1>0, <1>1 DEF TypeOK, Job
<1>3. /\ faults \in Nat /\ faults' \in Nat /\ faults <= faults' /\ job[t].before \in Nat
      /\ pc[t] # "idle"
      /\ \A u \in Handlers \ {t} : pc'[u] = pc[u]
  BY <1>0, StepFrame DEF TypeOK, Job
<1>4. Alone(t)' /\ Route(t)'
  BY <1>0, <1>1, <1>2, <1>3 DEF Alone, Route
<1>5. Smooth(t)' => Smooth(t)
  BY <1>0, <1>2, <1>3 DEF Smooth, Alone
<1>6. QED
  BY <1>1, <1>2, <1>4, <1>5

(* A user write that was carried out: the thread holds the version it made.*)
LEMMA CarriedOutUser ==
  ASSUME IInv, NEW t \in Handlers, Step(t), NEW a \in BOOLEAN, PutsUser(t, a),
         NEW n \in {"replace", "deactivate", "reactivate", "findGroup"}, NEW d \in BOOLEAN,
         Proceeds(t, NextUser(t), n, d), pc[t] \notin {"getUser", "previous"}
  PROVE  Holds(t)' /\ Alone(t)' /\ Route(t)' /\ Retry(t)'
<1>0. TypeOK
  BY DEF IInv
<1>1. CASE d
  BY <1>1, VerdictHolds DEF Proceeds, Verdicts
<1>2. CASE ~d
  <2>1. Goto(t, n) /\ job' = [job EXCEPT ![t].etag = NextUser(t)]
    BY <1>2 DEF Proceeds
  <2>2. n \in Labels \ {"previous", "getUser"} /\ NextUser(t) \in Nat
    BY <1>0, VersionType DEF Labels
  <2>3. /\ pc'[t] = n /\ job'[t].etag = NextUser(t) /\ job'[t].endpoint = job[t].endpoint
        /\ Alone(t)' /\ Route(t)'
    BY <2>1, <2>2, GoesOn
  <2>4. MyUser(t)' = UserAs(t, a)
    BY <1>0, <2>3, VersionType DEF PutsUser, MyUser, TypeOK
  <2>5. /\ MyUser(t)' # NoResource /\ MyUser(t)'.version = NextUser(t) /\ MyUser(t)'.by = t
    BY <1>0, <2>4, ResourceType DEF UserAs
  <2>6. Holds(t)'
    BY <2>2, <2>3, <2>5 DEF Holds, GroupSteps
  <2>7. Retry(t)'
    BY <2>3, <2>5 DEF Retry, GroupSteps
  <2>8. QED
    BY <2>3, <2>6, <2>7
<1>3. QED
  BY <1>1, <1>2

LEMMA CarriedOutGroup ==
  ASSUME IInv, NEW t \in Handlers, Step(t), NEW a \in BOOLEAN, PutsGroup(t, a),
         NEW n \in {"removeMember", "addMember"},
         Goto(t, n), job' = [job EXCEPT ![t].etag = NextGroup(t)]
  PROVE  Holds(t)' /\ Alone(t)' /\ Route(t)' /\ Retry(t)'
<1>0. TypeOK
  BY DEF IInv
<1>1. n \in Labels \ {"previous", "getUser"} /\ NextGroup(t) \in Nat
  BY <1>0, VersionType DEF Labels
<1>2. /\ pc'[t] = n /\ job'[t].etag = NextGroup(t) /\ job'[t].endpoint = job[t].endpoint
      /\ Alone(t)' /\ Route(t)'
  BY <1>1, GoesOn
<1>3. MyGroup(t)' = GroupAs(t, a)
  BY <1>0, <1>2, VersionType DEF PutsGroup, MyGroup, TypeOK
<1>4. /\ MyGroup(t)' # NoResource /\ MyGroup(t)'.version = NextGroup(t) /\ MyGroup(t)'.by = t
  BY <1>0, <1>3, ResourceType DEF GroupAs
<1>5. Holds(t)'
  BY <1>1, <1>2, <1>4 DEF Holds, UserSteps
<1>6. Retry(t)'
  BY <1>2, <1>4 DEF Retry, UserSteps
<1>7. QED
  BY <1>2, <1>5, <1>6

LEMMA OwnUserWrite ==
  ASSUME IInv, NEW t \in Handlers, WritesUser(t)
  PROVE  Holds(t)' /\ Alone(t)' /\ Route(t)' /\ Retry(t)'
<1>0. /\ TypeOK /\ Retry(t) /\ Step(t)
      /\ pc[t] \in UserSteps \union {"createUser"}
      /\ CreateUser(t) => pc[t] = "createUser"
      /\ ~CreateUser(t) => pc[t] \in UserSteps
  BY DEF IInv, WritesUser, Step, CreateUser, ReplaceUser, Deactivate, Reactivate, SetActive,
     UserSteps
<1>1. PICK allowed \in BOOLEAN, a \in BOOLEAN, d \in BOOLEAN,
           n \in {"replace", "deactivate", "reactivate", "findGroup"} :
        /\ UserEffect(t, allowed, a, n, d)
        /\ Smooth(t) => allowed
  <2>1. job[t].binding \in BOOLEAN /\ (job[t].op = "reactivate") \in BOOLEAN
    BY <1>0 DEF TypeOK, Job
  <2>2. CASE CreateUser(t)
    BY <1>0, <2>2, UserWrites DEF Retry
  <2>3. CASE ~CreateUser(t)
    <3>1. Smooth(t) => MyUser(t).version = job[t].etag
      BY <1>0, <2>3 DEF Retry
    <3>2. CASE SetActive(t)
      <4>1. UserEffect(t, MyUser(t).version = job[t].etag, job[t].op = "reactivate",
                       "findGroup", TRUE)
        BY <3>2, UserWrites DEF UserEffect, Proceeds
      <4>2. QED
        BY <2>1, <3>1, <4>1
    <3>3. CASE ReplaceUser(t) \/ Deactivate(t) \/ Reactivate(t)
      BY <2>1, <3>1, <3>3, UserWrites
    <3>4. QED
      BY <2>3, <3>2, <3>3 DEF WritesUser
  <2>4. QED
    BY <2>2, <2>3
<1>2. pc[t] \notin {"getUser", "previous"} /\ "failed" \in Verdicts
  BY <1>0 DEF UserSteps, Verdicts
<1>3. CASE allowed /\ PutsUser(t, a) /\ Proceeds(t, NextUser(t), n, d)
  BY <1>0, <1>2, <1>3, CarriedOutUser
<1>4. CASE Verdict(t, "failed") /\ (Fault \/ ~Smooth(t))
  BY <1>0, <1>2, <1>4, VerdictHolds
<1>5. QED
  BY <1>1, <1>3, <1>4 DEF UserEffect

LEMMA OwnGroupWrite ==
  ASSUME IInv, NEW t \in Handlers, WritesGroup(t)
  PROVE  Holds(t)' /\ Alone(t)' /\ Route(t)' /\ Retry(t)'
<1>0. /\ TypeOK /\ Retry(t) /\ Step(t)
      /\ pc[t] \in GroupSteps \union {"createGroup"}
      /\ CreateGroup(t) => pc[t] = "createGroup"
      /\ ~CreateGroup(t) => pc[t] \in GroupSteps
  BY DEF IInv, WritesGroup, Step, CreateGroup, RemoveMember, AddMember, GroupSteps
<1>1. PICK allowed \in BOOLEAN, a \in BOOLEAN, d \in BOOLEAN,
           n \in {"removeMember", "addMember"} :
        /\ GroupEffect(t, allowed, a, n, d)
        /\ Smooth(t) => allowed
  <2>1. CASE CreateGroup(t)
    BY <1>0, <2>1, GroupWrites DEF Retry
  <2>2. CASE ~CreateGroup(t)
    <3>1. Smooth(t) => MyGroup(t).version = job[t].etag
      BY <1>0, <2>2 DEF Retry
    <3>2. CASE AddMember(t)
      <4>1. GroupEffect(t, MyGroup(t).version = job[t].etag, TRUE, "addMember", TRUE)
        BY <3>2, GroupWrites DEF GroupEffect, Proceeds
      <4>2. QED
        BY <3>1, <4>1
    <3>3. CASE RemoveMember(t)
      BY <3>1, <3>3, GroupWrites
    <3>4. QED
      BY <2>2, <3>2, <3>3 DEF WritesGroup
  <2>3. QED
    BY <2>1, <2>2
<1>2. /\ pc[t] \notin {"getUser", "previous"}
      /\ "failed" \in Verdicts /\ "passed" \in Verdicts
  BY <1>0 DEF GroupSteps, Verdicts
<1>3. CASE PutsGroup(t, a) /\ Proceeds(t, NextGroup(t), n, d)
  <2>1. CASE d
    BY <1>0, <1>2, <1>3, <2>1, VerdictHolds DEF Proceeds
  <2>2. CASE ~d
    BY <1>0, <1>3, <2>2, CarriedOutGroup DEF Proceeds
  <2>3. QED
    BY <2>1, <2>2
<1>4. CASE Verdict(t, "failed") /\ (Fault \/ ~Smooth(t))
  BY <1>0, <1>2, <1>4, VerdictHolds
<1>5. QED
  BY <1>1, <1>3, <1>4 DEF GroupEffect

(* A request that ends.                                                    *)
LEMMA DoneHolds ==
  ASSUME IInv, NEW t \in Handlers, Step(t), Done(t)
  PROVE  Holds(t)' /\ Alone(t)' /\ Route(t)' /\ Retry(t)'
<1>1. pc'[t] = "idle" /\ job'[t] = NoJob
  BY DEF IInv, TypeOK, Done, Goto
<1>2. NoJob.op = "none" /\ NoJob.before = 0
  BY DEF NoJob
<1>3. faults' \in Nat
  BY StepFrame DEF IInv
<1>4. QED
  BY <1>1, <1>2, <1>3 DEF Holds, Alone, Route, Retry, Smooth, UserSteps, GroupSteps

(* A step to a label at which the invariant asks nothing of the provider.  *)
LEMMA Passes ==
  ASSUME IInv, NEW t \in Handlers, Step(t),
         NEW n \in Labels \ (UserSteps \union GroupSteps \union
                             {"createUser", "createGroup", "record", "previous"}),
         n = "getUser" => job[t].op # "lifecycle",
         pc'[t] = n, job'[t].op = job[t].op, job'[t].alone = job[t].alone,
         job'[t].before = job[t].before,
         job[t].op = "lifecycle" => job'[t].resource = job[t].resource
  PROVE  Holds(t)' /\ Alone(t)' /\ Route(t)' /\ Retry(t)'
<1>0. TypeOK /\ Alone(t) /\ Route(t)
  BY DEF IInv
<1>1. /\ faults \in Nat /\ faults' \in Nat /\ faults <= faults' /\ job[t].before \in Nat
      /\ pc[t] # "idle"
      /\ \A u \in Handlers \ {t} : pc'[u] = pc[u]
  BY <1>0, StepFrame DEF TypeOK, Job
<1>2. Alone(t)'
  BY <1>0, <1>1 DEF Alone
<1>3. Route(t)'
  BY <1>0 DEF Route
<1>4. Holds(t)' /\ Retry(t)'
  BY DEF Holds, Retry, UserSteps, GroupSteps
<1>5. QED
  BY <1>2, <1>3, <1>4

LEMMA OwnFile ==
  ASSUME IInv, NEW t \in Handlers,
         \/ WriteSettings(t) \/ WriteCredential(t) \/ ClearVerification(t)
         \/ ClearLifecycle(t) \/ ReadPrevious(t) \/ MakeClient(t) \/ Record(t)
  PROVE  Holds(t)' /\ Alone(t)' /\ Route(t)' /\ Retry(t)'
<1>0. TypeOK /\ Route(t) /\ Step(t) /\ job[t] \in Job
  BY DEF IInv, Step, TypeOK
<1>1. CASE Done(t)
  BY <1>0, <1>1, DoneHolds
<1>2. CASE WriteSettings(t) \/ WriteCredential(t) \/ ClearVerification(t)
  <2>1. /\ pc'[t] \in {"writeCredential", "clearVerification", "clearLifecycle"}
        /\ job' = job
    BY <1>0, <1>2 DEF WriteSettings, WriteCredential, ClearVerification, Goto, TypeOK
  <2>2. QED
    BY <1>0, <2>1, Passes DEF Labels, UserSteps, GroupSteps
<1>3. CASE ReadPrevious(t) /\ ~Done(t)
  <2>1. /\ pc[t] = "previous" /\ pc'[t] = "client"
        /\ job'[t] = [job[t] EXCEPT !.resource = lifecycle.userResourceId]
    BY <1>0, <1>3 DEF ReadPrevious, Goto, TypeOK
  <2>2. /\ job'[t].op = job[t].op /\ job'[t].alone = job[t].alone
        /\ job'[t].before = job[t].before
    BY <1>0, <2>1 DEF Job
  <2>3. job[t].op # "lifecycle"
    BY <1>0, <2>1 DEF Route
  <2>4. QED
    BY <1>0, <2>1, <2>2, <2>3, Passes DEF Labels, UserSteps, GroupSteps
<1>4. CASE MakeClient(t) /\ ~Done(t)
  <2>1. /\ pc'[t] = (IF job[t].resource = NoEndpoint THEN "discover" ELSE "getUser")
        /\ job'[t] = [job[t] EXCEPT !.endpoint = settings]
    BY <1>0, <1>4 DEF MakeClient, Goto, TypeOK
  <2>2. /\ job'[t].op = job[t].op /\ job'[t].alone = job[t].alone
        /\ job'[t].before = job[t].before /\ job'[t].resource = job[t].resource
    BY <1>0, <2>1 DEF Job
  <2>3. pc'[t] = "discover" \/ (pc'[t] = "getUser" /\ job[t].op # "lifecycle")
    BY <1>0, <2>1 DEF Route
  <2>4. QED
    BY <1>0, <2>2, <2>3, Passes DEF Labels, UserSteps, GroupSteps
<1>5. QED
  BY <1>1, <1>2, <1>3, <1>4 DEF ClearLifecycle, Record

(* What a search of a resource leads to.                                   *)
LEMMA OwnSearch ==
  ASSUME IInv, NEW t \in Handlers, Discover(t) \/ FindUser(t) \/ FindGroup(t) \/ GetUser(t)
  PROVE  Holds(t)' /\ Alone(t)' /\ Route(t)' /\ Retry(t)'
<1>0. /\ TypeOK /\ Route(t) /\ Step(t) /\ job[t] \in Job
      /\ {"passed", "failed", "contract"} \subseteq Verdicts
  BY DEF IInv, Step, TypeOK, Verdicts
<1>1. CASE GetUser(t)
  <2>1. pc[t] = "getUser" /\ job[t].op # "lifecycle"
    BY <1>0, <1>1 DEF GetUser, Route
  <2>2. CASE Verdict(t, "failed")
    <3>1. /\ pc'[t] = "record" /\ job'[t] = [job[t] EXCEPT !.verdict = "failed"]
      BY <1>0, <2>2 DEF Verdict, Goto, TypeOK
    <3>2. /\ job'[t].op # "lifecycle" /\ job'[t].alone = job[t].alone
          /\ job'[t].before = job[t].before
      BY <1>0, <2>1, <3>1 DEF Job
    <3>3. /\ faults' \in Nat /\ faults <= faults' /\ faults \in Nat /\ job[t].before \in Nat
          /\ \A u \in Handlers \ {t} : pc'[u] = pc[u]
      BY <1>0, StepFrame DEF TypeOK, Job
    <3>4. Alone(t)'
      BY <2>1, <3>1, <3>2, <3>3 DEF Alone, IInv
    <3>5. QED
      BY <3>1, <3>2, <3>4 DEF Holds, Route, Retry, Smooth, UserSteps, GroupSteps
  <2>3. CASE /\ MyUser(t) # NoResource /\ Goto(t, "setActive") /\ UNCHANGED provider
             /\ job' = [job EXCEPT ![t].etag = MyUser(t).version]
    <3>1. MyUser(t).version \in Nat /\ "setActive" \in Labels \ {"previous", "getUser"}
      BY <1>0, <2>3, VersionType DEF User, Labels
    <3>2. /\ pc'[t] = "setActive" /\ job'[t].etag = MyUser(t).version
          /\ MyUser(t)' = MyUser(t) /\ job'[t].op # "lifecycle"
          /\ Alone(t)' /\ Route(t)'
      BY <1>0, <2>1, <2>3, <3>1, GoesOn DEF MyUser, provider
    <3>3. QED
      BY <2>3, <3>1, <3>2 DEF Holds, Retry, Smooth, GroupSteps
  <2>4. QED
    BY <1>1, <2>2, <2>3 DEF GetUser, FailRead
<1>2. CASE Discover(t) \/ FindUser(t) \/ FindGroup(t)
  <2>0. pc[t] \notin {"getUser", "previous"}
    BY <1>2 DEF Discover, FindUser, FindGroup
  <2>1. CASE Verdict(t, "passed") \/ (Fault /\ \E v \in {"failed", "contract"} : Verdict(t, v))
    BY <1>0, <2>0, <2>1, VerdictHolds
  <2>2. CASE Goto(t, "findUser") /\ UNCHANGED job
    <3>1. pc'[t] = "findUser" /\ job'[t] = job[t]
      BY <1>0, <2>2 DEF Goto, TypeOK
    <3>2. QED
      BY <1>0, <3>1, Passes DEF Labels, UserSteps, GroupSteps
  <2>3. CASE /\ MyUser(t) # NoResource /\ Goto(t, "replace") /\ UNCHANGED provider
             /\ job' = [job EXCEPT ![t].etag = MyUser(t).version]
    <3>1. MyUser(t).version \in Nat /\ "replace" \in Labels \ {"previous", "getUser"}
      BY <1>0, <2>3, VersionType DEF User, Labels
    <3>2. /\ pc'[t] = "replace" /\ job'[t].etag = MyUser(t).version
          /\ MyUser(t)' = MyUser(t) /\ Alone(t)' /\ Route(t)'
      BY <1>0, <2>3, <3>1, GoesOn DEF MyUser, provider
    <3>3. QED
      BY <2>3, <3>1, <3>2 DEF Holds, Retry, GroupSteps
  <2>4. CASE /\ MyGroup(t) # NoResource /\ Goto(t, "removeMember") /\ UNCHANGED provider
             /\ job' = [job EXCEPT ![t].etag = MyGroup(t).version]
    <3>1. MyGroup(t).version \in Nat /\ "removeMember" \in Labels \ {"previous", "getUser"}
      BY <1>0, <2>4, VersionType DEF Group, Labels
    <3>2. /\ pc'[t] = "removeMember" /\ job'[t].etag = MyGroup(t).version
          /\ MyGroup(t)' = MyGroup(t) /\ Alone(t)' /\ Route(t)'
      BY <1>0, <2>4, <3>1, GoesOn DEF MyGroup, provider
    <3>3. QED
      BY <2>4, <3>1, <3>2 DEF Holds, Retry, UserSteps
  <2>5. CASE /\ UNCHANGED <<provider, job>>
             /\ \/ MyUser(t) = NoResource /\ Goto(t, "createUser")
                \/ MyGroup(t) = NoResource /\ Goto(t, "createGroup")
    <3>1. /\ job' = [job EXCEPT ![t].etag = job[t].etag] /\ job[t].etag \in Nat
          /\ {"createUser", "createGroup"} \subseteq Labels \ {"previous", "getUser"}
      BY <1>0, <2>5 DEF TypeOK, Job, Labels
    <3>2. /\ Alone(t)' /\ Route(t)'
          /\ \/ pc'[t] = "createUser" /\ MyUser(t) = NoResource
             \/ pc'[t] = "createGroup" /\ MyGroup(t) = NoResource
      BY <1>0, <2>5, <3>1, GoesOn
    <3>3. MyUser(t)' = MyUser(t) /\ MyGroup(t)' = MyGroup(t)
      BY <2>5 DEF MyUser, MyGroup, provider
    <3>4. QED
      BY <3>2, <3>3 DEF Holds, Retry, UserSteps, GroupSteps
  <2>6. QED
    BY <1>2, <2>1, <2>2, <2>3, <2>4, <2>5 DEF Discover, FindUser, FindGroup, FailRead, provider
<1>3. QED
  BY <1>1, <1>2

LEMMA OwnStep ==
  ASSUME IInv, NEW t \in Handlers, Step(t)
  PROVE  Holds(t)' /\ Alone(t)' /\ Route(t)' /\ Retry(t)'
BY OwnUserWrite, OwnGroupWrite, OwnFile, OwnSearch DEF Step, WritesUser, WritesGroup

-----------------------------------------------------------------------------
(* The steps that are not of a request in progress.                        *)

(* A request that begins ends the solitude of the others.                  *)
LEMMA BeginStep ==
  ASSUME IInv, NEW t \in Handlers, Begin(t), NEW u \in Handlers
  PROVE  Holds(u)' /\ Alone(u)' /\ Route(u)' /\ Retry(u)'
<1>0. /\ TypeOK /\ Holds(u) /\ Alone(u) /\ Route(u) /\ job[u] \in Job
      /\ faults \in Nat /\ faults' = faults
  BY BeginEffect DEF IInv, TypeOK
<1>1. CASE u = t
  <2>1. /\ pc'[t] \in {"writeSettings", "previous", "client"}
        /\ job'[t].before = faults /\ job'[t].resource = NoEndpoint
        /\ job'[t].op = "lifecycle" => pc'[t] = "client"
        /\ job'[t].alone => \A v \in Handlers \ {t} : pc'[v] = "idle"
    BY <1>0, BeginEffect
  <2>2. QED
    BY <1>0, <1>1, <2>1 DEF Holds, Alone, Route, Retry, UserSteps, GroupSteps
<1>2. CASE u # t
  <2>1. /\ job'[u] = [job[u] EXCEPT !.alone = pc[u] = "idle"] /\ pc'[u] = pc[u]
        /\ UNCHANGED provider
    BY <1>0, <1>2, BeginEffect
  <2>2. /\ job'[u].op = job[u].op /\ job'[u].endpoint = job[u].endpoint
        /\ job'[u].etag = job[u].etag /\ job'[u].resource = job[u].resource
        /\ job'[u].before = job[u].before
        /\ job'[u].alone <=> pc[u] = "idle"
    BY <1>0, <2>1 DEF Job
  <2>3. MyUser(u)' = MyUser(u) /\ MyGroup(u)' = MyGroup(u)
    BY <2>1, <2>2 DEF MyUser, MyGroup, provider
  <2>4. Holds(u)' /\ Route(u)'
    BY <1>0, <2>1, <2>2, <2>3 DEF Holds, Route
  <2>5. Alone(u)'
    BY <1>0, <2>1, <2>2 DEF Alone
  <2>6. Retry(u)'
    BY <2>1, <2>2 DEF Retry, Smooth, UserSteps, GroupSteps
  <2>7. QED
    BY <2>4, <2>5, <2>6
<1>3. QED
  BY <1>1, <1>2

LEMMA RestartStep ==
  ASSUME IInv, Restart, NEW u \in Handlers
  PROVE  Holds(u)' /\ Alone(u)' /\ Route(u)' /\ Retry(u)'
<1>1. /\ pc'[u] = "idle" /\ job'[u] = NoJob /\ faults' \in Nat
  BY DEF Restart, IInv, TypeOK
<1>2. NoJob.op = "none" /\ NoJob.before = 0
  BY DEF NoJob
<1>3. QED
  BY <1>1, <1>2 DEF Holds, Alone, Route, Retry, Smooth, UserSteps, GroupSteps

LEMMA InitIInv == Init => IInv
<1> SUFFICES ASSUME Init PROVE IInv
  OBVIOUS
<1>1. TypeOK
  <2>1. 0 \in 0..MaxRequests /\ 0 \in 0..MaxFaults /\ 0 \in 0..MaxRestarts
    BY ScimAssumption
  <2>2. ThreadsOK
    BY <2>1, NoJobType DEF Init, ThreadsOK, Labels
  <2>3. FilesOK /\ ProviderOK
    BY ScimAssumption DEF Init, FilesOK, ProviderOK, UserOrNone, GroupOrNone
  <2>4. QED
    BY <2>2, <2>3, TypeParts
<1>2. NoJob.op = "none" /\ NoJob.before = 0
  BY DEF NoJob
<1>3. ASSUME NEW t \in Handlers PROVE Holds(t) /\ Alone(t) /\ Route(t) /\ Retry(t)
  BY <1>2 DEF Init, Holds, Alone, Route, Retry, Smooth, UserSteps, GroupSteps
<1>4. QED
  BY <1>1, <1>3 DEF IInv

LEMMA NextIInv == IInv /\ [Next]_vars => IInv'
<1> SUFFICES ASSUME IInv, [Next]_vars PROVE IInv'
  OBVIOUS
<1>0. TypeOK'
  BY NextType DEF IInv
<1>1. ASSUME NEW u \in Handlers PROVE Holds(u)' /\ Alone(u)' /\ Route(u)' /\ Retry(u)'
  <2>1. ASSUME NEW t \in Handlers, Begin(t) PROVE Holds(u)' /\ Alone(u)' /\ Route(u)' /\ Retry(u)'
    BY <2>1, BeginStep
  <2>2. ASSUME NEW t \in Handlers, Step(t) PROVE Holds(u)' /\ Alone(u)' /\ Route(u)' /\ Retry(u)'
    BY <2>2, OwnStep, OthersUndisturbed
  <2>3. CASE Restart
    BY <2>3, RestartStep
  <2>4. CASE UNCHANGED vars
    BY <2>4 DEF vars, files, provider, counters, IInv, Holds, Alone, Route, Retry, Smooth,
       MyUser, MyGroup
  <2>5. QED
    BY <2>1, <2>2, <2>3, <2>4 DEF Next
<1>2. QED
  BY <1>0, <1>1 DEF IInv

-----------------------------------------------------------------------------
LEMMA Invariance == Spec => []IInv
<1>1. QED
  BY InitIInv, NextIInv, PTL DEF Spec

(* Every file, resource and local variable of save_scim, verify_scim,      *)
(* run_scim_lifecycle and set_scim_lifecycle_user_active has its type.     *)
THEOREM TypeCorrect == Spec => []TypeOK
<1>1. IInv => TypeOK
  BY DEF IInv
<1>2. QED
  BY <1>1, Invariance, PTL

(* run_lifecycle (scim.py:677-756): however earlier requests failed, were  *)
(* interrupted or overlapped each other, a lifecycle that nothing overlaps *)
(* and none of whose requests fails ends with the verdict passed.          *)
THEOREM RetryCorrect == Spec => []RetryPasses
<1>1. IInv => RetryPasses
  BY DEF IInv, Retry, Smooth, RetryPasses
<1>2. QED
  BY <1>1, Invariance, PTL

(* patch_user_active and patch_group_membership send If-Match: a lifecycle *)
(* reactivates only a user it deactivated itself, and restores only a      *)
(* membership it removed itself, however many run at once.                 *)
THEOREM UndoCorrect == Spec => UndoesItsOwn
<1>1. IInv /\ [Next]_vars =>
        [\A t \in Handlers :
           /\ Reactivate(t) /\ user' # user => MyUser(t).by = t
           /\ AddMember(t) /\ group' # group => MyGroup(t).by = t]_vars
  <2> SUFFICES ASSUME IInv, NEW t \in Handlers
      PROVE /\ Reactivate(t) /\ user' # user => MyUser(t).by = t
            /\ AddMember(t) /\ group' # group => MyGroup(t).by = t
    OBVIOUS
  <2>0. TypeOK /\ Holds(t)
    BY DEF IInv
  <2>1. ASSUME Reactivate(t), user' # user PROVE MyUser(t).by = t
    <3>1. MyUser(t).version = job[t].etag
      BY <2>1, UserWrites DEF UserEffect, provider
    <3>2. pc[t] = "reactivate"
      BY <2>1 DEF Reactivate
    <3>3. QED
      BY <2>0, <3>1, <3>2 DEF Holds
  <2>2. ASSUME AddMember(t), group' # group PROVE MyGroup(t).by = t
    <3>1. MyGroup(t).version = job[t].etag
      BY <2>2, GroupWrites DEF GroupEffect, provider
    <3>2. pc[t] = "addMember"
      BY <2>2 DEF AddMember
    <3>3. QED
      BY <2>0, <3>1, <3>2 DEF Holds
  <2>3. QED
    BY <2>1, <2>2
<1>2. QED
  BY <1>1, Invariance, PTL DEF Spec, UndoesItsOwn

-----------------------------------------------------------------------------
(* What is on file of the service provider.                                *)

LifecycleSteps == {"findUser", "createUser", "replace", "deactivate", "reactivate",
                   "findGroup", "createGroup", "removeMember", "addMember"}
WriterSteps    == (LifecycleSteps \ {"findUser"}) \union {"setActive"}

(* Which operation is at a label.                                          *)
Kind(t) ==
  /\ job[t].binding => job[t].op = "lifecycle"
  /\ pc[t] \in LifecycleSteps => job[t].op = "lifecycle"
  /\ pc[t] \in {"previous", "getUser", "setActive"} => job[t].op \in {"deactivate", "reactivate"}
  /\ pc[t] = "client" =>
       /\ job[t].op \notin {"save", "none"}
       /\ job[t].resource # NoEndpoint <=> job[t].op \in {"deactivate", "reactivate"}
  /\ pc[t] = "discover" => job[t].op \in {"verify", "lifecycle"}

(* A request that may have written to the provider, and will record it.    *)
Writer(t) ==
  \/ pc[t] \in WriterSteps
  \/ pc[t] = "record" /\ job[t].op # "verify" /\ job[t].verdict # "contract"

(* What a request nothing overlapped has made of its resources.            *)
Made(t) ==
  job[t].alone =>
    /\ pc[t] \in {"findGroup", "createGroup", "removeMember", "addMember"} => MyUser(t).active = TRUE
    /\ pc[t] = "record" /\ job[t].verdict = "passed" /\ job[t].op # "verify" =>
         /\ MyUser(t).active = (job[t].op # "deactivate")
         /\ job[t].binding => MyGroup(t).member

Claims == restarts = 0 /\ lifecycle # NoFile /\ lifecycle.alone /\ lifecycle.passed

Held ==
  /\ user[lifecycle.endpoint].active = lifecycle.active
  /\ lifecycle.member => group[lifecycle.endpoint].member

(* The result on file is true, or a later request has yet to replace it.   *)
OnFile == Claims => Held \/ \E t \in Handlers : Writer(t)

FInv == OnFile /\ \A t \in Handlers : Kind(t) /\ Made(t)

-----------------------------------------------------------------------------
LEMMA VerdictFields ==
  ASSUME TypeOK, NEW t \in Handlers, NEW v \in Verdicts, Verdict(t, v)
  PROVE  /\ pc'[t] = "record" /\ job'[t].verdict = v
         /\ job'[t].op = job[t].op /\ job'[t].alone = job[t].alone
         /\ job'[t].binding = job[t].binding /\ job'[t].endpoint = job[t].endpoint
<1>1. job'[t] = [job[t] EXCEPT !.verdict = v] /\ job[t] \in Job /\ pc'[t] = "record"
  BY DEF TypeOK, Verdict, Goto
<1>2. QED
  BY <1>1 DEF Job

LEMMA EtagFields ==
  ASSUME TypeOK, NEW t \in Handlers, NEW n, NEW e \in Nat,
         Goto(t, n), job' = [job EXCEPT ![t].etag = e]
  PROVE  /\ pc'[t] = n /\ job'[t].verdict = job[t].verdict
         /\ job'[t].op = job[t].op /\ job'[t].alone = job[t].alone
         /\ job'[t].binding = job[t].binding /\ job'[t].endpoint = job[t].endpoint
<1>1. job'[t] = [job[t] EXCEPT !.etag = e] /\ job[t] \in Job /\ pc'[t] = n
  BY DEF TypeOK, Goto
<1>2. QED
  BY <1>1 DEF Job

(* A write that was refused or failed claims nothing.                      *)
LEMMA FailedClaims ==
  ASSUME TypeOK, NEW t \in Handlers, Kind(t), pc[t] \in WriterSteps, Verdict(t, "failed")
  PROVE  Kind(t)' /\ Made(t)' /\ Writer(t)'
<1>1. /\ pc'[t] = "record" /\ job'[t].verdict = "failed"
      /\ job'[t].op = job[t].op /\ job'[t].binding = job[t].binding
  BY VerdictFields DEF Verdicts
<1>2. job[t].op # "verify"
  BY DEF Kind, WriterSteps, LifecycleSteps
<1>3. QED
  BY <1>1, <1>2 DEF Kind, Made, Writer, WriterSteps, LifecycleSteps

LEMMA UserMade ==
  ASSUME TypeOK, NEW t \in Handlers, NEW a \in BOOLEAN, PutsUser(t, a),
         job'[t].endpoint = job[t].endpoint
  PROVE  MyUser(t)'.active = a
<1>1. MyUser(t)' = UserAs(t, a)
  BY VersionType DEF PutsUser, MyUser, TypeOK
<1>2. QED
  BY <1>1 DEF UserAs

LEMMA GroupMade ==
  ASSUME TypeOK, NEW t \in Handlers, NEW a \in BOOLEAN, PutsGroup(t, a),
         job'[t].endpoint = job[t].endpoint
  PROVE  MyGroup(t)'.member = a /\ MyUser(t)' = MyUser(t)
<1>1. MyGroup(t)' = GroupAs(t, a)
  BY VersionType DEF PutsGroup, MyGroup, TypeOK
<1>2. QED
  BY <1>1 DEF GroupAs, PutsGroup, MyUser

LEMMA UserWriteMakes ==
  ASSUME TypeOK, NEW t \in Handlers, Kind(t), WritesUser(t)
  PROVE  Kind(t)' /\ Made(t)' /\ Writer(t)'
<1>0. /\ pc[t] \in WriterSteps
      /\ "failed" \in Verdicts /\ "passed" \in Verdicts
      /\ job[t].binding \in BOOLEAN /\ (job[t].op = "reactivate") \in BOOLEAN
      /\ NextUser(t) \in Nat
  BY VersionType
  DEF WritesUser, CreateUser, ReplaceUser, Deactivate, Reactivate, SetActive, WriterSteps,
      LifecycleSteps, Verdicts, TypeOK, Job
<1>1. CASE Verdict(t, "failed")
  BY <1>0, <1>1, FailedClaims
<1>2. ASSUME NEW n \in {"replace", "deactivate", "reactivate"}, job[t].op = "lifecycle",
             Proceeds(t, NextUser(t), n, FALSE)
      PROVE  Kind(t)' /\ Made(t)' /\ Writer(t)'
  <2>1. pc'[t] = n /\ job'[t].op = job[t].op /\ job'[t].binding = job[t].binding
    BY <1>0, <1>2, EtagFields DEF Proceeds
  <2>2. QED
    BY <1>2, <2>1 DEF Kind, Made, Writer, WriterSteps, LifecycleSteps
<1>3. CASE CreateUser(t) \/ ReplaceUser(t) \/ Deactivate(t)
  <2>1. job[t].op = "lifecycle"
    BY <1>3 DEF Kind, CreateUser, ReplaceUser, Deactivate, LifecycleSteps
  <2>2. QED
    BY <1>1, <1>2, <1>3, <2>1, UserWrites DEF UserEffect
<1>4. CASE Reactivate(t) /\ ~Verdict(t, "failed")
  <2>1. job[t].op = "lifecycle"
    BY <1>4 DEF Kind, Reactivate, LifecycleSteps
  <2>2. PutsUser(t, TRUE) /\ Proceeds(t, NextUser(t), "findGroup", ~job[t].binding)
    BY <1>4, UserWrites DEF UserEffect
  <2>3. CASE job[t].binding
    <3>1. /\ pc'[t] = "findGroup" /\ job'[t].op = job[t].op
          /\ job'[t].binding = job[t].binding /\ job'[t].endpoint = job[t].endpoint
      BY <1>0, <2>2, <2>3, EtagFields DEF Proceeds
    <3>2. MyUser(t)'.active = TRUE
      BY <2>2, <3>1, UserMade
    <3>3. QED
      BY <2>1, <3>1, <3>2 DEF Kind, Made, Writer, WriterSteps, LifecycleSteps
  <2>4. CASE ~job[t].binding
    <3>1. /\ pc'[t] = "record" /\ job'[t].op = job[t].op /\ job'[t].verdict = "passed"
          /\ job'[t].binding = job[t].binding /\ job'[t].endpoint = job[t].endpoint
      BY <1>0, <2>2, <2>4, VerdictFields DEF Proceeds
    <3>2. MyUser(t)'.active = TRUE
      BY <2>2, <3>1, UserMade
    <3>3. QED
      BY <2>1, <2>4, <3>1, <3>2 DEF Kind, Made, Writer, WriterSteps, LifecycleSteps
  <2>5. QED
    BY <2>3, <2>4
<1>5. CASE SetActive(t) /\ ~Verdict(t, "failed")
  <2>1. job[t].op \in {"deactivate", "reactivate"} /\ ~job[t].binding
    BY <1>0, <1>5 DEF Kind, SetActive
  <2>2. PutsUser(t, job[t].op = "reactivate") /\ Verdict(t, "passed")
    BY <1>5, UserWrites DEF UserEffect, Proceeds
  <2>3. /\ pc'[t] = "record" /\ job'[t].op = job[t].op /\ job'[t].verdict = "passed"
        /\ job'[t].binding = job[t].binding /\ job'[t].endpoint = job[t].endpoint
    BY <1>0, <2>2, VerdictFields
  <2>4. MyUser(t)'.active = (job[t].op = "reactivate")
    BY <1>0, <2>2, <2>3, UserMade
  <2>5. QED
    BY <2>1, <2>3, <2>4 DEF Kind, Made, Writer, WriterSteps, LifecycleSteps
<1>6. QED
  BY <1>1, <1>3, <1>4, <1>5 DEF WritesUser

LEMMA GroupWriteMakes ==
  ASSUME TypeOK, NEW t \in Handlers, Kind(t), Made(t), WritesGroup(t)
  PROVE  Kind(t)' /\ Made(t)' /\ Writer(t)'
<1>0. /\ pc[t] \in {"createGroup", "removeMember", "addMember"} /\ pc[t] \in WriterSteps
      /\ job[t].op = "lifecycle"
      /\ "failed" \in Verdicts /\ "passed" \in Verdicts
      /\ NextGroup(t) \in Nat
  BY VersionType
  DEF WritesGroup, CreateGroup, RemoveMember, AddMember, WriterSteps, LifecycleSteps, Verdicts,
      Kind
<1>1. CASE Verdict(t, "failed")
  BY <1>0, <1>1, FailedClaims
<1>2. ASSUME NEW n \in {"removeMember", "addMember"}, NEW a \in BOOLEAN, PutsGroup(t, a),
             Proceeds(t, NextGroup(t), n, FALSE)
      PROVE  Kind(t)' /\ Made(t)' /\ Writer(t)'
  <2>1. /\ pc'[t] = n /\ job'[t].op = job[t].op /\ job'[t].binding = job[t].binding
        /\ job'[t].alone = job[t].alone /\ job'[t].endpoint = job[t].endpoint
    BY <1>0, <1>2, EtagFields DEF Proceeds
  <2>2. MyUser(t)' = MyUser(t)
    BY <1>2, <2>1, GroupMade
  <2>3. QED
    BY <1>0, <1>2, <2>1, <2>2 DEF Kind, Made, Writer, WriterSteps, LifecycleSteps
<1>3. CASE CreateGroup(t) \/ RemoveMember(t)
  BY <1>1, <1>2, <1>3, GroupWrites DEF GroupEffect
<1>4. CASE AddMember(t) /\ ~Verdict(t, "failed")
  <2>1. PutsGroup(t, TRUE) /\ Verdict(t, "passed")
    BY <1>4, GroupWrites DEF GroupEffect, Proceeds
  <2>2. /\ pc'[t] = "record" /\ job'[t].op = job[t].op /\ job'[t].verdict = "passed"
        /\ job'[t].binding = job[t].binding /\ job'[t].alone = job[t].alone
        /\ job'[t].endpoint = job[t].endpoint
    BY <1>0, <2>1, VerdictFields
  <2>3. MyGroup(t)'.member = TRUE /\ MyUser(t)' = MyUser(t)
    BY <2>1, <2>2, GroupMade
  <2>4. QED
    BY <1>0, <2>2, <2>3 DEF Kind, Made, Writer, WriterSteps, LifecycleSteps
<1>5. QED
  BY <1>1, <1>3, <1>4 DEF WritesGroup

(* The steps that do not write to the provider.                            *)
ReadsOnly(t) ==
  \/ WriteSettings(t) \/ WriteCredential(t) \/ ClearVerification(t) \/ ClearLifecycle(t)
  \/ ReadPrevious(t) \/ MakeClient(t) \/ Discover(t) \/ FindUser(t) \/ FindGroup(t)
  \/ GetUser(t) \/ Record(t)

LEMMA DoneMakes ==
  ASSUME TypeOK, NEW t \in Handlers, Done(t)
  PROVE  Kind(t)' /\ Made(t)'
<1>1. pc'[t] = "idle" /\ job'[t].binding = FALSE
  BY DEF TypeOK, Done, Goto, NoJob
<1>2. QED
  BY <1>1 DEF Kind, Made, LifecycleSteps

LEMMA FileMakes ==
  ASSUME TypeOK, NEW t \in Handlers, Kind(t), Route(t),
         \/ WriteSettings(t) \/ WriteCredential(t) \/ ClearVerification(t)
         \/ ClearLifecycle(t) \/ ReadPrevious(t) \/ MakeClient(t) \/ Record(t)
  PROVE  Kind(t)' /\ Made(t)'
<1>0. job[t] \in Job
  BY DEF TypeOK
<1>1. CASE Done(t)
  BY <1>1, DoneMakes
<1>2. CASE WriteSettings(t) \/ WriteCredential(t) \/ ClearVerification(t)
  <2>1. /\ pc'[t] \in {"writeCredential", "clearVerification", "clearLifecycle"}
        /\ job' = job
    BY <1>2 DEF WriteSettings, WriteCredential, ClearVerification, Goto, TypeOK
  <2>2. QED
    BY <2>1 DEF Kind, Made, LifecycleSteps
<1>3. CASE ReadPrevious(t) /\ ~Done(t)
  <2>1. /\ pc[t] = "previous" /\ pc'[t] = "client" /\ lifecycle.userResourceId # NoEndpoint
        /\ job'[t] = [job[t] EXCEPT !.resource = lifecycle.userResourceId]
    BY <1>3 DEF ReadPrevious, Goto, TypeOK
  <2>2. /\ job'[t].op = job[t].op /\ job'[t].binding = job[t].binding
        /\ job'[t].resource # NoEndpoint
    BY <1>0, <2>1 DEF Job
  <2>3. QED
    BY <2>1, <2>2 DEF Kind, Made, LifecycleSteps
<1>4. CASE MakeClient(t) /\ ~Done(t)
  <2>1. /\ pc[t] = "client"
        /\ pc'[t] = (IF job[t].resource = NoEndpoint THEN "discover" ELSE "getUser")
        /\ job'[t] = [job[t] EXCEPT !.endpoint = settings]
    BY <1>4 DEF MakeClient, Goto, TypeOK
  <2>2. /\ job'[t].op = job[t].op /\ job'[t].binding = job[t].binding
    BY <1>0, <2>1 DEF Job
  <2>3. pc'[t] = "discover" => job[t].op \in {"verify", "lifecycle"}
    BY <1>0, <2>1 DEF Kind, Job, AllOps
  <2>4. QED
    BY <2>1, <2>2, <2>3 DEF Kind, Made, LifecycleSteps
<1>5. QED
  BY <1>1, <1>2, <1>3, <1>4 DEF ClearLifecycle, Record

LEMMA SearchMakes ==
  ASSUME TypeOK, NEW t \in Handlers, Kind(t), Made(t),
         Discover(t) \/ FindUser(t) \/ FindGroup(t) \/ GetUser(t)
  PROVE  Kind(t)' /\ Made(t)' /\ (Writer(t) => Writer(t)')
<1>0. {"passed", "failed", "contract"} \subseteq Verdicts /\ job[t].etag \in Nat
  BY DEF Verdicts, TypeOK, Job
<1>1. CASE Discover(t)
  <2>1. pc[t] = "discover" /\ job[t].op \in {"verify", "lifecycle"} /\ ~Writer(t)
    BY <1>1 DEF Discover, Kind, Writer, WriterSteps, LifecycleSteps
  <2>2. CASE \/ job[t].op = "verify" /\ Verdict(t, "passed")
             \/ Verdict(t, "failed") \/ Verdict(t, "contract")
    <3>1. /\ pc'[t] = "record" /\ job'[t].op = job[t].op /\ job'[t].binding = job[t].binding
          /\ job'[t].verdict = "passed" => job'[t].op = "verify"
      BY <1>0, <2>2, VerdictFields
    <3>2. QED
      BY <2>1, <3>1 DEF Kind, Made, LifecycleSteps
  <2>3. CASE job[t].op # "verify" /\ Goto(t, "findUser") /\ UNCHANGED job
    BY <2>1, <2>3 DEF Goto, TypeOK, Kind, Made, LifecycleSteps
  <2>4. QED
    BY <1>1, <2>2, <2>3 DEF Discover, FailRead
<1>2. CASE Verdict(t, "failed") /\ ~Discover(t)
  <2>1. /\ pc'[t] = "record" /\ job'[t].op = job[t].op /\ job'[t].binding = job[t].binding
        /\ job'[t].verdict = "failed"
    BY <1>0, <1>2, VerdictFields
  <2>2. job[t].op # "verify"
    BY <1>2 DEF FindUser, FindGroup, GetUser, Kind, LifecycleSteps
  <2>3. QED
    BY <2>1, <2>2 DEF Kind, Made, Writer, LifecycleSteps
<1>3. CASE ~Verdict(t, "failed") /\ ~Discover(t)
  <2>1. PICK n \in Labels, e \in Nat :
               /\ Goto(t, n) /\ job' = [job EXCEPT ![t].etag = e] /\ UNCHANGED provider
               /\ \/ pc[t] = "findUser" /\ n \in {"createUser", "replace"}
                  \/ pc[t] = "findGroup" /\ n \in {"createGroup", "removeMember"}
                  \/ pc[t] = "getUser" /\ n = "setActive"
    <3>1. UNCHANGED job => job' = [job EXCEPT ![t].etag = job[t].etag]
      BY DEF TypeOK, Job
    <3>2. QED
      BY <1>0, <1>3, <3>1, VersionType
      DEF FindUser, FindGroup, GetUser, FailRead, Labels, User, Group, provider
  <2>2. /\ pc'[t] = n /\ job'[t].op = job[t].op /\ job'[t].binding = job[t].binding
        /\ job'[t].alone = job[t].alone /\ job'[t].endpoint = job[t].endpoint
    BY <2>1, EtagFields
  <2>3. MyUser(t)' = MyUser(t)
    BY <2>1, <2>2 DEF MyUser, provider
  <2>4. QED
    BY <2>1, <2>2, <2>3 DEF Kind, Made, Writer, WriterSteps, LifecycleSteps
<1>4. QED
  BY <1>1, <1>2, <1>3

LEMMA OwnMakes ==
  ASSUME IInv, NEW t \in Handlers, Kind(t), Made(t), Step(t)
  PROVE  /\ Kind(t)' /\ Made(t)'
         /\ (WritesUser(t) \/ WritesGroup(t)) => Writer(t)'
         /\ ~Record(t) /\ Writer(t) => Writer(t)'
<1>0. TypeOK /\ Route(t)
  BY DEF IInv
<1>1. CASE WritesUser(t) \/ WritesGroup(t)
  BY <1>0, <1>1, UserWriteMakes, GroupWriteMakes
<1>2. CASE Discover(t) \/ FindUser(t) \/ FindGroup(t) \/ GetUser(t)
  <2>1. ~(WritesUser(t) \/ WritesGroup(t))
    BY <1>2 DEF Discover, FindUser, FindGroup, GetUser, WritesUser, CreateUser, ReplaceUser,
       Deactivate, Reactivate, SetActive, WritesGroup, CreateGroup, RemoveMember, AddMember
  <2>2. QED
    BY <1>0, <1>2, <2>1, SearchMakes
<1>3. CASE \/ WriteSettings(t) \/ WriteCredential(t) \/ ClearVerification(t)
           \/ ClearLifecycle(t) \/ ReadPrevious(t) \/ MakeClient(t) \/ Record(t)
  <2>1. /\ ~(WritesUser(t) \/ WritesGroup(t))
        /\ ~Record(t) => ~Writer(t)
    BY <1>3 DEF WriteSettings, WriteCredential, ClearVerification, ClearLifecycle, ReadPrevious,
       MakeClient, Record, WritesUser, CreateUser, ReplaceUser, Deactivate, Reactivate,
       SetActive, WritesGroup, CreateGroup, RemoveMember, AddMember, Writer, WriterSteps,
       LifecycleSteps
  <2>2. QED
    BY <1>0, <1>3, <2>1, FileMakes
<1>4. QED
  BY <1>1, <1>2, <1>3 DEF Step, WritesUser, WritesGroup

(* A thread that does not move keeps what it made: one nothing overlapped  *)
(* is the only one that moves.                                             *)
LEMMA OthersKeepMade ==
  ASSUME IInv, NEW t \in Handlers, Step(t), NEW u \in Handlers \ {t}, Kind(u), Made(u)
  PROVE  Kind(u)' /\ Made(u)' /\ (Writer(u) => Writer(u)')
<1>1. pc[t] # "idle" /\ pc'[u] = pc[u] /\ job'[u] = job[u]
  BY StepFrame DEF IInv
<1>2. pc[u] # "idle" => ~job[u].alone
  BY <1>1 DEF IInv, Alone
<1>3. QED
  BY <1>1, <1>2 DEF Kind, Made, Writer

(* A request records what it made: only that can be claimed of it.         *)
LEMMA RecordOnFile ==
  ASSUME IInv, FInv, NEW t \in Handlers, Record(t)
  PROVE  OnFile'
<1>0. TypeOK /\ Made(t) /\ Kind(t) /\ OnFile /\ pc[t] = "record" /\ Step(t)
  BY DEF IInv, FInv, Record, Step
<1>1. UNCHANGED provider /\ UNCHANGED restarts
  BY DEF Record, counters
<1>2. CASE lifecycle' = ResultOf(t) /\ ~ToVerification(t)
  <2>1. SUFFICES ASSUME Claims' PROVE Held'
    BY DEF OnFile
  <2>2. job[t].alone /\ job[t].verdict = "passed" /\ job[t].op # "verify"
    BY <1>2, <2>1 DEF Claims, ResultOf, ToVerification
  <2>3. /\ MyUser(t).active = (job[t].op # "deactivate")
        /\ job[t].binding => MyGroup(t).member
    BY <1>0, <2>2 DEF Made
  <2>4. /\ lifecycle'.endpoint = job[t].endpoint
        /\ lifecycle'.active = (job[t].op # "deactivate")
        /\ lifecycle'.member = job[t].binding
    BY <1>2 DEF ResultOf
  <2>5. QED
    BY <1>1, <2>3, <2>4 DEF Held, MyUser, MyGroup, provider
<1>3. CASE lifecycle' = lifecycle /\ (job[t].op = "verify" \/ job[t].verdict = "contract")
  <2>1. ~Writer(t)
    BY <1>0, <1>3 DEF Writer, WriterSteps, LifecycleSteps
  <2>2. \A u \in Handlers \ {t} : Writer(u) => Writer(u)'
    BY <1>0, OthersKeepMade DEF FInv
  <2>3. Held => Held'
    BY <1>1, <1>3 DEF Held, provider
  <2>4. Claims' => Claims
    BY <1>1, <1>3 DEF Claims
  <2>5. QED
    BY <1>0, <2>1, <2>2, <2>3, <2>4 DEF OnFile
<1>4. QED
  BY <1>2, <1>3 DEF Record, Writable, ToVerification

LEMMA StepOnFile ==
  ASSUME IInv, FInv, NEW t \in Handlers, Step(t)
  PROVE  OnFile'
<1>0. TypeOK /\ OnFile
  BY DEF IInv, FInv
<1>1. CASE Record(t)
  BY <1>1, RecordOnFile
<1>2. CASE ~Record(t)
  <2>1. \A u \in Handlers : Writer(u) => Writer(u)'
    BY <1>2, OwnMakes, OthersKeepMade DEF FInv
  <2>2. CASE WritesUser(t) \/ WritesGroup(t)
    <3>1. Writer(t)'
      BY <2>2, OwnMakes DEF FInv
    <3>2. QED
      BY <3>1 DEF OnFile
  <2>3. CASE ~(WritesUser(t) \/ WritesGroup(t))
    <3>1. \/ WriteSettings(t) \/ WriteCredential(t) \/ ClearVerification(t)
          \/ ClearLifecycle(t) \/ ReadPrevious(t) \/ MakeClient(t) \/ Discover(t)
          \/ FindUser(t) \/ FindGroup(t) \/ GetUser(t)
      BY <1>2, <2>3 DEF Step, WritesUser, WritesGroup
    <3>2. /\ UNCHANGED provider /\ restarts' = restarts
          /\ lifecycle' = lifecycle \/ lifecycle' = NoFile
      BY <3>1 DEF WriteSettings, WriteCredential, ClearVerification, ClearLifecycle,
         ReadPrevious, MakeClient, Discover, FindUser, FindGroup, GetUser, FailRead, files,
         counters
    <3>3. Claims' => Claims /\ lifecycle' = lifecycle
      BY <3>2 DEF Claims
    <3>4. Claims' /\ Held => Held'
      BY <3>2, <3>3 DEF Held, provider
    <3>5. QED
      BY <1>0, <2>1, <3>3, <3>4 DEF OnFile
  <2>4. QED
    BY <2>2, <2>3
<1>3. QED
  BY <1>1, <1>2

LEMMA BeginMakes ==
  ASSUME IInv, FInv, NEW t \in Handlers, Begin(t)
  PROVE  FInv'
<1>0. /\ TypeOK /\ OnFile /\ pc[t] = "idle" /\ UNCHANGED <<files, provider, restarts>>
      /\ \A u \in Handlers : Kind(u) /\ Made(u)
  BY BeginEffect DEF IInv, FInv, Begin
<1>1. Kind(t)' /\ Made(t)'
  <2>1. PICK op \in Ops, endpoint \in Endpoints, given, binding \in BOOLEAN :
          /\ op # "save" => endpoint = First /\ ~given
          /\ binding => op = "lifecycle"
          /\ job' = [u \in Handlers |->
                       IF u = t
                       THEN [NoJob EXCEPT !.op = op, !.endpoint = endpoint, !.binding = binding,
                                          !.credential = given \/ (op = "save" /\ credential),
                                          !.alone = \A v \in Handlers : pc[v] = "idle",
                                          !.before = faults]
                       ELSE [job[u] EXCEPT !.alone = pc[u] = "idle"]]
          /\ Goto(t, CASE op = "save" -> "writeSettings"
                       [] op \in {"deactivate", "reactivate"} -> "previous"
                       [] OTHER -> "client")
    BY DEF Begin
  <2>2. job'[t].op = op /\ job'[t].binding = binding
    BY <2>1 DEF NoJob
  <2>3. pc'[t] = CASE op = "save" -> "writeSettings"
                   [] op \in {"deactivate", "reactivate"} -> "previous"
                   [] OTHER -> "client"
    BY <1>0, <2>1 DEF Goto, TypeOK
  <2>4. job'[t].resource = NoEndpoint /\ op \in AllOps
    BY <1>0, BeginEffect, ScimAssumption
  <2>5. QED
    BY <2>1, <2>2, <2>3, <2>4 DEF Kind, Made, LifecycleSteps, AllOps
<1>2. ASSUME NEW u \in Handlers \ {t}
      PROVE  Kind(u)' /\ Made(u)' /\ (Writer(u) => Writer(u)')
  <2>1. job'[u] = [job[u] EXCEPT !.alone = pc[u] = "idle"] /\ pc'[u] = pc[u]
    BY <1>0, BeginEffect
  <2>2. job[u] \in Job
    BY <1>0 DEF TypeOK
  <2>3. /\ job'[u].op = job[u].op /\ job'[u].resource = job[u].resource
        /\ job'[u].binding = job[u].binding /\ job'[u].verdict = job[u].verdict
        /\ job'[u].alone => pc[u] = "idle"
    BY <2>1, <2>2 DEF Job
  <2>4. Kind(u)
    BY <1>0
  <2>5. QED
    BY <2>1, <2>3, <2>4 DEF Kind, Made, Writer
<1>3. OnFile'
  <2>1. ~Writer(t)
    BY <1>0 DEF Writer, WriterSteps, LifecycleSteps
  <2>2. (Claims' => Claims) /\ (Held => Held')
    BY <1>0 DEF Claims, Held, files, provider
  <2>3. QED
    BY <1>0, <1>2, <2>1, <2>2 DEF OnFile
<1>4. QED
  BY <1>1, <1>2, <1>3 DEF FInv

LEMMA InitFInv == Init => FInv
<1> SUFFICES ASSUME Init PROVE FInv
  OBVIOUS
<1>1. NoJob.binding = FALSE
  BY DEF NoJob
<1>2. ASSUME NEW t \in Handlers PROVE Kind(t) /\ Made(t)
  BY <1>1 DEF Init, Kind, Made, LifecycleSteps
<1>3. OnFile
  BY DEF Init, OnFile, Claims
<1>4. QED
  BY <1>2, <1>3 DEF FInv

LEMMA NextFInv == IInv /\ FInv /\ [Next]_vars => FInv'
<1> SUFFICES ASSUME IInv, FInv, [Next]_vars PROVE FInv'
  OBVIOUS
<1>1. ASSUME NEW t \in Handlers, Begin(t) PROVE FInv'
  BY <1>1, BeginMakes
<1>2. ASSUME NEW t \in Handlers, Step(t) PROVE FInv'
  BY <1>2, OwnMakes, OthersKeepMade, StepOnFile DEF FInv
<1>3. CASE Restart
  <2>1. NoJob.binding = FALSE
    BY DEF NoJob
  <2>2. ASSUME NEW t \in Handlers PROVE Kind(t)' /\ Made(t)'
    BY <1>3, <2>1 DEF Restart, Kind, Made, LifecycleSteps
  <2>3. restarts' # 0
    BY <1>3 DEF Restart, IInv, TypeOK
  <2>4. QED
    BY <2>2, <2>3 DEF FInv, OnFile, Claims
<1>4. CASE UNCHANGED vars
  BY <1>4 DEF vars, files, provider, counters, FInv, OnFile, Claims, Held, Kind, Made, Writer,
     MyUser, MyGroup
<1>5. QED
  BY <1>1, <1>2, <1>3, <1>4 DEF Next

(* run_lifecycle and the result it leaves (scim.py:677-756,                *)
(* server.py:1331-1429): as long as the service has not been restarted and *)
(* no request is in progress, a passing result on file of a request that   *)
(* nothing overlapped is what the service provider holds, whatever other   *)
(* requests wrote, failed or interrupted before or since.                  *)
THEOREM ResultCorrect == Spec => []ResultIsTrue
<1>1. FInv => ResultIsTrue
  <2>1. ASSUME \A t \in Handlers : pc[t] = "idle"
        PROVE  \A t \in Handlers : ~Writer(t)
    BY <2>1 DEF Writer, WriterSteps, LifecycleSteps
  <2>2. QED
    BY <2>1 DEF FInv, OnFile, Claims, Held, ResultIsTrue
<1>2. Spec => []FInv
  BY Invariance, InitFInv, NextFInv, PTL DEF Spec
<1>3. QED
  BY <1>1, <1>2, PTL
=============================================================================
