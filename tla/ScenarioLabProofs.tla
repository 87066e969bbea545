--------------------------- MODULE ScenarioLabProofs ---------------------------
(***************************************************************************)
(* Proofs about ScenarioLab, for any handlers and realm keys and any       *)
(* bounds.  Types hold whatever keys the clients pick; the other results   *)
(* are about clients that keep the keys of the two slots and of the stable *)
(* realm apart (SeparateKeys): the run MCScenarioSwapped shows what swapped*)
(* keys do.                                                                *)
(*                                                                         *)
(* The argument: then every realm and every import file belongs to the     *)
(* slot its key was picked for, so that an operation on one slot never     *)
(* touches a key of the other, and whoever holds the lock finds the slots  *)
(* it has finished as it left them.                                        *)
(***************************************************************************)
EXTENDS ScenarioLab, TLAPS

SeparateKeys ==
  /\ Choices["labA"] \intersect Choices["labB"] = {}
  /\ \A s \in Slots : StableKey \notin Choices[s]

(* The lock holder is the one thread inside apply_scenarios.               *)
Locked == \A t \in Handlers : pc[t] \in LockedLabels => lock = t

InSelection == \A t \in Handlers : job[t].at \in 1..Len(job[t].slots)

(* bootstrap_browser_session has found the connection of its slot.         *)
Connected == \A t \in Handlers : pc[t] = "impersonate" => job[t].seen[Slot(t)] # NoKey

TInv == TypeOK /\ InSelection /\ Connected

ChosenOrNone(keys) == \A s \in Slots : keys[s] \in Choices[s] \union {NoKey}
Chosen(settings)   == \A s \in Slots : settings[s] \in Choices[s]

Writing == {"acquire", "loadUnlocked", "writeUnlocked", "installUnlocked", "clearUnlocked"}

(* Each slot is saved, applied and connected under keys picked for it.     *)
KeysOfSlots ==
  /\ document # NoFile => Chosen(document.settings) /\ ChosenOrNone(document.applied)
  /\ temporary # NoFile => Chosen(temporary.settings) /\ ChosenOrNone(temporary.applied)
  /\ ChosenOrNone(connections)
  /\ \A t \in Handlers :
       /\ ChosenOrNone(job[t].applied)
       /\ ChosenOrNone(job[t].seen)
       /\ pc[t] \in LockedLabels \union Writing => Chosen(job[t].settings)

(* A realm, or an import file, is of the slot its key was picked for.      *)
Owned(key, content) ==
  \/ key = StableKey /\ content.slot = "stable"
  \/ content.slot \in Slots /\ key \in Choices[content.slot]

RealmsOwned ==
  \A k \in Keys : /\ realms[k] # NoRealm => Owned(k, realms[k])
                  /\ imports[k] # NoFile => Owned(k, imports[k])

(* The slots an apply has finished are served from its scenario.           *)
Served(t, i) ==
  LET slot == job[t].slots[i]
  IN realms[job[t].settings[slot]] = Generated(slot, job[t].settings)

Finished(t, i) ==
  \/ i < job[t].at
  \/ i = job[t].at /\ pc[t] \in {"settle", "unlink", "writeSlot", "installSlot",
                                 "lockedVerify", "lockedRecord", "succeeded"}

SlotsServed ==
  \A t \in Handlers :
    /\ pc[t] \in LockedLabels =>
         \A i \in 1..Len(job[t].slots) : Finished(t, i) => Served(t, i)
    /\ pc[t] \in {"acquire", "load", "write", "install", "clear"} => job[t].at = 1
    /\ pc[t] \in {"lockedVerify", "lockedRecord", "succeeded"} =>
         job[t].at = Len(job[t].slots)

SInv ==
  /\ TInv
  /\ Locked
  /\ KeysOfSlots
  /\ RealmsOwned
  /\ SlotsServed
  /\ SessionOfSlot

-----------------------------------------------------------------------------
(* The values the actions put together have their types.                   *)

LEMMA SelectionFacts ==
  ASSUME NEW slots \in Selections
  PROVE  /\ Len(slots) \in 1..2
         /\ \A i \in 1..Len(slots) : slots[i] \in Slots
         /\ \A i, j \in 1..Len(slots) : slots[i] = slots[j] => i = j
<1>1. CASE slots = <<"labA", "labB">>
  BY <1>1 DEF Slots
<1>2. CASE slots = <<"labA">> \/ slots = <<"labB">>
  BY <1>2 DEF Slots
<1>3. QED
  BY <1>1, <1>2 DEF Selections, SCENARIO_SLOTS

LEMMA NoJobFacts ==
  /\ NoJob \in Job
  /\ NoJob.at = 1
  /\ Nothing \in Applied
  /\ Stable \in Content
  BY ScenarioAssumption
  DEF NoJob, Job, Nothing, Applied, Stable, Content, Settings, Selections, Slots

LEMMA GeneratedType ==
  ASSUME NEW slot \in Slots, NEW settings \in Settings
  PROVE  Generated(slot, settings) \in Content /\ Generated(slot, settings).slot = slot
  BY DEF Generated, Content

(* The slot a handler works on, its key and the key before it.             *)
LEMMA SlotFacts ==
  ASSUME TypeOK, InSelection, NEW t \in Handlers
  PROVE  /\ Slot(t) \in Slots
         /\ Key(t) \in Keys
         /\ Previous(t) \in Keys \union {NoKey}
         /\ job[t] \in Job
         /\ Generated(Slot(t), job[t].settings) \in Content
         /\ Generated(Slot(t), job[t].settings).slot = Slot(t)
<1>1. /\ job[t] \in Job
      /\ job[t].slots \in Selections
      /\ job[t].settings \in Settings
      /\ job[t].applied \in [Slots -> Keys \union {NoKey}]
      /\ job[t].at \in 1..Len(job[t].slots)
  BY DEF TypeOK, InSelection, Job, Applied
<1>2. Slot(t) \in Slots
  BY <1>1, SelectionFacts DEF Slot
<1>3. job[t].settings \in [Slots -> Keys]
  BY <1>1 DEF Settings
<1>4. QED
  BY <1>1, <1>2, <1>3, GeneratedType DEF Key, Previous

JobsOK == pc \in [Handlers -> LockedLabels \union FreeLabels] /\ job \in [Handlers -> Job]
          /\ InSelection /\ lock \in Handlers \union {NoThread}

LEMMA GotoKeeps ==
  ASSUME JobsOK, NEW t \in Handlers, NEW label \in LockedLabels \union FreeLabels,
         Goto(t, label), UNCHANGED <<lock, job>>
  PROVE  JobsOK'
  BY DEF JobsOK, Goto, InSelection

LEMMA LeaveKeeps ==
  ASSUME JobsOK, NEW t \in Handlers, Leave(t)
  PROVE  JobsOK'
<1>1. NoJob \in Job /\ NoJob.at \in 1..Len(NoJob.slots)
  BY NoJobFacts DEF NoJob, SCENARIO_SLOTS
<1>2. "idle" \in LockedLabels \union FreeLabels
  BY DEF FreeLabels
<1>3. QED
  BY <1>1, <1>2 DEF JobsOK, Leave, Goto, InSelection

LEMMA FailKeeps ==
  ASSUME JobsOK, NEW t \in Handlers, Fail(t), faults \in 0..MaxFaults
  PROVE  JobsOK' /\ faults' \in 0..MaxFaults
<1>1. JobsOK'
  BY LeaveKeeps DEF Fail
<1>2. QED
  BY <1>1, ScenarioAssumption DEF Fail

LEMMA InitType == Init => TypeOK /\ InSelection
<1> SUFFICES ASSUME Init PROVE TypeOK /\ InSelection
  OBVIOUS
<1>1. NoJob.at \in 1..Len(NoJob.slots)
  BY DEF NoJob, SCENARIO_SLOTS
<1>2. InSelection
  BY <1>1 DEF Init, InSelection
<1>3. /\ imports \in [Keys -> Content \union {NoFile}]
      /\ realms \in [Keys -> Content \union {NoRealm}]
      /\ connections \in Applied
      /\ job \in [Handlers -> Job]
  BY NoJobFacts DEF Init
<1>4. /\ document = NoFile /\ temporary = NoFile /\ verification = NoFile /\ lock = NoThread
      /\ pc = [t \in Handlers |-> "idle"] /\ requests = 0 /\ faults = 0 /\ restarts = 0
  BY DEF Init
<1>5. pc \in [Handlers -> LockedLabels \union FreeLabels]
  BY <1>4 DEF FreeLabels
<1>6. QED
  BY <1>2, <1>3, <1>4, <1>5, ScenarioAssumption DEF TypeOK

LEMMA BeginType ==
  ASSUME TypeOK, InSelection, NEW t \in Handlers, Begin(t)
  PROVE  (TypeOK /\ InSelection)'
<1>1. PICK op \in Ops, slots \in Selections, settings \in Settings :
        /\ op \in {"reset", "bootstrap"} <=> Len(slots) = 1
        /\ job' = [job EXCEPT ![t] = [NoJob EXCEPT !.op = op, !.settings = settings,
                                                   !.slots = slots]]
        /\ Goto(t, CASE op = "save"      -> "loadUnlocked"
                     [] op \in {"apply", "reset"} -> "acquire"
                     [] op = "verify"    -> "verify"
                     [] op = "bootstrap" -> "lookup")
  BY DEF Begin
<1>2. [NoJob EXCEPT !.op = op, !.settings = settings, !.slots = slots] \in Job
  BY NoJobFacts, ScenarioAssumption DEF Job
<1>3. op \in AllOps
  BY ScenarioAssumption
<1>4. pc' \in [Handlers -> LockedLabels \union FreeLabels]
  BY <1>1, <1>3 DEF TypeOK, Goto, AllOps, FreeLabels
<1>5. job' \in [Handlers -> Job] /\ job'[t].at = 1 /\ job'[t].slots = slots
      /\ \A u \in Handlers : u # t => job'[u] = job[u]
  BY <1>1, <1>2, NoJobFacts DEF TypeOK, Job
<1>6. InSelection'
  <2>1. job'[t].at \in 1..Len(job'[t].slots)
    <3>1. PICK n \in 1..2 : n = Len(slots)
      BY SelectionFacts
    <3>2. 1 \in 1..n
      OBVIOUS
    <3>3. QED
      BY <1>5, <3>1, <3>2
  <2>2. \A u \in Handlers : u # t => job'[u].at \in 1..Len(job'[u].slots)
    BY <1>5 DEF InSelection
  <2>3. QED
    BY <2>1, <2>2 DEF InSelection
<1>7. requests' \in 0..MaxRequests
  BY ScenarioAssumption DEF TypeOK, Begin
<1>8. UNCHANGED <<files, realms, lock, faults, restarts>>
  BY DEF Begin
<1>9. QED
  BY <1>4, <1>5, <1>6, <1>7, <1>8 DEF TypeOK, files

(* A handler that changes its job keeps to the slots it works on.          *)
LEMMA JobKeeps ==
  ASSUME JobsOK, NEW t \in Handlers, NEW next \in Job, next.at \in 1..Len(next.slots),
         NEW label \in LockedLabels \union FreeLabels,
         job' = [job EXCEPT ![t] = next], Goto(t, label), UNCHANGED lock
  PROVE  JobsOK'
  BY DEF JobsOK, Goto, InSelection

LEMMA AppliedKeeps ==
  ASSUME NEW before \in Job, NEW applied \in Applied, before.at \in 1..Len(before.slots)
  PROVE  LET next == [before EXCEPT !.applied = applied]
         IN next \in Job /\ next.at = before.at /\ next.slots = before.slots
  BY DEF Job

LEMMA SeenKeeps ==
  ASSUME NEW before \in Job, NEW seen \in Applied, before.at \in 1..Len(before.slots)
  PROVE  LET next == [before EXCEPT !.seen = seen]
         IN next \in Job /\ next.at = before.at /\ next.slots = before.slots
  BY DEF Job

(* The next slot, or the end of the selection.                             *)
LEMMA NextSlotKeeps ==
  ASSUME JobsOK, NEW t \in Handlers, NextSlot(t), UNCHANGED lock
  PROVE  JobsOK'
<1>1. /\ job[t] \in Job /\ job[t].at \in 1..Len(job[t].slots) /\ job[t].slots \in Selections
      /\ Len(job[t].slots) \in 1..2
  BY SelectionFacts DEF JobsOK, InSelection, Job
<1>2. CASE job[t].at < Len(job[t].slots)
  <2> DEFINE next == [job[t] EXCEPT !.at = @ + 1]
  <2>1. next \in Job /\ next.at \in 1..Len(next.slots)
    <3>0. PICK n \in 1..2 : n = Len(job[t].slots)
      BY <1>1
    <3>1. job[t].at + 1 \in 1..2 /\ job[t].at + 1 \in 1..Len(job[t].slots)
      <4>1. job[t].at \in 1..n /\ job[t].at < n
        BY <1>1, <1>2, <3>0
      <4>2. job[t].at + 1 \in 1..2 /\ job[t].at + 1 \in 1..n
        BY <4>1
      <4>3. QED
        BY <3>0, <4>2
    <3>2. next \in Job /\ next.at = job[t].at + 1 /\ next.slots = job[t].slots
      BY <1>1, <3>1 DEF Job
    <3>3. QED
      BY <3>1, <3>2
  <2>2. job' = [job EXCEPT ![t] = next] /\ Goto(t, "generate")
    BY <1>2 DEF NextSlot, JobsOK
  <2>3. "generate" \in LockedLabels \union FreeLabels
    BY DEF LockedLabels
  <2> HIDE DEF next
  <2>4. QED
    BY <2>1, <2>2, <2>3, JobKeeps
<1>3. CASE ~(job[t].at < Len(job[t].slots))
  BY <1>3, GotoKeeps DEF NextSlot, LockedLabels
<1>4. QED
  BY <1>2, <1>3

LEMMA DocumentType ==
  ASSUME TypeOK
  PROVE  /\ CurrentDocument \in Document
         /\ \A t \in Handlers :
              [settings |-> job[t].settings, applied |-> job[t].applied] \in Document
  BY NoJobFacts, ScenarioAssumption DEF TypeOK, CurrentDocument, Document, Job

LEMMA StepType ==
  ASSUME TInv, NEW t \in Handlers, Step(t)
  PROVE  (TypeOK /\ InSelection)'
<1> DEFINE current == job[t]
           generated == Generated(Slot(t), job[t].settings)
<1>0. /\ TypeOK /\ JobsOK /\ faults \in 0..MaxFaults
      /\ current \in Job /\ current.at \in 1..Len(current.slots)
      /\ Slot(t) \in Slots /\ Key(t) \in Keys
      /\ Previous(t) \in Keys \union {NoKey}
      /\ generated \in Content
      /\ connections \in Applied /\ job[t].applied \in Applied
      /\ realms \in [Keys -> Content \union {NoRealm}]
  BY SlotFacts DEF TInv, TypeOK, JobsOK, InSelection, Job
<1>1. JobsOK' /\ faults' \in 0..MaxFaults
  <2>1. CASE Fail(t)
    BY <1>0, <2>1, FailKeeps
  <2>2. CASE Leave(t) /\ UNCHANGED faults
    BY <1>0, <2>2, LeaveKeeps
  <2>3. ASSUME NEW label \in LockedLabels \union FreeLabels, Goto(t, label),
               UNCHANGED <<lock, job, faults>>
        PROVE  JobsOK' /\ faults' \in 0..MaxFaults
    BY <1>0, <2>3, GotoKeeps
  <2>4. CASE Acquire(t)
    BY <1>0, <2>4 DEF Acquire, JobsOK, Goto, InSelection, LockedLabels, counters
  <2>5. CASE Load(t) \/ LookupDocument(t)
    <3> DEFINE next == [job[t] EXCEPT !.applied = CurrentDocument.applied]
    <3>1. next \in Job /\ next.at \in 1..Len(next.slots)
      BY <1>0, DocumentType, AppliedKeeps DEF Document
    <3>2. job' = [job EXCEPT ![t] = next] /\ UNCHANGED <<lock, faults>>
      BY <1>0, <2>5 DEF Load, LookupDocument, JobsOK, counters
    <3>3. PICK label \in LockedLabels \union FreeLabels : Goto(t, label)
      BY <2>5 DEF Load, LookupDocument, LockedLabels, FreeLabels
    <3> HIDE DEF next
    <3>4. QED
      BY <1>0, <3>1, <3>2, <3>3, JobKeeps
  <2>6. CASE UnlinkPrevious(t)
    <3> DEFINE next == [job[t] EXCEPT !.applied = [job[t].applied EXCEPT ![Slot(t)] = Key(t)]]
    <3>1. [job[t].applied EXCEPT ![Slot(t)] = Key(t)] \in Applied
      BY <1>0 DEF Applied
    <3>2. next \in Job /\ next.at \in 1..Len(next.slots)
      BY <1>0, <3>1, AppliedKeeps
    <3>3. job' = [job EXCEPT ![t] = next] /\ UNCHANGED <<lock, faults>> /\ Goto(t, "writeSlot")
      BY <1>0, <2>6 DEF UnlinkPrevious, JobsOK, counters
    <3>4. "writeSlot" \in LockedLabels \union FreeLabels
      BY DEF LockedLabels
    <3> HIDE DEF next
    <3>5. QED
      BY <1>0, <3>2, <3>3, <3>4, JobKeeps
  <2>7. CASE Verify(t) \/ LookupConnection(t)
    <3>1. CASE Leave(t)
      BY <2>2, <2>7, <3>1 DEF Verify, LookupConnection, counters
    <3>2. CASE ~Leave(t)
      <4> DEFINE next == [job[t] EXCEPT !.seen = connections]
      <4>1. next \in Job /\ next.at \in 1..Len(next.slots)
        BY <1>0, SeenKeeps
      <4>2. job' = [job EXCEPT ![t] = next] /\ UNCHANGED <<lock, faults>>
        BY <1>0, <2>7, <3>2 DEF Verify, LookupConnection, JobsOK, counters
      <4>3. PICK label \in LockedLabels \union FreeLabels : Goto(t, label)
        BY <2>7, <3>2 DEF Verify, LookupConnection, LockedLabels, FreeLabels
      <4> HIDE DEF next
      <4>4. QED
        BY <1>0, <4>1, <4>2, <4>3, JobKeeps
    <3>3. QED
      BY <3>1, <3>2
  <2>8. CASE Impersonate(t)
    <3>1. CASE Fail(t) \/ (Leave(t) /\ UNCHANGED faults)
      BY <2>1, <2>2, <3>1
    <3>2. CASE ~(Fail(t) \/ (Leave(t) /\ UNCHANGED faults))
      <4> DEFINE key == job[t].seen[Slot(t)]
                 next == [job[t] EXCEPT !.session = realms[key]]
      <4>1. /\ realms[key] # NoRealm /\ job' = [job EXCEPT ![t].session = realms[key]]
            /\ Goto(t, "session") /\ UNCHANGED <<lock, faults>>
        BY <2>8, <3>2 DEF Impersonate
      <4>2. key \in Keys
        <5>1. key \in Keys \union {NoKey}
          BY <1>0 DEF Job, Applied
        <5>2. key # NoKey
          BY <2>8 DEF TInv, Connected, Impersonate
        <5>3. QED
          BY <5>1, <5>2
      <4>3. next \in Job /\ next.at \in 1..Len(next.slots)
        BY <1>0, <4>1, <4>2 DEF Job
      <4>4. job' = [job EXCEPT ![t] = next] /\ "session" \in LockedLabels \union FreeLabels
        BY <1>0, <4>1 DEF JobsOK, FreeLabels
      <4> HIDE DEF next
      <4>5. QED
        BY <1>0, <4>1, <4>3, <4>4, JobKeeps
    <3>3. QED
      BY <3>1, <3>2
  <2>9. CASE Install(t)
    <3>1. CASE NextSlot(t) /\ UNCHANGED lock
      BY <1>0, <2>9, <3>1, NextSlotKeeps DEF Install, counters
    <3>2. CASE ~(NextSlot(t) /\ UNCHANGED lock)
      BY <2>2, <2>3, <2>9, <3>2 DEF Install, LockedLabels, FreeLabels, counters
    <3>3. QED
      BY <3>1, <3>2
  <2>10. CASE WriteTemporary(t)
    BY <2>3, <2>10 DEF WriteTemporary, LockedLabels, FreeLabels, counters
  <2>11. CASE ClearVerification(t) \/ RecordVerification(t) \/ Succeed(t) \/ Redirect(t)
    BY <2>2, <2>3, <2>11
    DEF ClearVerification, RecordVerification, Succeed, Redirect, LockedLabels, counters
  <2>12. CASE Generate(t) \/ Settle(t)
    BY <2>1, <2>3, <2>12 DEF Generate, Settle, LockedLabels
  <2>13. CASE DeletePrevious(t) \/ DeleteKey(t) \/ PostRealm(t)
    BY <2>1, <2>2, <2>3, <2>13 DEF DeletePrevious, DeleteKey, DeleteRealm, PostRealm, LockedLabels
  <2>14. QED
    BY <2>4, <2>5, <2>6, <2>7, <2>8, <2>9, <2>10, <2>11, <2>12, <2>13 DEF Step
<1>2. requests' = requests /\ restarts' = restarts
  BY DEF Step, Acquire, Load, WriteTemporary, Install, ClearVerification, Generate,
         DeletePrevious, DeleteKey, DeleteRealm, PostRealm, Settle, UnlinkPrevious, Succeed,
         Verify, RecordVerification, LookupDocument, LookupConnection, Impersonate, Redirect,
         counters
<1>3. /\ document' \in Document \union {NoFile}
      /\ temporary' \in Document \union {NoFile}
  <2>1. CASE WriteTemporary(t)
    BY <1>0, <2>1, DocumentType DEF WriteTemporary, TypeOK
  <2>2. CASE Install(t)
    BY <1>0, <2>2 DEF Install, TypeOK
  <2>3. CASE UNCHANGED <<document, temporary>>
    BY <1>0, <2>3 DEF TypeOK
  <2>4. QED
    BY <2>1, <2>2, <2>3
    DEF Step, Acquire, Load, ClearVerification, Generate, DeletePrevious, DeleteKey,
        DeleteRealm, PostRealm, Settle, UnlinkPrevious, Succeed, Verify, RecordVerification,
        LookupDocument, LookupConnection, Impersonate, Redirect, files
<1>4. verification' \in Result \union {NoFile}
  <2>1. CASE RecordVerification(t)
    <3>1. PICK passed \in BOOLEAN :
            verification' = [keys |-> job[t].seen, passed |-> passed]
      BY <2>1 DEF RecordVerification
    <3>2. job[t].seen \in Applied
      BY <1>0 DEF Job
    <3>3. QED
      BY <3>1, <3>2 DEF Result
  <2>2. CASE verification' \in {verification, NoFile}
    BY <1>0, <2>2 DEF TypeOK
  <2>3. QED
    BY <2>1, <2>2
    DEF Step, Acquire, Load, WriteTemporary, Install, ClearVerification, Generate,
        DeletePrevious, DeleteKey, DeleteRealm, PostRealm, Settle, UnlinkPrevious, Succeed,
        Verify, LookupDocument, LookupConnection, Impersonate, Redirect, files
<1>5. /\ imports' \in [Keys -> Content \union {NoFile}]
      /\ connections' \in Applied
  <2>1. CASE Generate(t)
    <3>1. \/ UNCHANGED <<imports, connections>>
          \/ /\ imports' = [imports EXCEPT ![Key(t)] = generated]
             /\ connections' = [connections EXCEPT ![Slot(t)] = Key(t)]
      BY <2>1 DEF Generate
    <3> HIDE DEF generated
    <3>2. QED
      BY <1>0, <3>1 DEF TypeOK, Applied
  <2>2. CASE UnlinkPrevious(t)
    BY <1>0, <2>2 DEF UnlinkPrevious, TypeOK
  <2>3. CASE UNCHANGED <<imports, connections>>
    BY <1>0, <2>3 DEF TypeOK
  <2>4. QED
    BY <2>1, <2>2, <2>3
    DEF Step, Acquire, Load, WriteTemporary, Install, ClearVerification, DeletePrevious,
        DeleteKey, DeleteRealm, PostRealm, Settle, Succeed, Verify, RecordVerification,
        LookupDocument, LookupConnection, Impersonate, Redirect, files
<1>6. realms' \in [Keys -> Content \union {NoRealm}]
  <2>1. CASE PostRealm(t)
    <3>1. realms' \in {realms, [realms EXCEPT ![Key(t)] = generated]}
      BY <2>1 DEF PostRealm
    <3> HIDE DEF generated
    <3>2. QED
      BY <1>0, <3>1
  <2>2. CASE DeletePrevious(t) \/ DeleteKey(t)
    <3>1. PICK key \in Keys \union {NoKey} : realms' \in {realms, [realms EXCEPT ![key] = NoRealm]}
      BY <1>0, <2>2 DEF DeletePrevious, DeleteKey, DeleteRealm
    <3>2. QED
      BY <1>0, <3>1
  <2>3. CASE UNCHANGED realms
    BY <1>0, <2>3
  <2>4. QED
    BY <2>1, <2>2, <2>3
    DEF Step, Acquire, Load, WriteTemporary, Install, ClearVerification, Generate, Settle,
        UnlinkPrevious, Succeed, Verify, RecordVerification, LookupDocument, LookupConnection,
        Impersonate, Redirect
<1>7. QED
  BY <1>0, <1>1, <1>2, <1>3, <1>4, <1>5, <1>6 DEF TypeOK, JobsOK

(* Only LookupConnection starts an impersonation, with a connection found. *)
LEMMA OthersKept ==
  ASSUME TInv, NEW t \in Handlers, Begin(t) \/ Step(t), NEW u \in Handlers, u # t
  PROVE  pc'[u] = pc[u] /\ job'[u] = job[u]
  BY DEF TInv, TypeOK, Begin, Step, Acquire, Load, WriteTemporary, Install, NextSlot,
         ClearVerification, Generate, DeletePrevious, DeleteKey, DeleteRealm, PostRealm,
         Settle, UnlinkPrevious, Succeed, Verify, RecordVerification, LookupDocument,
         LookupConnection, Impersonate, Redirect, Goto, Leave, Fail

(* The labels a step can leave its handler at.                             *)
LEMMA StepLabels ==
  ASSUME TInv, NEW t \in Handlers, Step(t)
  PROVE  /\ pc'[t] = "acquire" => FALSE
         /\ pc'[t] = "impersonate" => LookupConnection(t)
         /\ pc'[t] = "session" => Impersonate(t)
         /\ pc'[t] \in LockedLabels => Acquire(t) \/ pc[t] \in LockedLabels
         /\ pc'[t] \in Writing => pc[t] \in Writing
  BY DEF TInv, TypeOK, Step, Acquire, Load, WriteTemporary, Install, NextSlot,
         ClearVerification, Generate, DeletePrevious, DeleteKey, DeleteRealm, PostRealm,
         Settle, UnlinkPrevious, Succeed, Verify, RecordVerification, LookupDocument,
         LookupConnection, Impersonate, Redirect, Goto, Leave, Fail, LockedLabels, Writing

LEMMA ConnectedStep ==
  ASSUME TInv, NEW t \in Handlers, Step(t)
  PROVE  Connected'
<1>0. /\ Connected /\ job[t] \in Job /\ t \in DOMAIN job
      /\ connections \in [Slots -> Keys \union {NoKey}]
  BY DEF TInv, TypeOK, Applied
<1>1. ASSUME NEW u \in Handlers, pc'[u] = "impersonate"
      PROVE  job'[u].seen[job'[u].slots[job'[u].at]] # NoKey
  <2>1. CASE u # t
    BY <1>0, <1>1, <2>1, OthersKept DEF Connected, Slot
  <2>2. CASE u = t
    <3>1. LookupConnection(t) /\ ~Leave(t)
      <4>1. LookupConnection(t)
        BY <1>1, <2>2, StepLabels
      <4>2. Leave(t) => pc'[t] = "idle"
        BY DEF TInv, TypeOK, Leave, Goto
      <4>3. QED
        BY <1>1, <2>2, <4>1, <4>2
    <3>2. connections[Slot(t)] # NoKey /\ job' = [job EXCEPT ![t].seen = connections]
      BY <3>1 DEF LookupConnection
    <3>3. /\ job'[t].seen = connections
          /\ job'[t].slots = job[t].slots /\ job'[t].at = job[t].at
      BY <1>0, <3>2 DEF Job
    <3>4. QED
      BY <2>2, <3>2, <3>3 DEF Slot
  <2>3. QED
    BY <2>1, <2>2
<1>2. QED
  BY <1>1 DEF Connected, Slot

(* main() gives every slot a file of its scenario and an import file is a  *)
(* realm's content.                                                        *)
LEMMA RegeneratedType ==
  ASSUME TypeOK, document # NoFile, NEW slot \in Slots,
         NEW found \in [Keys -> Content \union {NoFile}]
  PROVE  Regenerated(found, slot) \in [Keys -> Content \union {NoFile}]
<1>1. document.settings \in Settings
  BY DEF TypeOK, Document
<1>2. Generated(slot, document.settings) \in Content
  BY <1>1, GeneratedType
<1>3. QED
  BY <1>2 DEF Regenerated

LEMMA RestartType ==
  ASSUME TInv, Restart
  PROVE  TInv'
<1>0. /\ TypeOK /\ "idle" \in LockedLabels \union FreeLabels
      /\ NoJob \in Job /\ NoJob.at \in 1..Len(NoJob.slots)
      /\ Stable \in Content
  BY NoJobFacts DEF TInv, FreeLabels, NoJob, SCENARIO_SLOTS
<1>1. ThreadsRestarted => /\ lock' \in Handlers \union {NoThread}
                          /\ pc' \in [Handlers -> LockedLabels \union FreeLabels]
                          /\ job' \in [Handlers -> Job]
                          /\ InSelection' /\ Connected'
  BY <1>0 DEF ThreadsRestarted, InSelection, Connected
<1>2. UNCHANGED <<lock, pc, job>> => /\ lock' \in Handlers \union {NoThread}
                                     /\ pc' \in [Handlers -> LockedLabels \union FreeLabels]
                                     /\ job' \in [Handlers -> Job]
                                     /\ InSelection' /\ Connected'
  BY <1>0 DEF TInv, TypeOK, InSelection, Connected, Slot
<1>3. /\ restarts' \in 0..MaxRestarts
      /\ UNCHANGED <<document, temporary, verification, requests, faults>>
      /\ ThreadsRestarted \/ UNCHANGED <<lock, pc, job>>
  BY <1>0, ScenarioAssumption
  DEF Restart, ServiceRestart, KeycloakRestart, StackRestart, Restarting, TypeOK
<1>4. /\ imports' \in [Keys -> Content \union {NoFile}]
      /\ connections' \in Applied
  <2>1. CASE UNCHANGED <<imports, connections>>
    BY <1>0, <2>1 DEF TypeOK
  <2>2. CASE StackRestart
    <3> DEFINE stable == [imports EXCEPT ![StableKey] = Stable]
    <3>1. stable \in [Keys -> Content \union {NoFile}]
      BY <1>0 DEF TypeOK
    <3>2. CASE document = NoFile
      BY <1>0, <2>2, <3>1, <3>2 DEF StackRestart, TypeOK
    <3>3. CASE document # NoFile
      <4>1. /\ imports' = Regenerated(Regenerated(stable, "labA"), "labB")
            /\ connections' = document.settings
        BY <2>2, <3>3 DEF StackRestart
      <4>2. document.settings \in Settings /\ "labA" \in Slots /\ "labB" \in Slots
        BY <1>0, <3>3 DEF TypeOK, Document, Slots
      <4> HIDE DEF stable
      <4>3. Regenerated(stable, "labA") \in [Keys -> Content \union {NoFile}]
        BY <1>0, <3>1, <3>3, <4>2, RegeneratedType
      <4>4. imports' \in [Keys -> Content \union {NoFile}]
        BY <1>0, <3>3, <4>1, <4>2, <4>3, RegeneratedType
      <4>5. QED
        BY <4>1, <4>2, <4>4 DEF Applied, Settings
    <3>4. QED
      BY <3>2, <3>3
  <2>3. QED
    BY <2>1, <2>2 DEF Restart, ServiceRestart, KeycloakRestart
<1>5. realms' \in [Keys -> Content \union {NoRealm}]
  <2>1. realms' \in {realms, Imported(imports), Imported(imports')}
    BY DEF Restart, ServiceRestart, KeycloakRestart, StackRestart
  <2>2. ASSUME NEW found \in [Keys -> Content \union {NoFile}]
        PROVE  Imported(found) \in [Keys -> Content \union {NoRealm}]
    BY <1>0 DEF Imported, TypeOK
  <2>3. imports \in [Keys -> Content \union {NoFile}]
    BY <1>0 DEF TypeOK
  <2>4. QED
    BY <1>0, <1>4, <2>1, <2>2, <2>3 DEF TypeOK
<1>6. QED
  BY <1>0, <1>1, <1>2, <1>3, <1>4, <1>5 DEF TInv, TypeOK

LEMMA TInvInductive ==
  ASSUME TInv, [Next]_vars
  PROVE  TInv'
<1>1. CASE UNCHANGED vars
  BY <1>1 DEF TInv, TypeOK, InSelection, Connected, Slot, vars, files, counters
<1>2. ASSUME NEW t \in Handlers, Begin(t)
      PROVE  TInv'
  <2>1. TypeOK' /\ InSelection'
    BY <1>2, BeginType DEF TInv
  <2>2. pc'[t] # "impersonate"
    BY <1>2, ScenarioAssumption DEF Begin, TInv, TypeOK, Goto, AllOps
  <2>3. Connected'
    BY <1>2, <2>2, OthersKept DEF TInv, Connected, Slot
  <2>4. QED
    BY <2>1, <2>3 DEF TInv
<1>3. ASSUME NEW t \in Handlers, Step(t)
      PROVE  TInv'
  BY <1>3, StepType, ConnectedStep DEF TInv
<1>4. QED
  BY <1>1, <1>2, <1>3, RestartType DEF Next

LEMMA InitTInv == Init => TInv
  BY InitType DEF TInv, Connected, Init

(* Every variable keeps its type, whatever keys the clients pick.          *)
THEOREM TypeCorrect == Spec => []TypeOK
<1>1. TInv => TypeOK
  BY DEF TInv
<1>2. QED
  BY <1>1, InitTInv, TInvInductive, PTL DEF Spec

-----------------------------------------------------------------------------
(* What a step does to the lock, its handler's job and the realms.         *)

LEMMA StepLock ==
  ASSUME TInv, NEW t \in Handlers, Step(t)
  PROVE  Acquire(t) \/ Leave(t) \/ UNCHANGED lock
  BY DEF Step, Acquire, Load, WriteTemporary, Install, ClearVerification, Generate,
         DeletePrevious, DeleteKey, DeleteRealm, PostRealm, Settle, UnlinkPrevious, Succeed,
         Verify, RecordVerification, LookupDocument, LookupConnection, Impersonate, Redirect,
         Fail

LEMMA LeaveFacts ==
  ASSUME TInv, NEW t \in Handlers, Leave(t)
  PROVE  /\ pc'[t] = "idle"
         /\ job'[t] = NoJob
         /\ NoJob.applied = Nothing /\ NoJob.seen = Nothing /\ NoJob.at = 1
  BY DEF TInv, TypeOK, Leave, Goto, NoJob

LEMMA StepJob ==
  ASSUME TInv, NEW t \in Handlers, Step(t), ~Leave(t)
  PROVE  /\ job'[t].settings = job[t].settings
         /\ job'[t].slots = job[t].slots
         /\ \/ job'[t].at = job[t].at
            \/ Install(t) /\ NextSlot(t) /\ pc[t] = "installSlot"
         /\ \/ job'[t].applied = job[t].applied
            \/ job'[t].applied = CurrentDocument.applied
            \/ /\ UnlinkPrevious(t)
               /\ job'[t].applied = [job[t].applied EXCEPT ![Slot(t)] = Key(t)]
         /\ job'[t].seen \in {job[t].seen, connections}
<1>0. job[t] \in Job /\ t \in DOMAIN job
  BY DEF TInv, TypeOK
<1>1. CASE UNCHANGED job
  BY <1>1
<1>2. CASE Load(t) \/ LookupDocument(t)
  <2>1. job' = [job EXCEPT ![t].applied = CurrentDocument.applied]
    BY <1>2 DEF Load, LookupDocument
  <2>2. QED
    BY <1>0, <2>1 DEF Job
<1>3. CASE UnlinkPrevious(t)
  <2>1. job' = [job EXCEPT ![t].applied[Slot(t)] = Key(t)]
    BY <1>3 DEF UnlinkPrevious
  <2>2. QED
    BY <1>0, <1>3, <2>1 DEF Job
<1>4. CASE Verify(t) \/ LookupConnection(t)
  <2>1. job' = [job EXCEPT ![t].seen = connections]
    BY <1>4 DEF Verify, LookupConnection
  <2>2. QED
    BY <1>0, <2>1 DEF Job
<1>5. CASE Impersonate(t)
  <2>1. job' = [job EXCEPT ![t].session = realms[job[t].seen[Slot(t)]]]
    BY <1>5 DEF Impersonate, Fail
  <2>2. QED
    BY <1>0, <2>1 DEF Job
<1>6. CASE Install(t) /\ NextSlot(t) /\ pc[t] = "installSlot"
  <2>1. UNCHANGED job \/ job' = [job EXCEPT ![t].at = @ + 1]
    BY <1>6 DEF NextSlot
  <2>2. QED
    BY <1>0, <1>6, <2>1 DEF Job
<1>7. QED
  BY <1>1, <1>2, <1>3, <1>4, <1>5, <1>6
  DEF Step, Acquire, WriteTemporary, Install, ClearVerification, Generate, DeletePrevious,
      DeleteKey, DeleteRealm, PostRealm, Settle, Succeed, RecordVerification, Redirect, Fail

LEMMA StepRealms ==
  ASSUME TInv, NEW t \in Handlers, Step(t), NEW k \in Keys
  PROVE  \/ realms'[k] = realms[k]
         \/ DeletePrevious(t) /\ k = Previous(t) /\ realms'[k] = NoRealm
         \/ DeleteKey(t) /\ k = Key(t) /\ realms'[k] = NoRealm
         \/ /\ PostRealm(t) /\ k = Key(t)
            /\ realms[k] = NoRealm
            /\ realms'[k] = Generated(Slot(t), job[t].settings)
<1>0. realms \in [Keys -> Content \union {NoRealm}]
  BY DEF TInv, TypeOK
<1>1. CASE UNCHANGED realms
  BY <1>1
<1>2. CASE DeletePrevious(t)
  BY <1>0, <1>2 DEF DeletePrevious, DeleteRealm
<1>3. CASE DeleteKey(t)
  BY <1>0, <1>3 DEF DeleteKey, DeleteRealm
<1>4. CASE PostRealm(t)
  <2> DEFINE generated == Generated(Slot(t), job[t].settings)
  <2>1. \/ realms' = realms
        \/ realms[Key(t)] = NoRealm /\ realms' = [realms EXCEPT ![Key(t)] = generated]
    BY <1>4 DEF PostRealm
  <2> HIDE DEF generated
  <2>2. realms'[k] = realms[k] \/ (k = Key(t) /\ realms[k] = NoRealm /\ realms'[k] = generated)
    BY <1>0, <2>1
  <2>3. QED
    BY <1>4, <2>2 DEF generated
<1>5. QED
  BY <1>1, <1>2, <1>3, <1>4
  DEF Step, Acquire, Load, WriteTemporary, Install, ClearVerification, Generate, Settle,
      UnlinkPrevious, Succeed, Verify, RecordVerification, LookupDocument, LookupConnection,
      Impersonate, Redirect

(* A request begins outside the lock, with keys picked for the slots.      *)
LEMMA BeginFacts ==
  ASSUME TInv, NEW t \in Handlers, Begin(t)
  PROVE  /\ pc'[t] \in {"loadUnlocked", "acquire", "verify", "lookup"}
         /\ job'[t].at = 1
         /\ job'[t].applied = Nothing /\ job'[t].seen = Nothing
         /\ pc'[t] \in Writing => Chosen(job'[t].settings)
         /\ UNCHANGED <<files, realms, lock>>
<1>1. PICK op \in Ops, slots \in Selections, settings \in Settings :
        /\ op \in {"save", "apply", "reset"} => \A s \in Slots : settings[s] \in Choices[s]
        /\ job' = [job EXCEPT ![t] = [NoJob EXCEPT !.op = op, !.settings = settings,
                                                   !.slots = slots]]
        /\ Goto(t, CASE op = "save"      -> "loadUnlocked"
                     [] op \in {"apply", "reset"} -> "acquire"
                     [] op = "verify"    -> "verify"
                     [] op = "bootstrap" -> "lookup")
  BY DEF Begin
<1>2. /\ job'[t].at = 1 /\ job'[t].applied = Nothing /\ job'[t].seen = Nothing
      /\ job'[t].settings = settings
  BY <1>1 DEF TInv, TypeOK, NoJob
<1>3. op \in AllOps
  BY ScenarioAssumption
<1>4. /\ pc'[t] \in {"loadUnlocked", "acquire", "verify", "lookup"}
      /\ pc'[t] \in Writing => op \in {"save", "apply", "reset"}
  BY <1>1, <1>3 DEF TInv, TypeOK, Goto, AllOps, Writing
<1>5. QED
  BY <1>1, <1>2, <1>4 DEF Begin, Chosen

-----------------------------------------------------------------------------
(* The invariant, conjunct by conjunct.                                    *)

LEMMA OwnedSlot ==
  ASSUME SeparateKeys, NEW slot \in Slots, NEW key \in Choices[slot], NEW content,
         Owned(key, content)
  PROVE  content.slot = slot
  BY DEF SeparateKeys, Owned, Slots

LEMMA GeneratedOwned ==
  ASSUME NEW slot \in Slots, NEW key \in Choices[slot], NEW settings
  PROVE  Owned(key, Generated(slot, settings))
  BY DEF Owned, Generated

(* The keys a writer works with were picked for the slot it works on.      *)
LEMMA WorksOnOwnKeys ==
  ASSUME TInv, KeysOfSlots, NEW t \in Handlers, pc[t] \in LockedLabels
  PROVE  /\ Key(t) \in Choices[Slot(t)]
         /\ Previous(t) # NoKey => Previous(t) \in Choices[Slot(t)]
<1>1. Slot(t) \in Slots
  BY SlotFacts DEF TInv
<1>2. QED
  BY <1>1 DEF KeysOfSlots, Chosen, ChosenOrNone, Key, Previous

(* A slot that was finished before has another key.                        *)
LEMMA Apart ==
  ASSUME TInv, KeysOfSlots, SeparateKeys, NEW t \in Handlers, pc[t] \in LockedLabels,
         NEW i \in 1..Len(job[t].slots), i < job[t].at
  PROVE  job[t].settings[job[t].slots[i]] \notin {Key(t), Previous(t)}
<1> DEFINE slot == job[t].slots[i]
<1>1. job[t].slots \in Selections /\ job[t].at \in 1..Len(job[t].slots)
      /\ job[t].settings \in [Slots -> Keys]
  BY DEF TInv, TypeOK, InSelection, Job, Settings
<1>2. slot \in Slots /\ Slot(t) \in Slots
  BY <1>1, SelectionFacts DEF Slot
<1>3. job[t].at # i
  <2>1. PICK n \in 1..2 : n = Len(job[t].slots)
    BY <1>1, SelectionFacts
  <2>2. i \in 1..n /\ job[t].at \in 1..n
    BY <1>1, <2>1
  <2>3. QED
    BY <2>2
<1>4. slot # Slot(t)
  BY <1>1, <1>3, SelectionFacts DEF Slot
<1>5. job[t].settings[slot] \in Choices[slot] /\ job[t].settings[slot] # NoKey
  BY <1>1, <1>2, ScenarioAssumption DEF KeysOfSlots, Chosen
<1>6. job[t].settings[slot] \notin Choices[Slot(t)]
  BY <1>2, <1>4, <1>5 DEF SeparateKeys, Slots
<1>7. QED
  BY <1>5, <1>6, WorksOnOwnKeys

LEMMA LockedStep ==
  ASSUME TInv, Locked, NEW t \in Handlers, Begin(t) \/ Step(t)
  PROVE  Locked'
<1>1. ASSUME NEW u \in Handlers, u # t, pc'[u] \in LockedLabels
      PROVE  lock' = u
  <2>1. lock = u
    BY <1>1, OthersKept DEF Locked
  <2>2. ~Acquire(t)
    BY <2>1, ScenarioAssumption DEF Acquire
  <2>3. QED
    BY <1>1, <2>1, <2>2, StepLock, BeginFacts DEF Leave
<1>2. ASSUME pc'[t] \in LockedLabels
      PROVE  lock' = t
  <2>1. Step(t)
    BY <1>2, BeginFacts DEF LockedLabels
  <2>2. ~Leave(t)
    BY <1>2, LeaveFacts DEF LockedLabels
  <2>3. QED
    BY <1>2, <2>1, <2>2, StepLock, StepLabels DEF Locked, Acquire
<1>3. QED
  BY <1>1, <1>2 DEF Locked

LEMMA KeysStep ==
  ASSUME TInv, KeysOfSlots, NEW t \in Handlers, Begin(t) \/ Step(t)
  PROVE  KeysOfSlots'
<1>0. /\ ChosenOrNone(Nothing)
      /\ ChosenOrNone(CurrentDocument.applied)
      /\ TypeOK
  BY DEF Nothing, ChosenOrNone, CurrentDocument, KeysOfSlots, TInv
<1>1. /\ document' # NoFile => Chosen(document'.settings) /\ ChosenOrNone(document'.applied)
      /\ temporary' # NoFile => Chosen(temporary'.settings) /\ ChosenOrNone(temporary'.applied)
  <2>1. CASE Begin(t)
    BY <2>1, BeginFacts DEF KeysOfSlots, files
  <2>2. CASE WriteTemporary(t)
    <3> DEFINE written == [settings |-> job[t].settings, applied |-> job[t].applied]
    <3>1. pc[t] \in LockedLabels \union Writing
      BY <2>2 DEF WriteTemporary, LockedLabels, Writing
    <3>2. Chosen(written.settings) /\ ChosenOrNone(written.applied)
      BY <3>1 DEF KeysOfSlots
    <3>3. temporary' = written /\ document' = document
      BY <2>2 DEF WriteTemporary
    <3> HIDE DEF written
    <3>4. QED
      BY <3>2, <3>3 DEF KeysOfSlots
  <2>3. CASE Install(t)
    BY <2>3 DEF Install, KeysOfSlots
  <2>4. CASE UNCHANGED <<document, temporary>>
    BY <2>4 DEF KeysOfSlots
  <2>5. QED
    BY <2>1, <2>2, <2>3, <2>4
    DEF Step, Acquire, Load, ClearVerification, Generate, DeletePrevious, DeleteKey,
        DeleteRealm, PostRealm, Settle, UnlinkPrevious, Succeed, Verify, RecordVerification,
        LookupDocument, LookupConnection, Impersonate, Redirect, files
<1>2. ChosenOrNone(connections')
  <2>1. CASE Generate(t)
    <3>1. Key(t) \in Choices[Slot(t)]
      BY <2>1, WorksOnOwnKeys DEF Generate, LockedLabels
    <3>2. connections' = connections \/ connections' = [connections EXCEPT ![Slot(t)] = Key(t)]
      BY <2>1 DEF Generate
    <3>3. connections \in [Slots -> Keys \union {NoKey}] /\ ChosenOrNone(connections)
      BY <1>0 DEF TypeOK, Applied, KeysOfSlots
    <3>4. QED
      BY <3>1, <3>2, <3>3 DEF ChosenOrNone
  <2>2. CASE UNCHANGED connections
    BY <2>2 DEF KeysOfSlots
  <2>3. QED
    BY <2>1, <2>2
    DEF Begin, Step, Acquire, Load, WriteTemporary, Install, ClearVerification, DeletePrevious,
        DeleteKey, DeleteRealm, PostRealm, Settle, UnlinkPrevious, Succeed, Verify,
        RecordVerification, LookupDocument, LookupConnection, Impersonate, Redirect, files
<1>3. ASSUME NEW u \in Handlers
      PROVE  /\ ChosenOrNone(job'[u].applied)
             /\ ChosenOrNone(job'[u].seen)
             /\ pc'[u] \in LockedLabels \union Writing => Chosen(job'[u].settings)
  <2>1. CASE u # t
    BY <2>1, OthersKept DEF KeysOfSlots
  <2>2. CASE u = t /\ Begin(t)
    BY <1>0, <2>2, BeginFacts DEF LockedLabels
  <2>3. CASE u = t /\ Step(t) /\ Leave(t)
    BY <1>0, <2>3, LeaveFacts DEF LockedLabels, Writing
  <2>4. CASE u = t /\ Step(t) /\ ~Leave(t)
    <3>1. ChosenOrNone(job'[t].applied)
      <4>1. CASE job'[t].applied \in {job[t].applied, CurrentDocument.applied}
        BY <1>0, <4>1 DEF KeysOfSlots
      <4>2. CASE UnlinkPrevious(t)
                 /\ job'[t].applied = [job[t].applied EXCEPT ![Slot(t)] = Key(t)]
        <5>1. Key(t) \in Choices[Slot(t)]
          BY <4>2, WorksOnOwnKeys DEF UnlinkPrevious, LockedLabels
        <5>2. job[t].applied \in [Slots -> Keys \union {NoKey}]
          BY <1>0 DEF TypeOK, Job, Applied
        <5>3. QED
          BY <4>2, <5>1, <5>2 DEF ChosenOrNone, KeysOfSlots
      <4>3. QED
        BY <2>4, <4>1, <4>2, StepJob
    <3>2. ChosenOrNone(job'[t].seen)
      BY <2>4, StepJob DEF KeysOfSlots
    <3>3. pc'[t] \in LockedLabels \union Writing =>
            pc[t] \in LockedLabels \union Writing
      BY <2>4, StepLabels DEF Acquire, Writing
    <3>4. QED
      BY <2>4, <3>1, <3>2, <3>3, StepJob DEF KeysOfSlots
  <2>5. QED
    BY <2>1, <2>2, <2>3, <2>4
<1>4. QED
  BY <1>1, <1>2, <1>3 DEF KeysOfSlots

LEMMA OwnedStep ==
  ASSUME TInv, KeysOfSlots, RealmsOwned, NEW t \in Handlers, Begin(t) \/ Step(t)
  PROVE  RealmsOwned'
<1>0. TypeOK /\ Slot(t) \in Slots
  BY SlotFacts DEF TInv
<1>1. CASE Begin(t)
  BY <1>1, BeginFacts DEF RealmsOwned, files
<1>2. CASE Step(t)
  <2>1. ASSUME NEW k \in Keys, realms'[k] # NoRealm
        PROVE  Owned(k, realms'[k])
    <3>1. CASE PostRealm(t) /\ k = Key(t)
               /\ realms'[k] = Generated(Slot(t), job[t].settings)
      <4>1. k \in Choices[Slot(t)]
        BY <3>1, WorksOnOwnKeys DEF PostRealm, LockedLabels
      <4>2. QED
        BY <1>0, <3>1, <4>1, GeneratedOwned
    <3>2. QED
      BY <1>2, <2>1, <3>1, StepRealms DEF RealmsOwned
  <2>2. ASSUME NEW k \in Keys, imports'[k] # NoFile
        PROVE  Owned(k, imports'[k])
    <3>1. CASE Generate(t)
      <4> DEFINE generated == Generated(Slot(t), job[t].settings)
      <4>1. Key(t) \in Choices[Slot(t)]
        BY <3>1, WorksOnOwnKeys DEF Generate, LockedLabels
      <4>2. Owned(Key(t), generated)
        BY <1>0, <4>1, GeneratedOwned
      <4>3. imports' = imports \/ imports' = [imports EXCEPT ![Key(t)] = generated]
        BY <3>1 DEF Generate
      <4> HIDE DEF generated
      <4>4. imports'[k] = imports[k] \/ (k = Key(t) /\ imports'[k] = generated)
        BY <1>0, <4>3 DEF TypeOK
      <4>5. QED
        BY <2>2, <4>2, <4>4 DEF RealmsOwned
    <3>2. CASE UnlinkPrevious(t)
      <4>1. imports'[k] \in {imports[k], NoFile}
        BY <1>0, <3>2 DEF UnlinkPrevious, TypeOK
      <4>2. QED
        BY <2>2, <4>1 DEF RealmsOwned
    <3>3. CASE UNCHANGED imports
      BY <2>2, <3>3 DEF RealmsOwned
    <3>4. QED
      BY <1>2, <3>1, <3>2, <3>3
      DEF Step, Acquire, Load, WriteTemporary, Install, ClearVerification, DeletePrevious,
          DeleteKey, DeleteRealm, PostRealm, Settle, Succeed, Verify, RecordVerification,
          LookupDocument, LookupConnection, Impersonate, Redirect, files
  <2>3. QED
    BY <2>1, <2>2 DEF RealmsOwned
<1>3. QED
  BY <1>1, <1>2

(* A slot becomes finished when its realm has been created, and the next   *)
(* slot starts after it.                                                   *)
LEMMA FinishedBefore ==
  ASSUME TInv, SlotsServed, NEW t \in Handlers, Step(t), ~Leave(t), pc'[t] \in LockedLabels,
         NEW i \in 1..Len(job[t].slots), Finished(t, i)'
  PROVE  /\ pc[t] \in LockedLabels
         /\ \/ Finished(t, i)
            \/ /\ PostRealm(t) /\ i = job[t].at
               /\ realms' = [realms EXCEPT ![Key(t)] = Generated(Slot(t), job[t].settings)]
<1>0. /\ job[t].at \in Nat /\ i \in Nat /\ t \in DOMAIN pc /\ job[t] \in Job /\ t \in DOMAIN job
      /\ pc \in [Handlers -> LockedLabels \union FreeLabels]
  <2>1. job[t].at \in 1..2 /\ job[t].slots \in Selections
    BY DEF TInv, TypeOK, Job
  <2>2. PICK n \in 1..2 : n = Len(job[t].slots)
    BY <2>1, SelectionFacts
  <2>3. i \in 1..n
    BY <2>2
  <2>4. QED
    BY <2>1, <2>3 DEF TInv, TypeOK
<1>1. CASE Acquire(t)
  <2>1. pc'[t] = "load" /\ job'[t].at = 1 /\ i >= 1
    <3>1. i >= 1
      <4>1. PICK n \in 1..2 : n = Len(job[t].slots)
        BY <1>0, SelectionFacts DEF Job
      <4>2. QED
        BY <4>1
    <3>2. QED
      BY <1>0, <1>1, <3>1 DEF Acquire, Goto, SlotsServed
  <2>2. QED
    BY <1>0, <2>1 DEF Finished
<1>2. CASE Install(t) /\ NextSlot(t) /\ pc[t] = "installSlot"
  <2>1. job'[t].at \in {job[t].at, job[t].at + 1}
    BY <1>0, <1>2 DEF NextSlot, Job
  <2>2. i < job'[t].at \/ i = job'[t].at
    BY DEF Finished
  <2>3. i <= job[t].at
    <3>1. CASE job'[t].at = job[t].at
      BY <1>0, <2>2, <3>1
    <3>2. CASE job[t].at < Len(job[t].slots)
      <4>1. pc'[t] = "generate" /\ job'[t].at = job[t].at + 1
        BY <1>0, <1>2, <3>2 DEF NextSlot, Goto, Job
      <4>2. QED
        BY <1>0, <4>1 DEF Finished
    <3>3. QED
      BY <1>0, <1>2, <2>1, <3>1, <3>2 DEF NextSlot
  <2>4. QED
    BY <1>0, <1>2, <2>3 DEF Finished, LockedLabels
<1>3. CASE PostRealm(t)
  <2>1. /\ pc[t] = "post" /\ pc'[t] = "settle" /\ job' = job
        /\ realms' = [realms EXCEPT ![Key(t)] = Generated(Slot(t), job[t].settings)]
    BY <1>0, <1>3 DEF PostRealm, Fail, Goto
  <2>2. QED
    BY <1>3, <2>1 DEF Finished, LockedLabels
<1>4. CASE ~Acquire(t) /\ ~PostRealm(t) /\ pc[t] # "installSlot"
  <2>1. job'[t].at = job[t].at /\ pc[t] \in LockedLabels
    BY <1>4, StepJob, StepLabels
  <2>2. CASE i < job[t].at
    BY <2>1, <2>2 DEF Finished
  <2>3. CASE ~(i < job[t].at)
    <3>1. /\ i = job[t].at
          /\ pc'[t] \in {"settle", "unlink", "writeSlot", "installSlot",
                         "lockedVerify", "lockedRecord", "succeeded"}
      BY <2>1, <2>3 DEF Finished
    <3>2. pc[t] \in {"settle", "unlink", "writeSlot", "installSlot",
                     "lockedVerify", "lockedRecord", "succeeded"}
      BY <1>0, <1>4, <2>1, <3>1
      DEF Step, Acquire, Load, WriteTemporary, Install, ClearVerification, Generate,
          DeletePrevious, DeleteKey, DeleteRealm, PostRealm, Settle, UnlinkPrevious, Succeed,
          Verify, RecordVerification, LookupDocument, LookupConnection, Impersonate, Redirect,
          Goto, Fail, LockedLabels
    <3>3. QED
      BY <2>1, <3>1, <3>2 DEF Finished
  <2>4. QED
    BY <2>2, <2>3
<1>5. CASE pc[t] = "installSlot" /\ ~(Install(t) /\ NextSlot(t))
  <2>1. Install(t)
    BY <1>5
    DEF Step, Acquire, Load, WriteTemporary, Install, ClearVerification, Generate,
        DeletePrevious, DeleteKey, DeleteRealm, PostRealm, Settle, UnlinkPrevious, Succeed,
        Verify, RecordVerification, LookupDocument, LookupConnection, Impersonate, Redirect
  <2>2. QED
    BY <1>5, <2>1 DEF Install
<1>6. QED
  BY <1>1, <1>2, <1>3, <1>4, <1>5

LEMMA ServedStep ==
  ASSUME TInv, Locked, KeysOfSlots, SlotsServed, SeparateKeys,
         NEW t \in Handlers, Begin(t) \/ Step(t)
  PROVE  SlotsServed'
<1>0. TypeOK /\ realms \in [Keys -> Content \union {NoRealm}]
  BY DEF TInv, TypeOK
<1>1. ASSUME NEW u \in Handlers, pc'[u] \in LockedLabels,
             NEW i \in 1..Len(job'[u].slots), Finished(u, i)'
      PROVE  realms'[job'[u].settings[job'[u].slots[i]]]
               = Generated(job'[u].slots[i], job'[u].settings)
  <2>1. CASE u # t
    <3>1. pc'[u] = pc[u] /\ job'[u] = job[u]
      BY <2>1, OthersKept
    <3>2. lock = u
      BY <1>1, <3>1 DEF Locked
    <3>3. pc[t] \notin LockedLabels
      BY <2>1, <3>2 DEF Locked
    <3>4. realms' = realms
      BY <3>3, BeginFacts
      DEF Step, Acquire, Load, WriteTemporary, Install, ClearVerification, Generate,
          DeletePrevious, DeleteKey, PostRealm, Settle, UnlinkPrevious, Succeed, Verify,
          RecordVerification, LookupDocument, LookupConnection, Impersonate, Redirect,
          LockedLabels
    <3>5. QED
      BY <1>1, <3>1, <3>4 DEF SlotsServed, Finished, Served
  <2>2. CASE u = t
    <3>1. Step(t) /\ ~Leave(t)
      BY <1>1, <2>2, BeginFacts, LeaveFacts DEF LockedLabels
    <3>2. /\ job'[t].settings = job[t].settings /\ job'[t].slots = job[t].slots
          /\ i \in 1..Len(job[t].slots)
      BY <1>1, <2>2, <3>1, StepJob
    <3>3. /\ pc[t] \in LockedLabels
          /\ \/ Finished(t, i)
             \/ /\ PostRealm(t) /\ i = job[t].at
                /\ realms' = [realms EXCEPT ![Key(t)] = Generated(Slot(t), job[t].settings)]
      BY <1>1, <2>2, <3>1, <3>2, FinishedBefore
    <3> DEFINE slot == job[t].slots[i]
               key  == job[t].settings[slot]
    <3>4. /\ slot \in Slots /\ key \in Keys
          /\ Generated(slot, job[t].settings) \in Content
          /\ Key(t) \in Keys
      <4>1. job[t].slots \in Selections /\ job[t].settings \in Settings
        BY <1>0 DEF TypeOK, Job
      <4>2. slot \in Slots
        BY <3>2, <4>1, SelectionFacts
      <4>3. QED
        BY <4>1, <4>2, GeneratedType, SlotFacts DEF Settings, TInv
    <3>5. CASE i = job[t].at /\ PostRealm(t)
               /\ realms' = [realms EXCEPT ![Key(t)] = Generated(Slot(t), job[t].settings)]
      <4>1. slot = Slot(t) /\ key = Key(t)
        BY <3>5 DEF Slot, Key
      <4>2. realms'[Key(t)] = Generated(Slot(t), job[t].settings)
        BY <1>0, <3>4, <3>5
      <4>3. QED
        BY <2>2, <3>2, <4>1, <4>2
    <3>6. CASE Finished(t, i)
      <4>1. realms[key] = Generated(slot, job[t].settings)
        BY <3>2, <3>3, <3>6 DEF SlotsServed, Served
      <4>2. realms'[key] = realms[key]
        <5>1. CASE i < job[t].at
          <6>1. key \notin {Key(t), Previous(t)}
            BY <3>2, <3>3, <5>1, Apart
          <6> HIDE DEF key
          <6>2. QED
            BY <3>1, <3>4, <6>1, StepRealms
        <5>2. CASE ~(i < job[t].at)
          <6>1. pc[t] \in {"settle", "unlink", "writeSlot", "installSlot",
                           "lockedVerify", "lockedRecord", "succeeded"}
            BY <3>6, <5>2 DEF Finished
          <6> HIDE DEF key
          <6>2. QED
            BY <3>1, <3>4, <6>1, StepRealms DEF DeletePrevious, DeleteKey, PostRealm
        <5>3. QED
          BY <5>1, <5>2
      <4>3. QED
        BY <2>2, <3>2, <4>1, <4>2
    <3>7. QED
      BY <3>3, <3>5, <3>6
  <2>3. QED
    BY <2>1, <2>2
<1>2. ASSUME NEW u \in Handlers
      PROVE  /\ pc'[u] \in {"acquire", "load", "write", "install", "clear"} => job'[u].at = 1
             /\ pc'[u] \in {"lockedVerify", "lockedRecord", "succeeded"} =>
                  job'[u].at = Len(job'[u].slots)
  <2>1. CASE u # t
    BY <2>1, OthersKept DEF SlotsServed
  <2>2. CASE u = t /\ Begin(t)
    BY <2>2, BeginFacts
  <2>3. CASE u = t /\ Step(t) /\ Leave(t)
    BY <2>3, LeaveFacts
  <2>4. CASE u = t /\ Step(t) /\ ~Leave(t) /\ Install(t) /\ NextSlot(t) /\ pc[t] = "installSlot"
    <3>1. job[t].at \in 1..Len(job[t].slots) /\ job[t].slots \in Selections
          /\ job[t].at \in 1..2
      BY DEF TInv, InSelection, TypeOK, Job
    <3>2. PICK n \in 1..2 : n = Len(job[t].slots)
      BY <3>1, SelectionFacts
    <3>3. ~(job[t].at < n) => job[t].at = n
      BY <3>1, <3>2
    <3>4. pc'[t] \in {"generate", "lockedVerify", "succeeded"}
          /\ (pc'[t] # "generate" => ~(job[t].at < Len(job[t].slots)) /\ UNCHANGED job)
      BY <1>0, <2>4 DEF NextSlot, Goto, TypeOK
    <3>5. QED
      BY <2>4, <3>2, <3>3, <3>4
  <2>5. CASE u = t /\ Step(t) /\ ~Leave(t)
             /\ ~(Install(t) /\ NextSlot(t) /\ pc[t] = "installSlot")
    <3>1. job'[t].at = job[t].at /\ job'[t].slots = job[t].slots
      BY <2>5, StepJob
    <3>2. /\ pc'[t] \in {"acquire", "load", "write", "install", "clear"} =>
               pc[t] \in {"acquire", "load", "write", "install", "clear"}
          /\ pc'[t] \in {"lockedVerify", "lockedRecord", "succeeded"} =>
               pc[t] \in {"lockedVerify", "lockedRecord", "succeeded"}
      BY <1>0, <2>5
      DEF TypeOK, Step, Acquire, Load, WriteTemporary, Install, ClearVerification, Generate,
          DeletePrevious, DeleteKey, DeleteRealm, PostRealm, Settle, UnlinkPrevious, Succeed,
          Verify, RecordVerification, LookupDocument, LookupConnection, Impersonate, Redirect,
          Goto, Fail
    <3>3. QED
      BY <2>5, <3>1, <3>2 DEF SlotsServed
  <2>6. QED
    BY <2>1, <2>2, <2>3, <2>4, <2>5
<1>3. QED
  BY <1>1, <1>2 DEF SlotsServed, Served

LEMMA SessionStep ==
  ASSUME TInv, KeysOfSlots, RealmsOwned, SessionOfSlot, SeparateKeys,
         NEW t \in Handlers, Begin(t) \/ Step(t)
  PROVE  SessionOfSlot'
<1>1. ASSUME NEW u \in Handlers, pc'[u] = "session"
      PROVE  job'[u].session.slot = job'[u].slots[job'[u].at]
  <2>1. CASE u # t
    BY <1>1, <2>1, OthersKept DEF SessionOfSlot, Slot
  <2>2. CASE u = t
    <3> DEFINE key == job[t].seen[Slot(t)]
    <3>1. Impersonate(t) /\ ~Leave(t)
      BY <1>1, <2>2, BeginFacts, StepLabels, LeaveFacts
    <3>2. /\ realms[key] # NoRealm /\ job' = [job EXCEPT ![t].session = realms[key]]
          /\ pc[t] = "impersonate"
      BY <3>1 DEF Impersonate, Fail
    <3>3. /\ job'[t].session = realms[key]
          /\ job'[t].slots = job[t].slots /\ job'[t].at = job[t].at
      BY <3>2 DEF TInv, TypeOK, Job
    <3>4. Slot(t) \in Slots /\ key \in Keys \union {NoKey} /\ key # NoKey
      <4>1. Slot(t) \in Slots /\ job[t].seen \in [Slots -> Keys \union {NoKey}]
        BY SlotFacts DEF TInv, TypeOK, Job, Applied
      <4>2. QED
        BY <3>2, <4>1 DEF TInv, Connected
    <3>5. key \in Choices[Slot(t)] /\ Owned(key, realms[key])
      BY <3>2, <3>4 DEF KeysOfSlots, ChosenOrNone, RealmsOwned
    <3>6. realms[key].slot = Slot(t)
      BY <3>4, <3>5, OwnedSlot
    <3>7. QED
      BY <2>2, <3>3, <3>6 DEF Slot
  <2>3. QED
    BY <2>1, <2>2
<1>2. QED
  BY <1>1 DEF SessionOfSlot, Slot

-----------------------------------------------------------------------------
(* Restarts.                                                               *)

OwnedBy(table, none) == \A k \in Keys : table[k] # none => Owned(k, table[k])

LEMMA RegeneratedOwned ==
  ASSUME TypeOK, document # NoFile, Chosen(document.settings), NEW slot \in Slots,
         NEW found \in [Keys -> Content \union {NoFile}], OwnedBy(found, NoFile)
  PROVE  OwnedBy(Regenerated(found, slot), NoFile)
<1>1. document.settings[slot] \in Choices[slot]
  BY DEF Chosen
<1>2. Owned(document.settings[slot], Generated(slot, document.settings))
  BY <1>1, GeneratedOwned
<1> DEFINE generated == Generated(slot, document.settings)
<1> HIDE DEF generated
<1>3. \A k \in Keys : Regenerated(found, slot)[k] =
        IF k = document.settings[slot] THEN generated
        ELSE IF k = document.applied[slot] THEN NoFile ELSE found[k]
  BY DEF Regenerated, generated
<1>4. QED
  BY <1>2, <1>3 DEF OwnedBy, generated

LEMMA ImportedOwned ==
  ASSUME TypeOK, RealmsOwned, NEW found \in [Keys -> Content \union {NoFile}],
         OwnedBy(found, NoFile)
  PROVE  OwnedBy(Imported(found), NoRealm)
  BY DEF OwnedBy, Imported, RealmsOwned, TypeOK

LEMMA RestartStep ==
  ASSUME SInv, Restart
  PROVE  (Locked /\ KeysOfSlots /\ RealmsOwned /\ SlotsServed /\ SessionOfSlot)'
<1>0. TInv /\ TypeOK /\ TInv' /\ KeysOfSlots /\ RealmsOwned
  BY RestartType DEF SInv, TInv
<1>1. CASE ThreadsRestarted
  <2>1. \A t \in Handlers : pc'[t] = "idle" /\ job'[t] = NoJob
    BY <1>1 DEF ThreadsRestarted
  <2>2. (Locked /\ SlotsServed /\ SessionOfSlot)'
    BY <2>1 DEF Locked, SlotsServed, SessionOfSlot, LockedLabels
  <2>3. KeysOfSlots'
    <3>1. UNCHANGED <<document, temporary>> /\ NoJob.applied = Nothing /\ NoJob.seen = Nothing
      BY DEF Restart, ServiceRestart, KeycloakRestart, StackRestart, Restarting, NoJob
    <3>2. ChosenOrNone(Nothing)
      BY DEF Nothing, ChosenOrNone
    <3>3. ChosenOrNone(connections')
      BY <1>0 DEF KeysOfSlots, Chosen, ChosenOrNone, Restart, ServiceRestart, KeycloakRestart,
                  StackRestart
    <3>4. QED
      BY <1>0, <2>1, <3>1, <3>2, <3>3 DEF KeysOfSlots, LockedLabels, Writing
  <2>4. RealmsOwned'
    <3>1. CASE UNCHANGED <<imports, realms>>
      BY <1>0, <3>1 DEF RealmsOwned
    <3>2. CASE StackRestart
      <4> DEFINE stable == [imports EXCEPT ![StableKey] = Stable]
      <4>1. Stable \in Content /\ Owned(StableKey, Stable)
        BY NoJobFacts DEF Owned, Stable
      <4>2. stable \in [Keys -> Content \union {NoFile}] /\ OwnedBy(stable, NoFile)
        BY <1>0, <4>1 DEF TypeOK, OwnedBy, RealmsOwned
      <4>3. OwnedBy(imports', NoFile)
        <5>1. CASE document = NoFile
          BY <3>2, <4>2, <5>1 DEF StackRestart
        <5>2. CASE document # NoFile
          <6>1. /\ imports' = Regenerated(Regenerated(stable, "labA"), "labB")
                /\ Chosen(document.settings) /\ "labA" \in Slots /\ "labB" \in Slots
            BY <1>0, <3>2, <5>2 DEF StackRestart, KeysOfSlots, Slots
          <6> HIDE DEF stable
          <6>2. /\ Regenerated(stable, "labA") \in [Keys -> Content \union {NoFile}]
                /\ OwnedBy(Regenerated(stable, "labA"), NoFile)
            BY <1>0, <4>2, <5>2, <6>1, RegeneratedType, RegeneratedOwned
          <6>3. QED
            BY <1>0, <5>2, <6>1, <6>2, RegeneratedOwned
        <5>3. QED
          BY <5>1, <5>2
      <4>4. imports' \in [Keys -> Content \union {NoFile}]
        BY <1>0 DEF TInv, TypeOK
      <4>5. realms' = Imported(imports')
        BY <3>2 DEF StackRestart
      <4>6. OwnedBy(realms', NoRealm)
        BY <1>0, <4>3, <4>4, <4>5, ImportedOwned
      <4>7. QED
        BY <4>3, <4>6 DEF OwnedBy, RealmsOwned
    <3>3. CASE KeycloakRestart
      <4>1. imports \in [Keys -> Content \union {NoFile}] /\ OwnedBy(imports, NoFile)
        BY <1>0 DEF TypeOK, OwnedBy, RealmsOwned
      <4>2. OwnedBy(realms', NoRealm)
        BY <1>0, <3>3, <4>1, ImportedOwned DEF KeycloakRestart
      <4>3. QED
        BY <1>0, <3>3, <4>2 DEF KeycloakRestart, OwnedBy, RealmsOwned
    <3>4. QED
      BY <3>1, <3>2, <3>3 DEF Restart, ServiceRestart
  <2>5. QED
    BY <2>2, <2>3, <2>4
<1>2. CASE KeycloakRestart
  <2>1. UNCHANGED <<document, temporary, imports, connections, lock, pc, job>>
        /\ realms' = Imported(imports)
    BY <1>2 DEF KeycloakRestart, Restarting
  <2>2. (Locked /\ KeysOfSlots /\ SessionOfSlot)'
    BY <2>1 DEF SInv, Locked, KeysOfSlots, SessionOfSlot, Slot
  <2>3. imports \in [Keys -> Content \union {NoFile}] /\ OwnedBy(imports, NoFile)
    BY <1>0 DEF TypeOK, OwnedBy, RealmsOwned
  <2>4. RealmsOwned'
    <3>1. OwnedBy(realms', NoRealm)
      BY <1>0, <2>1, <2>3, ImportedOwned
    <3>2. QED
      BY <2>1, <2>3, <3>1 DEF OwnedBy, RealmsOwned
  <2>5. ASSUME NEW t \in Handlers, NEW i \in 1..Len(job[t].slots), Served(t, i)
        PROVE  Served(t, i)'
    <3> DEFINE slot == job[t].slots[i]
               key  == job[t].settings[slot]
    <3>1. /\ slot \in Slots /\ key \in Keys
          /\ Generated(slot, job[t].settings) \in Content
      <4>1. job[t].slots \in Selections /\ job[t].settings \in Settings
        BY <1>0 DEF TypeOK, Job
      <4>2. slot \in Slots
        BY <4>1, SelectionFacts
      <4>3. QED
        BY <4>1, <4>2, GeneratedType DEF Settings
    <3>2. realms[key] = Generated(slot, job[t].settings)
      BY <2>5 DEF Served
    <3>3. realms[key] # NoRealm
      BY <3>1, <3>2, ScenarioAssumption
    <3> HIDE DEF key
    <3>4. realms'[key] = realms[key]
      BY <2>1, <3>1, <3>3 DEF Imported
    <3>5. QED
      BY <2>1, <3>2, <3>4 DEF Served, key
  <2>6. SlotsServed'
    BY <2>1, <2>5 DEF SInv, SlotsServed, Finished
  <2>7. QED
    BY <2>2, <2>4, <2>6
<1>3. QED
  BY <1>1, <1>2 DEF Restart, ServiceRestart, StackRestart

LEMMA SInvInductive ==
  ASSUME SInv, SeparateKeys, [Next]_vars
  PROVE  SInv'
<1>1. TInv'
  BY TInvInductive DEF SInv
<1>2. CASE UNCHANGED vars
  BY <1>1, <1>2 DEF SInv, Locked, KeysOfSlots, RealmsOwned, SlotsServed, Finished, Served,
                    SessionOfSlot, Slot, vars, files, counters
<1>3. ASSUME NEW t \in Handlers, Begin(t) \/ Step(t)
      PROVE  SInv'
  BY <1>1, <1>3, LockedStep, KeysStep, OwnedStep, ServedStep, SessionStep DEF SInv
<1>4. QED
  BY <1>1, <1>2, <1>3, RestartStep DEF Next, SInv

LEMMA InitSInv == Init => SInv
<1> SUFFICES ASSUME Init PROVE SInv
  OBVIOUS
<1>1. \A t \in Handlers : pc[t] = "idle" /\ job[t] = NoJob
  BY DEF Init
<1>2. Locked /\ SlotsServed /\ SessionOfSlot
  BY <1>1 DEF Locked, SlotsServed, SessionOfSlot, LockedLabels
<1>3. KeysOfSlots
  BY <1>1 DEF Init, KeysOfSlots, ChosenOrNone, NoJob, Nothing, LockedLabels, Writing
<1>4. RealmsOwned
  BY DEF Init, RealmsOwned, Owned, Stable
<1>5. QED
  BY <1>2, <1>3, <1>4, InitTInv DEF SInv

LEMMA SInvHolds == ASSUME SeparateKeys PROVE Spec => []SInv
  BY InitSInv, SInvInductive, PTL DEF Spec

-----------------------------------------------------------------------------
(* The results.                                                            *)

(* With keys kept apart, an apply that answers 200 leaves Keycloak serving *)
(* under each selected key the realm of that slot generated from the       *)
(* applied scenario, whatever other requests and restarts came between.    *)
THEOREM AppliedIsServed ==
  ASSUME SeparateKeys
  PROVE  Spec => []AnswerIsServed
<1>1. SInv => AnswerIsServed
  <2> SUFFICES ASSUME SInv, NEW t \in Handlers, pc[t] = "succeeded",
                      NEW i \in 1..Len(job[t].slots)
               PROVE  Served(t, i)
    BY DEF AnswerIsServed, Served
  <2>1. job[t].at = Len(job[t].slots) /\ pc[t] \in LockedLabels
    BY DEF SInv, SlotsServed, LockedLabels
  <2>2. PICK n \in 1..2 : n = Len(job[t].slots)
    BY SelectionFacts DEF SInv, TInv, TypeOK, Job
  <2>3. i < job[t].at \/ i = job[t].at
    <3>1. i \in 1..n /\ job[t].at = n
      BY <2>1, <2>2
    <3>2. QED
      BY <3>1
  <2>4. QED
    BY <2>1, <2>3 DEF Finished, SInv, SlotsServed
<1>2. QED
  BY <1>1, SInvHolds, PTL

(* With keys kept apart, a browser session bootstrapped for a slot is a    *)
(* session in that slot's realm, although nothing is read under the lock.  *)
THEOREM BootstrapOfSlot ==
  ASSUME SeparateKeys
  PROVE  Spec => []SessionOfSlot
<1>1. SInv => SessionOfSlot
  BY DEF SInv
<1>2. QED
  BY <1>1, SInvHolds, PTL

(* With keys kept apart, work on a slot deletes or creates no realm of the *)
(* other slot, and not the stable realm.                                   *)
THEOREM WorkOnSelectedRealm ==
  ASSUME SeparateKeys
  PROVE  Spec => SelectedRealmOnly
<1> DEFINE Selected ==
      \A t \in Handlers :
        DeletePrevious(t) \/ DeleteKey(t) \/ PostRealm(t) =>
          \A k \in Keys : realms'[k] # realms[k] /\ realms[k] # NoRealm
                            => realms[k].slot = Slot(t)
<1>1. SInv => Selected
  <2> SUFFICES ASSUME SInv, NEW t \in Handlers,
                      DeletePrevious(t) \/ DeleteKey(t) \/ PostRealm(t),
                      NEW k \in Keys, realms'[k] # realms[k], realms[k] # NoRealm
               PROVE  realms[k].slot = Slot(t)
    OBVIOUS
  <2>1. TInv /\ KeysOfSlots /\ pc[t] \in LockedLabels /\ Slot(t) \in Slots
    BY SlotFacts DEF SInv, TInv, DeletePrevious, DeleteKey, PostRealm, LockedLabels
  <2>2. k \in {Key(t), Previous(t)}
    BY <2>1, StepRealms DEF Step
  <2>3. k \in Choices[Slot(t)]
    BY <2>1, <2>2, WorksOnOwnKeys, ScenarioAssumption
  <2>4. Owned(k, realms[k])
    BY DEF SInv, RealmsOwned
  <2>5. QED
    BY <2>1, <2>3, <2>4, OwnedSlot
<1>2. QED
  BY <1>1, SInvHolds, PTL DEF SelectedRealmOnly

(* With keys kept apart, after an ordinary start Keycloak holds a realm of *)
(* each slot under the saved key.                                          *)
THEOREM StartServes ==
  ASSUME SeparateKeys
  PROVE  Spec => StartServesBothLabs
<1> DEFINE Start == StackRestart /\ document # NoFile =>
                      \A s \in Slots : realms'[document.settings[s]] # NoRealm
<1>1. SInv => Start
  <2> SUFFICES ASSUME SInv, StackRestart, document # NoFile, NEW s \in Slots
               PROVE  realms'[document.settings[s]] # NoRealm
    OBVIOUS
  <2> DEFINE stable == [imports EXCEPT ![StableKey] = Stable]
             key    == document.settings[s]
  <2>1. /\ document.settings \in Settings
        /\ Chosen(document.settings) /\ ChosenOrNone(document.applied)
        /\ realms \in [Keys -> Content \union {NoRealm}]
    BY DEF SInv, TInv, TypeOK, KeysOfSlots, Document
  <2>2. key \in Keys /\ key # NoKey /\ key \in Choices[s]
    BY <2>1, ScenarioAssumption DEF Settings, Chosen
  <2>3. Generated(s, document.settings) \in Content
    BY <2>1, GeneratedType
  <2> HIDE DEF stable
  <2>4. imports' = Regenerated(Regenerated(stable, "labA"), "labB")
        /\ realms' = Imported(imports')
    BY DEF StackRestart, stable
  <2>5. imports'[key] = Generated(s, document.settings)
    <3>1. CASE s = "labB"
      BY <2>2, <2>4, <3>1 DEF Regenerated
    <3>2. CASE s = "labA"
      <4>1. key # document.settings["labB"] /\ key # document.applied["labB"]
        BY <2>1, <2>2, <3>2 DEF Settings, ChosenOrNone, SeparateKeys, Slots
      <4>2. imports'[key] = Regenerated(stable, "labA")[key]
        BY <2>2, <2>4, <4>1 DEF Regenerated
      <4>3. QED
        BY <2>2, <3>2, <4>2 DEF Regenerated
    <3>3. QED
      BY <3>1, <3>2 DEF Slots
  <2>6. imports'[key] # NoFile /\ imports'[key] # NoRealm
    BY <2>3, <2>5, ScenarioAssumption
  <2>7. QED
    BY <2>2, <2>4, <2>6 DEF Imported
<1>2. QED
  BY <1>1, SInvHolds, PTL DEF StartServesBothLabs
=============================================================================
