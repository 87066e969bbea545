------------------------------ MODULE ScenarioLab ------------------------------
(***************************************************************************)
(* The two lab realms of the configuration service: save_scenarios,        *)
(* apply_scenarios (both realms, or one for a reset), verify_scenarios and *)
(* bootstrap_browser_session of server.py, the files of scenarios.py, and  *)
(* scenarios.py main(), which a stack start runs.                          *)
(*                                                                         *)
(* apply_scenarios holds _apply_lock; the other operations do not.  A      *)
(* scenario is the realm key each lab slot asks for; claim shapes, clients *)
(* and callbacks are in the content of a realm only as the scenario it was *)
(* generated from.  Each lab realm has an import file named after its key, *)
(* and Keycloak imports, when it starts, the files whose realm is missing. *)
(* The legacy import names (northlake-laba-realm.json) are left out.       *)
(***************************************************************************)
EXTENDS Naturals, Sequences

CONSTANTS
  Handlers,     \* request threads
  Keys,         \* realm keys
  StableKey,    \* the key of the stable realm
  Choices,      \* the keys clients pick for each slot in this instance
  Default,      \* preset_settings: the key of each slot
  Ops,          \* the operations clients call in this instance
  MaxRequests,  \* bound: requests in a behaviour
  MaxFaults,    \* bound: failed Keycloak calls and generations
  MaxRestarts,  \* bound: restarts
  NoKey, NoRealm, NoFile, NoThread

SCENARIO_SLOTS == <<"labA", "labB">>
Slots == {"labA", "labB"}

(* ScenarioSettings.from_values refuses two slots with one key.            *)
Settings == {s \in [Slots -> Keys] : s["labA"] # s["labB"]}
Applied  == [Slots -> Keys \union {NoKey}]
Document == [settings: Settings, applied: Applied]
Content  == [slot: Slots \union {"stable"}, settings: Settings]
Result   == [keys: Applied, passed: BOOLEAN]
Selections == {SCENARIO_SLOTS, <<"labA">>, <<"labB">>}
AllOps == {"save", "apply", "reset", "verify", "bootstrap"}

ASSUME ScenarioAssumption ==
  /\ StableKey \in Keys
  /\ NoKey \notin Keys
  /\ NoThread \notin Handlers
  /\ Default \in Settings
  /\ Choices \in [Slots -> SUBSET Keys]
  /\ Ops \subseteq AllOps
  /\ MaxRequests \in Nat /\ MaxFaults \in Nat /\ MaxRestarts \in Nat
  /\ NoRealm \notin Content
  /\ NoFile \notin Document \union Content \union Result

VARIABLES
  document,     \* scenarios.json, or NoFile
  temporary,    \* scenarios.json.tmp
  verification, \* scenario-verification.json
  imports,      \* import/<key>-realm.json by key
  connections,  \* scenarios/<slot>/connection.json: its realm key
  realms,       \* Keycloak's realms
  lock, pc, job,
  requests, faults, restarts

files    == <<document, temporary, verification, imports, connections>>
counters == <<requests, faults, restarts>>
vars     == <<files, realms, lock, pc, job, counters>>

Nothing == [slot \in Slots |-> NoKey]
Stable  == [slot |-> "stable", settings |-> Default]
Generated(slot, settings) == [slot |-> slot, settings |-> settings]

NoJob == [op |-> "none", settings |-> Default, slots |-> SCENARIO_SLOTS, at |-> 1,
          applied |-> Nothing, seen |-> Nothing, session |-> Stable]
Job == [op: AllOps \union {"none"}, settings: Settings, slots: Selections, at: 1..2,
        applied: Applied, seen: Applied, session: Content]

LockedLabels ==
  {"load", "write", "install", "clear", "generate", "deletePrevious", "deleteKey",
   "post", "settle", "unlink", "writeSlot", "installSlot", "lockedVerify",
   "lockedRecord", "succeeded"}
FreeLabels ==
  {"idle", "acquire", "loadUnlocked", "writeUnlocked", "installUnlocked",
   "clearUnlocked", "verify", "record", "lookup", "connect", "impersonate", "session"}

Goto(t, label) == pc' = [pc EXCEPT ![t] = label]
Slot(t) == job[t].slots[job[t].at]
Key(t)  == job[t].settings[Slot(t)]

Init ==
  /\ document = NoFile
  /\ temporary = NoFile
  /\ verification = NoFile
  /\ imports = [k \in Keys |-> IF k = StableKey THEN Stable ELSE NoFile]
  /\ connections = Nothing
  /\ realms = [k \in Keys |-> IF k = StableKey THEN Stable ELSE NoRealm]
  /\ lock = NoThread
  /\ pc = [t \in Handlers |-> "idle"]
  /\ job = [t \in Handlers |-> NoJob]
  /\ requests = 0 /\ faults = 0 /\ restarts = 0

(* load_scenario_document: without a file, the preset and nothing applied. *)
CurrentDocument ==
  IF document = NoFile THEN [settings |-> Default, applied |-> Nothing] ELSE document

-----------------------------------------------------------------------------
Begin(t) ==
  /\ pc[t] = "idle"
  /\ requests < MaxRequests
  /\ requests' = requests + 1
  /\ \E op \in Ops, slots \in Selections, settings \in Settings :
       /\ op \in {"reset", "bootstrap"} <=> Len(slots) = 1
       /\ op \in {"verify", "bootstrap"} => settings = Default
       /\ op \in {"save", "apply", "reset"} => \A s \in Slots : settings[s] \in Choices[s]
       /\ job' = [job EXCEPT ![t] = [NoJob EXCEPT !.op = op, !.settings = settings,
                                                  !.slots = slots]]
       /\ Goto(t, CASE op = "save"      -> "loadUnlocked"
                    [] op \in {"apply", "reset"} -> "acquire"
                    [] op = "verify"    -> "verify"
                    [] op = "bootstrap" -> "lookup")
  /\ UNCHANGED <<files, realms, lock, faults, restarts>>

Acquire(t) ==
  /\ pc[t] = "acquire"
  /\ lock = NoThread
  /\ lock' = t
  /\ Goto(t, "load")
  /\ UNCHANGED <<files, realms, job, counters>>

Leave(t) ==
  /\ lock' = IF lock = t THEN NoThread ELSE lock
  /\ Goto(t, "idle")
  /\ job' = [job EXCEPT ![t] = NoJob]

Fail(t) ==
  /\ faults < MaxFaults
  /\ faults' = faults + 1
  /\ Leave(t)

Load(t) ==
  /\ pc[t] \in {"load", "loadUnlocked"}
  /\ job' = [job EXCEPT ![t].applied = CurrentDocument.applied]
  /\ Goto(t, IF pc[t] = "load" THEN "write" ELSE "writeUnlocked")
  /\ UNCHANGED <<files, realms, lock, counters>>

(* write_scenario_document, as write_settings_document, shares one         *)
(* temporary name among all writers.                                       *)
WriteTemporary(t) ==
  /\ pc[t] \in {"write", "writeUnlocked", "writeSlot"}
  /\ temporary' = [settings |-> job[t].settings, applied |-> job[t].applied]
  /\ Goto(t, CASE pc[t] = "write"         -> "install"
               [] pc[t] = "writeUnlocked" -> "installUnlocked"
               [] pc[t] = "writeSlot"     -> "installSlot")
  /\ UNCHANGED <<document, verification, imports, connections, realms, lock, job, counters>>

(* After the last selected slot the verifier runs when both slots have     *)
(* been applied, by this operation or an earlier one.                      *)
NextSlot(t) ==
  IF job[t].at < Len(job[t].slots)
  THEN /\ job' = [job EXCEPT ![t].at = @ + 1]
       /\ Goto(t, "generate")
  ELSE /\ Goto(t, IF \A s \in Slots : job[t].applied[s] # NoKey
                  THEN "lockedVerify" ELSE "succeeded")
       /\ UNCHANGED job

Install(t) ==
  /\ pc[t] \in {"install", "installUnlocked", "installSlot"}
  /\ \/ /\ temporary # NoFile
        /\ document' = temporary
        /\ temporary' = NoFile
        /\ CASE pc[t] = "install"         -> Goto(t, "clear") /\ UNCHANGED job
             [] pc[t] = "installUnlocked" -> Goto(t, "clearUnlocked") /\ UNCHANGED job
             [] pc[t] = "installSlot"     -> NextSlot(t)
        /\ UNCHANGED lock
     \/ /\ temporary = NoFile
        /\ Leave(t)
        /\ UNCHANGED <<document, temporary>>
  /\ UNCHANGED <<verification, imports, connections, realms, counters>>

ClearVerification(t) ==
  /\ pc[t] \in {"clear", "clearUnlocked"}
  /\ verification' = NoFile
  /\ IF pc[t] = "clear" THEN Goto(t, "generate") /\ UNCHANGED <<lock, job>> ELSE Leave(t)
  /\ UNCHANGED <<document, temporary, imports, connections, realms, counters>>

-----------------------------------------------------------------------------
(* One slot of apply_scenarios: generate, replace_realm, wait_until_healthy*)
(* and the new document.                                                   *)

(* Mutant: the previous key is always looked up for the first slot.        *)
PreviousOfFirst(t) == job[t].applied["labA"]

Previous(t) == job[t].applied[Slot(t)]

ReplacesOther(t) == Previous(t) \notin {NoKey, Key(t)}

Generate(t) ==
  /\ pc[t] = "generate"
  /\ \/ /\ imports' = [imports EXCEPT ![Key(t)] = Generated(Slot(t), job[t].settings)]
        /\ connections' = [connections EXCEPT ![Slot(t)] = Key(t)]
        /\ Goto(t, IF ReplacesOther(t) THEN "deletePrevious" ELSE "deleteKey")
        /\ UNCHANGED <<lock, job, faults>>
     \/ Fail(t) /\ UNCHANGED <<imports, connections>>
  /\ UNCHANGED <<document, temporary, verification, realms, requests, restarts>>

DeleteRealm(t, key, next) ==
  /\ \/ /\ realms' = [realms EXCEPT ![key] = NoRealm]
        /\ Goto(t, next)
        /\ UNCHANGED <<lock, job, faults>>
     \/ Fail(t) /\ realms' \in {realms, [realms EXCEPT ![key] = NoRealm]}
  /\ UNCHANGED <<files, requests, restarts>>

DeletePrevious(t) == pc[t] = "deletePrevious" /\ DeleteRealm(t, Previous(t), "deleteKey")
DeleteKey(t)      == pc[t] = "deleteKey" /\ DeleteRealm(t, Key(t), "post")

(* Mutant: a POST that fails is taken for success.                         *)
PostIgnoresFailure(t) ==
  /\ pc[t] = "post"
  /\ realms' \in {realms, [realms EXCEPT ![Key(t)] = Generated(Slot(t), job[t].settings)]}
  /\ Goto(t, "settle")
  /\ UNCHANGED <<files, lock, job, counters>>

(* A restarted Keycloak may have imported the deleted realm again, and the *)
(* POST then answers 409.                                                  *)
PostRealm(t) ==
  /\ pc[t] = "post"
  /\ LET created == [realms EXCEPT ![Key(t)] = Generated(Slot(t), job[t].settings)]
     IN \/ /\ realms[Key(t)] = NoRealm
           /\ \/ /\ realms' = created
                 /\ Goto(t, "settle")
                 /\ UNCHANGED <<lock, job, faults>>
              \/ Fail(t) /\ realms' \in {realms, created}
        \/ /\ realms[Key(t)] # NoRealm
           /\ Leave(t)
           /\ UNCHANGED <<realms, faults>>
  /\ UNCHANGED <<files, requests, restarts>>

(* The Account Console scopes and the health check.                        *)
Settle(t) ==
  /\ pc[t] = "settle"
  /\ \/ Goto(t, "unlink") /\ UNCHANGED <<lock, job, faults>>
     \/ Fail(t)
  /\ UNCHANGED <<files, realms, requests, restarts>>

(* Mutant: the key of the slot overwrites the keys of both.                *)
UnlinkAndOverwrite(t) ==
  /\ pc[t] = "unlink"
  /\ imports' = IF ReplacesOther(t) THEN [imports EXCEPT ![Previous(t)] = NoFile] ELSE imports
  /\ job' = [job EXCEPT ![t].applied = Key(t)]
  /\ Goto(t, "writeSlot")
  /\ UNCHANGED <<document, temporary, verification, connections, realms, lock, counters>>

UnlinkPrevious(t) ==
  /\ pc[t] = "unlink"
  /\ imports' = IF ReplacesOther(t) THEN [imports EXCEPT ![Previous(t)] = NoFile] ELSE imports
  /\ job' = [job EXCEPT ![t].applied[Slot(t)] = Key(t)]
  /\ Goto(t, "writeSlot")
  /\ UNCHANGED <<document, temporary, verification, connections, realms, lock, counters>>

Succeed(t) ==
  /\ pc[t] = "succeeded"
  /\ Leave(t)
  /\ UNCHANGED <<files, realms, counters>>

-----------------------------------------------------------------------------
(* verify_scenarios raises while a connection file is missing.             *)
Verify(t) ==
  /\ pc[t] \in {"verify", "lockedVerify"}
  /\ IF \E s \in Slots : connections[s] = NoKey
     THEN Leave(t)
     ELSE /\ job' = [job EXCEPT ![t].seen = connections]
          /\ Goto(t, IF pc[t] = "verify" THEN "record" ELSE "lockedRecord")
          /\ UNCHANGED lock
  /\ UNCHANGED <<files, realms, counters>>

RecordVerification(t) ==
  /\ pc[t] \in {"record", "lockedRecord"}
  /\ LET served == \A s \in Slots : /\ realms[job[t].seen[s]] # NoRealm
                                    /\ realms[job[t].seen[s]].slot = s
     IN \E passed \in {FALSE, served} :
          verification' = [keys |-> job[t].seen, passed |-> passed]
  /\ IF pc[t] = "lockedRecord"
     THEN Goto(t, "succeeded") /\ UNCHANGED <<lock, job>> ELSE Leave(t)
  /\ UNCHANGED <<document, temporary, imports, connections, realms, counters>>

-----------------------------------------------------------------------------
(* bootstrap_browser_session reads the document, then the connection file, *)
(* compares them, and then asks Keycloak to impersonate the test user.     *)
LookupDocument(t) ==
  /\ pc[t] = "lookup"
  /\ job' = [job EXCEPT ![t].applied = CurrentDocument.applied]
  /\ Goto(t, "connect")
  /\ UNCHANGED <<files, realms, lock, counters>>

(* Mutant: every slot's session uses the connection of the first slot.     *)
LookupFirstConnection(t) ==
  /\ pc[t] = "connect"
  /\ IF connections["labA"] # NoKey /\ job[t].applied["labA"] = connections["labA"]
     THEN /\ job' = [job EXCEPT ![t].seen = [s \in Slots |-> connections["labA"]]]
          /\ Goto(t, "impersonate")
          /\ UNCHANGED lock
     ELSE Leave(t)
  /\ UNCHANGED <<files, realms, counters>>

LookupConnection(t) ==
  /\ pc[t] = "connect"
  /\ IF connections[Slot(t)] # NoKey /\ job[t].applied[Slot(t)] = connections[Slot(t)]
     THEN /\ job' = [job EXCEPT ![t].seen = connections]
          /\ Goto(t, "impersonate")
          /\ UNCHANGED lock
     ELSE Leave(t)
  /\ UNCHANGED <<files, realms, counters>>

Impersonate(t) ==
  /\ pc[t] = "impersonate"
  /\ LET key == job[t].seen[Slot(t)]
     IN \/ /\ realms[key] # NoRealm
           /\ job' = [job EXCEPT ![t].session = realms[key]]
           /\ Goto(t, "session")
           /\ UNCHANGED <<lock, faults>>
        \/ realms[key] = NoRealm /\ Leave(t) /\ UNCHANGED faults
        \/ Fail(t)
  /\ UNCHANGED <<files, realms, requests, restarts>>

Redirect(t) ==
  /\ pc[t] = "session"
  /\ Leave(t)
  /\ UNCHANGED <<files, realms, counters>>

-----------------------------------------------------------------------------
(* Restarts.                                                               *)

ThreadsRestarted ==
  /\ lock' = NoThread
  /\ pc' = [t \in Handlers |-> "idle"]
  /\ job' = [t \in Handlers |-> NoJob]

Imported(found) ==
  [k \in Keys |-> IF realms[k] = NoRealm /\ found[k] # NoFile THEN found[k] ELSE realms[k]]

Restarting ==
  /\ restarts < MaxRestarts
  /\ restarts' = restarts + 1
  /\ UNCHANGED <<document, temporary, verification, requests, faults>>

ServiceRestart ==
  /\ Restarting
  /\ ThreadsRestarted
  /\ UNCHANGED <<imports, connections, realms>>

KeycloakRestart ==
  /\ Restarting
  /\ realms' = Imported(imports)
  /\ UNCHANGED <<imports, connections, lock, pc, job>>

(* Mutant: main() removes the applied key's file without comparing keys.   *)
RegeneratedAlways(found, slot) ==
  [k \in Keys |->
     IF k = document.applied[slot] THEN NoFile
     ELSE IF k = document.settings[slot] THEN Generated(slot, document.settings)
     ELSE found[k]]

(* scenarios.py main(), one slot: generate its file, then remove the file  *)
(* of the key applied before.                                              *)
Regenerated(found, slot) ==
  [k \in Keys |->
     IF k = document.settings[slot] THEN Generated(slot, document.settings)
     ELSE IF k = document.applied[slot] THEN NoFile
     ELSE found[k]]

(* New-IdentityRealm runs main() when scenarios.json exists; it also       *)
(* regenerates the stable realm's file first.                              *)
StackRestart ==
  /\ Restarting
  /\ ThreadsRestarted
  /\ LET stable == [imports EXCEPT ![StableKey] = Stable]
     IN IF document = NoFile
        THEN imports' = stable /\ UNCHANGED connections
        ELSE /\ imports' = Regenerated(Regenerated(stable, "labA"), "labB")
             /\ connections' = document.settings
  /\ realms' = Imported(imports')

-----------------------------------------------------------------------------
Step(t) ==
  \/ Acquire(t) \/ Load(t) \/ WriteTemporary(t) \/ Install(t) \/ ClearVerification(t)
  \/ Generate(t) \/ DeletePrevious(t) \/ DeleteKey(t) \/ PostRealm(t) \/ Settle(t)
  \/ UnlinkPrevious(t) \/ Succeed(t) \/ Verify(t) \/ RecordVerification(t)
  \/ LookupDocument(t) \/ LookupConnection(t) \/ Impersonate(t) \/ Redirect(t)

Restart == ServiceRestart \/ KeycloakRestart \/ StackRestart

Next == (\E t \in Handlers : Begin(t) \/ Step(t)) \/ Restart

Spec == Init /\ [][Next]_vars

-----------------------------------------------------------------------------
TypeOK ==
  /\ document \in Document \union {NoFile}
  /\ temporary \in Document \union {NoFile}
  /\ verification \in Result \union {NoFile}
  /\ imports \in [Keys -> Content \union {NoFile}]
  /\ connections \in Applied
  /\ realms \in [Keys -> Content \union {NoRealm}]
  /\ lock \in Handlers \union {NoThread}
  /\ pc \in [Handlers -> LockedLabels \union FreeLabels]
  /\ job \in [Handlers -> Job]
  /\ requests \in 0..MaxRequests
  /\ faults \in 0..MaxFaults
  /\ restarts \in 0..MaxRestarts

(* server.py:1144, "Both lab realms applied": an apply that answers 200    *)
(* leaves Keycloak serving, under each selected key, the realm of that     *)
(* slot generated from the applied scenario.                               *)
AnswerIsServed ==
  \A t \in Handlers :
    pc[t] = "succeeded" =>
      \A i \in 1..Len(job[t].slots) :
        LET slot == job[t].slots[i]
        IN realms[job[t].settings[slot]] = Generated(slot, job[t].settings)

(* identity/README.md:288, "Reset realm replaces only the selected         *)
(* disposable realm": while it works on a slot the service deletes or      *)
(* creates no realm of the other slot, and not the stable realm.           *)
SelectedRealmOnly ==
  [][\A t \in Handlers :
       DeletePrevious(t) \/ DeleteKey(t) \/ PostRealm(t) =>
         \A k \in Keys : realms'[k] # realms[k] /\ realms[k] # NoRealm
                           => realms[k].slot = Slot(t)]_vars

(* A browser session bootstrapped for a slot (server.py:1047) is a session *)
(* in that slot's realm, although the document, the connection file and    *)
(* Keycloak are read one after the other without the lock.                 *)
SessionOfSlot ==
  \A t \in Handlers : pc[t] = "session" => job[t].session.slot = Slot(t)

(* scenarios.py:878, "Generated northlake-lab-a and northlake-lab-b        *)
(* scenario realms": after an ordinary start Keycloak holds a realm of     *)
(* each slot under the saved key.                                          *)
StartServesBothLabs ==
  [][StackRestart /\ document # NoFile =>
       \A s \in Slots : realms'[document.settings[s]] # NoRealm]_vars
=============================================================================
