------------------------- MODULE IdentityLabProofs -------------------------
(***************************************************************************)
(* Proofs about IdentityLab, for every manifest, form, document and bound. *)
(*                                                                         *)
(* The argument of the refinement: a request that has generated a realm    *)
(* holds the lock, so the directory is still the one it generated from     *)
(* when it publishes; the Saves that do not take the lock write no user    *)
(* and no group.                                                           *)
(*                                                                         *)
(* The argument of the verifiers: the inputs of the two files generate a   *)
(* realm, and the served one has no two clients of one id.  The realm and  *)
(* the connection profile of one input agree client by client and user by  *)
(* user; a client id therefore names one client and a username one user,   *)
(* every login a verifier looks for is exactly one, and each check of it   *)
(* comes down to a condition on the settings.                              *)
(***************************************************************************)
EXTENDS IdentityLab, FiniteSetTheorems, WellFoundedInduction, TLAPS

Places == {"idle", "document", "generate", "connection", "delete", "post", "answer"}
Staging == {"connection", "delete", "post", "answer"}
Answers == {"applied", "unavailable", "refused", "stopped", "restarted"}

\* the holder of the lock and what it has published
Holder ==
  /\ pc \in Places
  /\ pc = "idle" => status \in Answers
  /\ pc # "idle" => status = "working"
  /\ pc \in Staging => op.staged = {realmFile} /\ Directory(realmFile) = Directory(GeneratorInput)
  /\ pc = "post" => served = {}
  /\ pc = "answer" => served = op.staged

LEMMA HolderInit == Init => Holder
  BY DEF Init, Holder, Places, Staging, Answers

LEMMA HolderStep == Holder /\ [Next]_vars => Holder'
<1> SUFFICES ASSUME Holder, [Next]_vars PROVE Holder'
  OBVIOUS
<1> USE DEF Holder, Places, Staging, Answers
<1>1. ASSUME NEW candidate, NEW passwords, StoreUsers(candidate, passwords)
      PROVE  Holder'
  BY <1>1 DEF StoreUsers, Accepted, published
<1>2. ASSUME NEW candidate, StoreGroups(candidate)
      PROVE  Holder'
  BY <1>2 DEF StoreGroups, Accepted, published
<1>3. CASE CreateUser \/ UpdateUser \/ ResetPassword
  BY <1>1, <1>3 DEF CreateUser, UpdateUser, ResetPassword
<1>4. CASE CreateGroup \/ RenameGroup \/ DeleteGroup \/ SetMembers
  BY <1>2, <1>4 DEF CreateGroup, RenameGroup, DeleteGroup, SetMembers
<1>5. ASSUME NEW s, ApplyOidc(s) PROVE Holder'
  BY <1>5 DEF ApplyOidc, published
<1>6. ASSUME NEW s, SaveOidc(s) PROVE Holder'
  BY <1>6 DEF SaveOidc, published, request, Directory, GeneratorInput
<1>7. ASSUME NEW s, NEW upload, ApplySaml(s, upload) PROVE Holder'
  BY <1>7 DEF ApplySaml, published
<1>8. ASSUME NEW s, NEW upload, SaveSaml(s, upload) PROVE Holder'
  BY <1>8 DEF SaveSaml, published, request, Directory, GeneratorInput
<1>9. CASE WriteSaml
  BY <1>9 DEF WriteSaml, published
<1>10. CASE Generate
  BY <1>10 DEF Generate, files, Directory, GeneratorInput
<1>11. CASE GenerationFails
  <2>1. GenerationOutcome(GeneratorInput) \in Answers \ {"applied"}
    BY <1>11 DEF GenerationFails, GenerationOutcome
  <2> QED
    BY <1>11, <2>1 DEF GenerationFails, Ended
<1>12. CASE PublishConnection
  BY <1>12 DEF PublishConnection, files, Directory, GeneratorInput
<1>13. CASE DeleteRealm
  BY <1>13 DEF DeleteRealm, files, Directory, GeneratorInput
<1>14. CASE PostRealm
  BY <1>14 DEF PostRealm, files, Directory, GeneratorInput
<1>15. CASE PostRefused \/ ReplacementFails \/ Answer
  BY <1>15 DEF PostRefused, ReplacementFails, Answer, Ended
<1>16. CASE FinishSave
  BY <1>16 DEF FinishSave, published, request, Directory, GeneratorInput
<1>17. CASE Lapse
  BY <1>17 DEF Lapse, published, request, Directory, GeneratorInput
<1>18. CASE Restart
  <2>1. CASE pc = "idle"
    BY <1>18, <2>1 DEF Restart, request, published
  <2>2. CASE pc # "idle"
    BY <1>18, <2>2 DEF Restart, Ended
  <2> QED
    BY <2>1, <2>2
<1>19. CASE Drift
  BY <1>19 DEF Drift, files, request
<1>20. CASE UNCHANGED vars
  BY <1>20 DEF vars, files, published, request, Directory, GeneratorInput
<1> QED
  BY <1>3, <1>4, <1>5, <1>6, <1>7, <1>8, <1>9, <1>10, <1>11, <1>12, <1>13, <1>14,
     <1>15, <1>16, <1>17, <1>18, <1>19, <1>20 DEF Next

LEMMA HolderInvariant == Spec => []Holder
  BY HolderInit, HolderStep, PTL DEF Spec

-----------------------------------------------------------------------------
(* The refinement.                                                         *)

\* the abstract variables
Kept == [users |-> users, groups |-> groups]
Shown == {Directory(in) : in \in served}
Said == IF status \in {"working", "applied"} THEN status ELSE "failed"

LEMMA DirectoryInit == Init => Promised!Init
  BY DEF Init, Promised!Init, Directory, GeneratorInput

\* a request that takes the lock
LEMMA AcceptedAccepts ==
  ASSUME Holder, pc = "idle", status' = "working", UNCHANGED served
  PROVE  Promised!Accept
  BY DEF Holder, Answers, Promised!Accept

\* a step that the directory does not see
LEMMA StepStutters ==
  ASSUME UNCHANGED <<users, groups, served, status>>
  PROVE  UNCHANGED Promised!vars
  BY DEF Promised!vars

\* a request that ends without its promise
LEMMA EndedFails ==
  ASSUME status = "working", status' \in Answers \ {"applied"},
         UNCHANGED <<users, groups>>,
         Shown' \in {Shown, {}, {Kept}}
  PROVE  Promised!Fail
  BY DEF Answers, Promised!Fail, Kept, Shown

LEMMA StagedDirectory ==
  ASSUME Holder, pc \in Staging
  PROVE  {Directory(in) : in \in op.staged} = {Kept}
  BY DEF Holder, Kept, Directory, GeneratorInput

LEMMA DirectoryStep ==
  ASSUME Holder, [Next]_vars
  PROVE  [Promised!Next]_(Promised!vars)
<1>1. ASSUME pc = "idle", status' = "working", UNCHANGED served
      PROVE  Promised!Next
  BY <1>1, AcceptedAccepts DEF Promised!Next
<1>2. ASSUME NEW candidate, NEW passwords, StoreUsers(candidate, passwords)
      PROVE  Promised!Next
  BY <1>1, <1>2 DEF StoreUsers, Accepted, published
<1>3. ASSUME NEW candidate, StoreGroups(candidate)
      PROVE  Promised!Next
  BY <1>1, <1>3 DEF StoreGroups, Accepted, published
<1>4. CASE CreateUser \/ UpdateUser \/ ResetPassword
  BY <1>2, <1>4 DEF CreateUser, UpdateUser, ResetPassword
<1>5. CASE CreateGroup \/ RenameGroup \/ DeleteGroup \/ SetMembers
  BY <1>3, <1>5 DEF CreateGroup, RenameGroup, DeleteGroup, SetMembers
<1>6. CASE \/ \E s \in OidcDocuments : ApplyOidc(s)
           \/ \E s \in SamlDocuments, upload \in {"none", "current", "lapsed"} :
                ApplySaml(s, upload)
  BY <1>1, <1>6 DEF ApplyOidc, ApplySaml, published
<1>7. CASE \/ WriteSaml \/ Generate \/ PublishConnection \/ FinishSave \/ Lapse \/ Drift
           \/ \E s \in OidcDocuments : SaveOidc(s)
           \/ \E s \in SamlDocuments, upload \in {"none", "current", "lapsed"} :
                SaveSaml(s, upload)
           \/ UNCHANGED vars
  <2>1. UNCHANGED <<users, groups, served, status>>
    BY <1>7 DEF WriteSaml, Generate, PublishConnection, FinishSave, Lapse, Drift,
                SaveOidc, SaveSaml, vars, files, published, request
  <2> QED
    BY <2>1, StepStutters
<1>8. CASE GenerationFails
  <2>1. GenerationOutcome(GeneratorInput) \in {"refused", "stopped"}
    BY <1>8 DEF GenerationFails, GenerationOutcome
  <2>2. status = "working"
    BY <1>8 DEF GenerationFails, Holder
  <2> QED
    BY <1>8, <2>1, <2>2, EndedFails
       DEF GenerationFails, Ended, Answers, published, files, Shown, Promised!Next
<1>9. CASE DeleteRealm
  BY <1>9 DEF DeleteRealm, Holder, files, Promised!Withdraw, Promised!Next
<1>10. CASE PostRealm
  <2>1. Shown' = {Kept}
    BY <1>10, StagedDirectory DEF PostRealm, Staging, Shown
  <2> QED
    BY <1>10, <2>1 DEF PostRealm, Holder, files, Shown, Kept,
                       Promised!Publish, Promised!Next
<1>11. CASE Answer
  <2>1. Shown = {Kept}
    BY <1>11, StagedDirectory DEF Answer, Holder, Staging, Shown
  <2> QED
    BY <1>11, <2>1 DEF Answer, Ended, Holder, files, published, Shown, Kept,
                       Promised!Confirm, Promised!Next
<1>12. CASE ReplacementFails
  <2>1. served' \in {served, {}, op.staged} /\ pc \in Staging
    BY <1>12 DEF ReplacementFails, Staging
  <2>2. Shown' \in {Shown, {}, {Kept}}
    BY <2>1, StagedDirectory DEF Shown
  <2> QED
    BY <1>12, <2>1, <2>2, EndedFails
       DEF ReplacementFails, Ended, Holder, Staging, Answers, files, Promised!Next
<1>13. CASE Restart
  <2>1. CASE pc = "idle"
    BY <1>13, <2>1, StepStutters DEF Restart, request, files, published
  <2>2. CASE pc # "idle"
    BY <1>13, <2>2, EndedFails
       DEF Restart, Ended, Holder, Answers, files, published, Shown, Promised!Next
  <2> QED
    BY <2>1, <2>2
<1>14. CASE PostRefused
  BY <1>14, EndedFails
     DEF PostRefused, Ended, Holder, Answers, files, published, Shown, Promised!Next
<1> QED
  BY <1>4, <1>5, <1>6, <1>7, <1>8, <1>9, <1>10, <1>11, <1>12, <1>13, <1>14 DEF Next

(* The identity half of the service implements PublishedDirectory: what an *)
(* edit stored is what it publishes, and "applied" (server.py:1583-1611)   *)
(* is answered of nothing else, whichever call fails and whenever the      *)
(* service restarts.                                                       *)
THEOREM LabImplementsDirectory == Spec => ImplementsDirectory
<1>1. Init => Promised!Init
  BY DirectoryInit
<1>2. Holder /\ [Next]_vars => [Promised!Next]_(Promised!vars)
  BY DirectoryStep
<1> QED
  BY <1>1, <1>2, HolderInvariant, PTL DEF Spec, ImplementsDirectory, Promised!Spec

-----------------------------------------------------------------------------
(* The overlays.                                                           *)

LEMMA GroupsMergeGrows ==
  ASSUME NEW g, NEW known, NEW more, known \subseteq more, GroupsMerge(g, known)
  PROVE  GroupsMerge(g, more)
  BY DEF GroupsMerge

\* a user edit changes one record, and the password of one user at most
UserEdit(u, password) ==
  /\ u \in UserIds
  /\ DOMAIN users' = DOMAIN users \cup {u}
  /\ users'[u].password = password
  /\ \A v \in DOMAIN users \ {u} : users'[v] = users[v]

LEMMA UserEditOf ==
  ASSUME CreateUser \/ UpdateUser \/ ResetPassword, DOMAIN users \subseteq UserIds
  PROVE  /\ UsersMerge(users') /\ groups' = groups /\ realmFile' = realmFile /\ env' = env
         /\ \E u, password :
              /\ UserEdit(u, password)
              /\ \/ password = minted + 1 /\ minted' = minted + 1
                 \/ /\ password = (IF u \in DOMAIN users THEN users[u].password
                                   ELSE SharedPassword)
                    /\ minted' = minted
<1>1. ASSUME NEW u \in UserIds, NEW record, NEW passwords,
             StoreUsers(Put(users, u, record), passwords)
      PROVE  /\ UsersMerge(users') /\ groups' = groups /\ realmFile' = realmFile /\ env' = env
             /\ minted' = passwords
             /\ UserEdit(u, record.password)
  <2>1. users' = Put(users, u, record) /\ UsersMerge(Put(users, u, record))
    BY <1>1 DEF StoreUsers
  <2>2. UNCHANGED <<groups, realmFile, env>> /\ minted' = passwords
    BY <1>1 DEF StoreUsers, published
  <2>3. /\ DOMAIN users' = DOMAIN users \cup {u}
        /\ users'[u] = record
        /\ \A v \in DOMAIN users \ {u} : users'[v] = users[v]
    BY <2>1 DEF Put
  <2> QED
    BY <2>1, <2>2, <2>3 DEF UserEdit
<1>2. LocalUsers \subseteq UserIds /\ KnownUsers(users) \subseteq UserIds
  BY DEF UserIds, KnownUsers
<1>3. CASE CreateUser
  <2>1. PICK u \in LocalUsers \ DOMAIN users, form \in UserForms :
          StoreUsers(Put(users, u, Record(form, "local", minted + 1)), minted + 1)
    BY <1>3 DEF CreateUser, CreatedUser
  <2>2. Record(form, "local", minted + 1).password = minted + 1
    BY DEF Record
  <2> QED
    BY <1>1, <1>2, <2>1, <2>2
<1>4. CASE ResetPassword
  <2>1. PICK u \in KnownUsers(users) :
          StoreUsers(Put(users, u, Record(FormOf(EffectiveUser(users, u)),
                                          IF u \in Base THEN "base" ELSE "local",
                                          minted + 1)), minted + 1)
    BY <1>4 DEF ResetPassword, PasswordReset
  <2>2. Record(FormOf(EffectiveUser(users, u)), IF u \in Base THEN "base" ELSE "local",
               minted + 1).password = minted + 1
    BY DEF Record
  <2> QED
    BY <1>1, <1>2, <2>1, <2>2
<1>5. CASE UpdateUser
  <2>1. PICK u \in KnownUsers(users), form \in UserForms :
          StoreUsers(Put(users, u,
                         Record(form, IF u \in Base THEN "base" ELSE "local",
                                IF u \in DOMAIN users THEN users[u].password
                                ELSE SharedPassword)), minted)
    BY <1>5 DEF UpdateUser, UpdatedUser
  <2> DEFINE kept == IF u \in DOMAIN users THEN users[u].password ELSE SharedPassword
  <2>2. Record(form, IF u \in Base THEN "base" ELSE "local", kept).password = kept
    BY DEF Record
  <2>3. UserEdit(u, kept) /\ minted' = minted /\ u \in UserIds
    BY <1>1, <1>2, <2>1, <2>2
  <2>4. UsersMerge(users') /\ groups' = groups /\ realmFile' = realmFile /\ env' = env
    BY <1>1, <1>2, <2>1
  <2> QED
    BY <2>3, <2>4
<1> QED
  BY <1>3, <1>4, <1>5

\* what a step may do to users, groups and the generated realm
LEMMA DirectoryChanges ==
  ASSUME [Next]_vars, DOMAIN users \subseteq UserIds
  PROVE  /\ env' = env
         /\ \/ CreateUser \/ UpdateUser \/ ResetPassword
            \/ /\ UNCHANGED <<users, minted, realmFile>>
               /\ GroupsMerge(groups', KnownUsers(users))
            \/ UNCHANGED <<users, groups, minted, realmFile>>
            \/ /\ UNCHANGED <<users, groups, minted>>
               /\ realmFile' = GeneratorInput
               /\ GenerationOutcome(GeneratorInput) = "generated"
<1>1. ASSUME NEW candidate, StoreGroups(candidate)
      PROVE  /\ UNCHANGED <<users, minted, realmFile>> /\ env' = env
             /\ GroupsMerge(groups', KnownUsers(users))
  BY <1>1 DEF StoreGroups, published
<1>2. CASE CreateGroup \/ RenameGroup \/ DeleteGroup \/ SetMembers
  BY <1>1, <1>2 DEF CreateGroup, RenameGroup, DeleteGroup, SetMembers
<1>3. CASE CreateUser \/ UpdateUser \/ ResetPassword
  BY <1>3, UserEditOf
<1>4. CASE Generate
  BY <1>4 DEF Generate, files
<1>5. CASE \/ \E s \in OidcDocuments : ApplyOidc(s) \/ SaveOidc(s)
           \/ \E s \in SamlDocuments, upload \in {"none", "current", "lapsed"} :
                ApplySaml(s, upload) \/ SaveSaml(s, upload)
           \/ WriteSaml \/ GenerationFails \/ PublishConnection \/ DeleteRealm
           \/ PostRealm \/ PostRefused \/ ReplacementFails \/ Answer
           \/ FinishSave \/ Lapse \/ Restart \/ Drift \/ UNCHANGED vars
  BY <1>5 DEF ApplyOidc, SaveOidc, ApplySaml, SaveSaml, WriteSaml, GenerationFails,
              PublishConnection, DeleteRealm, PostRealm, PostRefused,
              ReplacementFails, Answer, FinishSave, Lapse, Restart, Drift, vars, files, published
<1> QED
  BY <1>2, <1>3, <1>4, <1>5 DEF Next

Overlays == DOMAIN users \subseteq UserIds /\ OverlaysMerge

LEMMA OverlaysInvariant == Spec => []Overlays
<1>1. Init => Overlays
  <2> SUFFICES ASSUME Init PROVE Overlays
    OBVIOUS
  <2>1. Generatable(GeneratorInput)
    BY DEF Init, GenerationOutcome
  <2> QED
    BY <2>1 DEF Init, Overlays, OverlaysMerge, Generatable, GeneratorInput
<1>2. Overlays /\ [Next]_vars => Overlays'
  <2> SUFFICES ASSUME Overlays, [Next]_vars PROVE Overlays'
    OBVIOUS
  <2>1. CASE CreateUser \/ UpdateUser \/ ResetPassword
    <3>1. PICK u \in UserIds : DOMAIN users' = DOMAIN users \cup {u}
      BY <2>1, UserEditOf DEF Overlays, UserEdit
    <3>2. KnownUsers(users) \subseteq KnownUsers(users')
      BY <3>1 DEF KnownUsers
    <3>3. GroupsMerge(groups, KnownUsers(users'))
      BY <3>2, GroupsMergeGrows DEF Overlays, OverlaysMerge
    <3> QED
      BY <2>1, <3>1, <3>3, UserEditOf DEF Overlays, OverlaysMerge
  <2>2. CASE users' = users /\ GroupsMerge(groups', KnownUsers(users))
    BY <2>2 DEF Overlays, OverlaysMerge
  <2>3. CASE UNCHANGED <<users, groups>>
    BY <2>3 DEF Overlays, OverlaysMerge
  <2> QED
    BY <2>1, <2>2, <2>3, DirectoryChanges DEF Overlays
<1> QED
  BY <1>1, <1>2, PTL DEF Spec

(* Whatever is edited in whatever order, the two overlays merge with the   *)
(* manifest and with each other (users.py:240-335, groups.py:170-213).     *)
THEOREM OverlaysAlwaysMerge == Spec => []OverlaysMerge
<1>1. Overlays => OverlaysMerge
  BY DEF Overlays
<1> QED
  BY <1>1, OverlaysInvariant, PTL

-----------------------------------------------------------------------------
(* Passwords.                                                              *)

LEMMA PasswordOf ==
  ASSUME NEW us, NEW u
  PROVE  EffectiveUser(us, u).password =
           IF u \in DOMAIN us THEN us[u].password ELSE SharedPassword
  BY DEF EffectiveUser

Passwords ==
  /\ DOMAIN users \subseteq UserIds
  /\ minted \in Nat
  /\ \A u \in DOMAIN users : users[u].password \in 0 .. minted
  /\ \A u \in KnownUsers(realmFile.users) :
       /\ u \in KnownUsers(users)
       /\ EffectiveUser(realmFile.users, u).password \in Nat
       /\ EffectiveUser(realmFile.users, u).password <= EffectiveUser(users, u).password

LEMMA PasswordsInit == Init => Passwords
<1> SUFFICES ASSUME Init PROVE Passwords
  OBVIOUS
<1>1. users = << >> /\ realmFile.users = users /\ minted = 0
  BY DEF Init, GeneratorInput
<1>2. \A u : EffectiveUser(users, u).password = 0
  BY <1>1, PasswordOf DEF SharedPassword
<1> QED
  BY <1>1, <1>2 DEF Passwords

LEMMA PasswordsStep ==
  ASSUME Passwords, [Next]_vars
  PROVE  /\ Passwords'
         /\ \A u \in KnownUsers(realmFile.users) :
              /\ u \in KnownUsers(realmFile'.users)
              /\ EffectiveUser(realmFile.users, u).password
                   <= EffectiveUser(realmFile'.users, u).password
<1>1. CASE CreateUser \/ UpdateUser \/ ResetPassword
  <2>1. PICK u, password :
          /\ UserEdit(u, password)
          /\ \/ password = minted + 1 /\ minted' = minted + 1
             \/ /\ password = (IF u \in DOMAIN users THEN users[u].password
                               ELSE SharedPassword)
                /\ minted' = minted
    BY <1>1, UserEditOf DEF Passwords
  <2>2. realmFile' = realmFile
    BY <1>1, UserEditOf DEF Passwords
  <2>3. minted \in Nat /\ password \in 0 .. minted' /\ minted' \in Nat /\ minted <= minted'
    BY <2>1 DEF Passwords, SharedPassword
  <2>4. \A v \in DOMAIN users' : users'[v].password \in 0 .. minted'
    BY <2>1, <2>3 DEF Passwords, UserEdit
  <2>5. \A v \in KnownUsers(users) :
          /\ v \in KnownUsers(users')
          /\ EffectiveUser(users, v).password \in Nat
          /\ EffectiveUser(users', v).password \in Nat
          /\ EffectiveUser(users, v).password <= EffectiveUser(users', v).password
    <3> SUFFICES ASSUME NEW v \in KnownUsers(users)
                 PROVE  /\ v \in KnownUsers(users')
                        /\ EffectiveUser(users, v).password \in Nat
                        /\ EffectiveUser(users', v).password \in Nat
                        /\ EffectiveUser(users, v).password <= EffectiveUser(users', v).password
      OBVIOUS
    <3>1. v \in KnownUsers(users')
      BY <2>1 DEF KnownUsers, UserEdit
    <3>2. EffectiveUser(users, v).password
            = IF v \in DOMAIN users THEN users[v].password ELSE 0
      BY PasswordOf DEF SharedPassword
    <3>3. EffectiveUser(users', v).password
            = IF v \in DOMAIN users' THEN users'[v].password ELSE 0
      BY PasswordOf DEF SharedPassword
    <3>4. CASE v = u
      BY <2>1, <2>3, <3>1, <3>2, <3>3, <3>4 DEF Passwords, UserEdit, SharedPassword
    <3>5. CASE v # u
      BY <2>1, <3>1, <3>2, <3>3, <3>5 DEF Passwords, UserEdit
    <3> QED
      BY <3>4, <3>5
  <2>6. Passwords'
    BY <2>1, <2>2, <2>3, <2>4, <2>5 DEF Passwords, UserEdit
  <2> QED
    BY <2>2, <2>6 DEF Passwords
<1>2. CASE UNCHANGED <<users, minted, realmFile>>
  BY <1>2 DEF Passwords
<1>3. CASE UNCHANGED <<users, minted>> /\ realmFile' = GeneratorInput
  <2>1. realmFile'.users = users
    BY <1>3 DEF GeneratorInput
  <2>2. \A u \in KnownUsers(users) : EffectiveUser(users, u).password \in Nat
    <3> SUFFICES ASSUME NEW u \in KnownUsers(users)
                 PROVE  EffectiveUser(users, u).password \in Nat
      OBVIOUS
    <3>1. EffectiveUser(users, u).password
            = IF u \in DOMAIN users THEN users[u].password ELSE 0
      BY PasswordOf DEF SharedPassword
    <3> QED
      BY <3>1 DEF Passwords
  <2> QED
    BY <1>3, <2>1, <2>2 DEF Passwords
<1> QED
  BY <1>1, <1>2, <1>3, DirectoryChanges DEF Passwords

(* No regeneration drops a user or brings an earlier password back, in any *)
(* order of edits, failures and restarts (users.py:380-416).               *)
THEOREM PasswordsOnlyAdvance == Spec => PasswordsAdvance
<1>1. Passwords /\ [Next]_vars => Passwords'
  BY PasswordsStep
<1>2. Passwords /\ [Next]_vars =>
        [\A u \in KnownUsers(realmFile.users) :
           /\ u \in KnownUsers(realmFile'.users)
           /\ EffectiveUser(realmFile.users, u).password
                <= EffectiveUser(realmFile'.users, u).password]_realmFile
  BY PasswordsStep
<1> QED
  BY <1>1, <1>2, PasswordsInit, PTL DEF Spec, PasswordsAdvance

-----------------------------------------------------------------------------
(* The identifiers of users.                                               *)

LEMMA StableIdInjective ==
  ASSUME NEW space, NEW other, NEW kind, NEW u, NEW v,
         StableId(space, kind, u) = StableId(other, kind, v)
  PROVE  u = v
  BY DEF StableId

\* what a relying party recognises depends on the id of the user and on the
\* provider settings only
LEMMA IdentifiersOf ==
  ASSUME NEW in, NEW u, Generatable(in)
  PROVE  Identifiers(in, u) =
           [subject |-> StableId(in.env.namespace, "user", u),
            id |-> StableId(in.env.key, "user", u),
            nameIds |-> IF in.env.saml
                        THEN {StableId(in.env.namespace, "saml-nameid", u)}
                        ELSE {}]
<1> DEFINE entities == {SamlProfilesOf(in)[p].entity : p \in DOMAIN SamlProfilesOf(in)}
           name == StableId(in.env.namespace, "saml-nameid", u)
<1>1. DOMAIN SamlProfilesOf(in) =
        {q \in Profiles : in.env.saml /\ SamlFromEnvironment(in.saml)[q].enabled}
  BY DEF SamlProfilesOf
<1>2. in.env.saml => \E q \in Profiles : SamlFromEnvironment(in.saml)[q].enabled
  BY DEF Generatable, SamlAccepted
<1>3. (entities # {}) = in.env.saml \/ (entities = {} /\ ~in.env.saml)
  BY <1>1, <1>2
<1>4. RealmUser(in, u).nameId = [e \in entities |-> name]
  BY DEF RealmUser
<1> HIDE DEF entities, name
<1>5. {RealmUser(in, u).nameId[e] : e \in DOMAIN RealmUser(in, u).nameId}
        = IF in.env.saml THEN {name} ELSE {}
  BY <1>3, <1>4
<1>6. /\ RealmUser(in, u).attributes.northlake_oidc_subject
           = StableId(in.env.namespace, "user", u)
      /\ RealmUser(in, u).id = StableId(in.env.key, "user", u)
  BY DEF RealmUser, Subject
<1> QED
  BY <1>5, <1>6 DEF Identifiers, name

Generated == realmFile.env = env /\ Generatable(realmFile)

LEMMA GeneratedInvariant == Spec => []Generated
<1>1. Init => Generated
  <2> SUFFICES ASSUME Init PROVE Generated
    OBVIOUS
  <2>1. realmFile = GeneratorInput /\ Generatable(GeneratorInput)
    BY DEF Init, GenerationOutcome
  <2>2. GeneratorInput.env = env
    BY DEF GeneratorInput
  <2> QED
    BY <2>1, <2>2 DEF Generated
<1>2. Overlays /\ Generated /\ [Next]_vars => Generated'
  <2> SUFFICES ASSUME Overlays, Generated, [Next]_vars PROVE Generated'
    OBVIOUS
  <2>1. env' = env /\ (realmFile' = realmFile \/ /\ realmFile' = GeneratorInput
                                                 /\ GenerationOutcome(GeneratorInput) = "generated")
    BY DirectoryChanges, UserEditOf DEF Overlays
  <2>2. GenerationOutcome(GeneratorInput) = "generated" => Generatable(GeneratorInput)
    BY DEF GenerationOutcome
  <2> QED
    BY <2>1, <2>2 DEF Generated, GeneratorInput
<1> QED
  BY <1>1, <1>2, OverlaysInvariant, PTL DEF Spec

(* A relying party recognises every user across every regeneration: no     *)
(* rename, group edit, settings change or failure changes the OIDC subject *)
(* or the SAML NameID of a user, or gives it to another one                *)
(* (generate_realm.py:1055-1100).                                          *)
THEOREM SubjectsAlwaysSurvive == Spec => SubjectsSurvive
<1>1. ASSUME Generated, Generated', env' = env
      PROVE  \A u \in KnownUsers(realmFile.users), v \in KnownUsers(realmFile'.users) :
               \/ u # v /\ Identifiers(realmFile, u).subject
                             # Identifiers(realmFile', v).subject
               \/ u = v /\ Identifiers(realmFile, u) = Identifiers(realmFile', v)
  <2> SUFFICES ASSUME NEW u \in KnownUsers(realmFile.users),
                      NEW v \in KnownUsers(realmFile'.users)
               PROVE  \/ u # v /\ Identifiers(realmFile, u).subject
                                    # Identifiers(realmFile', v).subject
                      \/ u = v /\ Identifiers(realmFile, u) = Identifiers(realmFile', v)
    OBVIOUS
  <2>1. Identifiers(realmFile, u) =
          [subject |-> StableId(env.namespace, "user", u),
           id |-> StableId(env.key, "user", u),
           nameIds |-> IF env.saml THEN {StableId(env.namespace, "saml-nameid", u)}
                       ELSE {}]
    BY <1>1, IdentifiersOf DEF Generated
  <2>2. Identifiers(realmFile', v) =
          [subject |-> StableId(env.namespace, "user", v),
           id |-> StableId(env.key, "user", v),
           nameIds |-> IF env.saml THEN {StableId(env.namespace, "saml-nameid", v)}
                       ELSE {}]
    BY <1>1, IdentifiersOf DEF Generated
  <2>3. CASE u = v
    BY <2>1, <2>2, <2>3
  <2>4. CASE u # v
    <3>1. StableId(env.namespace, "user", u) # StableId(env.namespace, "user", v)
      BY <2>4, StableIdInjective
    <3> QED
      BY <2>1, <2>2, <2>4, <3>1
  <2> QED
    BY <2>3, <2>4
<1>2. Overlays /\ [Next]_vars => env' = env
  BY DirectoryChanges DEF Overlays
<1>3. Overlays /\ Generated /\ Generated' /\ [Next]_vars =>
        [\A u \in KnownUsers(realmFile.users), v \in KnownUsers(realmFile'.users) :
           \/ u # v /\ Identifiers(realmFile, u).subject
                         # Identifiers(realmFile', v).subject
           \/ u = v /\ Identifiers(realmFile, u) = Identifiers(realmFile', v)]_realmFile
  BY <1>1, <1>2
<1> QED
  BY <1>3, OverlaysInvariant, GeneratedInvariant, PTL DEF Spec, SubjectsSurvive

-----------------------------------------------------------------------------
(* Types.                                                                  *)

\* what TypeOK needs: the settings a request carries
Carried ==
  /\ op.saml \subseteq SamlDocuments
  /\ pc = "idle" => op = NoRequest
  /\ pc # "idle" => op.kind # "none"
  /\ pc \notin Staging => op.staged = {}

Typed == TypeOK /\ Carried

LEMMA SingletonCardinality ==
  /\ Cardinality({}) <= 1
  /\ \A x : Cardinality({x}) <= 1
  BY FS_EmptySet, FS_Singleton

LEMMA TypedInit == Init => Typed
<1> SUFFICES ASSUME Init PROVE Typed
  OBVIOUS
<1>1. \E stack \in Stacks : env = stack.env
  BY DEF Init
<1>2. /\ oidc \in OidcDocuments /\ saml \in SamlDocuments
      /\ certificate \in {"none", "current", "lapsed"}
  BY LabAssumption DEF Init
<1>3. DOMAIN users \subseteq UserIds
  BY DEF Init
<1>4. Cardinality(served) <= 1 /\ Cardinality(saving) <= 1
  BY SingletonCardinality DEF Init
<1> QED
  BY <1>1, <1>2, <1>3, <1>4 DEF Init, Typed, TypeOK, Carried, NoRequest, Staging

LEMMA TypedStep == Holder /\ Typed /\ [Next]_vars => Typed'
<1> SUFFICES ASSUME Holder, Typed, [Next]_vars PROVE Typed'
  OBVIOUS
<1> USE DEF Typed, TypeOK, Carried, Staging
<1>1. CASE CreateUser \/ UpdateUser \/ ResetPassword
  <2>1. DOMAIN users' \subseteq UserIds
    BY <1>1, UserEditOf DEF UserEdit
  <2>2. PICK candidate, passwords : StoreUsers(candidate, passwords)
    BY <1>1 DEF CreateUser, UpdateUser, ResetPassword
  <2> QED
    BY <2>1, <2>2 DEF StoreUsers, Accepted, published, NoRequest
<1>2. CASE CreateGroup \/ RenameGroup \/ DeleteGroup \/ SetMembers
  <2>1. PICK candidate : StoreGroups(candidate)
    BY <1>2 DEF CreateGroup, RenameGroup, DeleteGroup, SetMembers
  <2> QED
    BY <2>1 DEF StoreGroups, Accepted, published, NoRequest
<1>3. ASSUME NEW s \in OidcDocuments, ApplyOidc(s) \/ SaveOidc(s) PROVE Typed'
  <2>1. CASE ApplyOidc(s)
    <3>1. op' = [NoRequest EXCEPT !.kind = "oidc", !.oidc = {s}]
      BY <2>1 DEF ApplyOidc
    <3>2. op'.kind = "oidc" /\ op'.saml = {} /\ op'.staged = {}
      BY <3>1 DEF NoRequest
    <3> QED
      BY <2>1, <3>2 DEF ApplyOidc, published
  <2>2. CASE SaveOidc(s)
    BY <2>2 DEF SaveOidc, published, request
  <2> QED
    BY <1>3, <2>1, <2>2
<1>4. ASSUME NEW s \in SamlDocuments, NEW upload \in {"none", "current", "lapsed"},
             ApplySaml(s, upload)
      PROVE  Typed'
  BY <1>4 DEF ApplySaml, CertificateAfter, published, NoRequest
<1>5. ASSUME NEW s \in SamlDocuments, NEW upload \in {"none", "current", "lapsed"},
             SaveSaml(s, upload)
      PROVE  Typed'
  <2>1. Cardinality(saving') <= 1 /\ saving' \subseteq SamlDocuments
    BY <1>5, SingletonCardinality DEF SaveSaml
  <2> QED
    BY <1>5, <2>1 DEF SaveSaml, CertificateAfter, published, request
<1>6. CASE WriteSaml
  BY <1>6 DEF WriteSaml, published
<1>7. CASE Generate
  BY <1>7 DEF Generate, files
<1>8. CASE GenerationFails
  <2>1. GenerationOutcome(GeneratorInput) # "working"
    BY DEF GenerationOutcome
  <2> QED
    BY <1>8, <2>1 DEF GenerationFails, Ended, files, published, NoRequest
<1>9. CASE PublishConnection
  BY <1>9 DEF PublishConnection, files
<1>10. CASE DeleteRealm
  BY <1>10, SingletonCardinality DEF DeleteRealm, files
<1>11. CASE PostRealm
  <2>1. Cardinality(served') <= 1
    BY <1>11, SingletonCardinality DEF PostRealm, Holder
  <2> QED
    BY <1>11, <2>1 DEF PostRealm, Holder, files
<1>12. CASE ReplacementFails
  <2>1. Cardinality(served') <= 1 /\ drift' \subseteq DriftKinds /\ (served' = {} => drift' = {})
    BY <1>12, SingletonCardinality DEF ReplacementFails, Holder
  <2> QED
    BY <1>12, <2>1 DEF ReplacementFails, Ended, files, NoRequest
<1>13. CASE PostRefused \/ Answer
  BY <1>13 DEF PostRefused, Answer, Ended, files, published, NoRequest
<1>14. CASE FinishSave
  BY <1>14, SingletonCardinality DEF FinishSave, published, request
<1>15. CASE Lapse
  BY <1>15 DEF Lapse, published, request
<1>16. CASE Restart
  <2>1. CASE pc = "idle"
    BY <1>16, <2>1, SingletonCardinality DEF Restart, request, files, published
  <2>2. CASE pc # "idle"
    BY <1>16, <2>2, SingletonCardinality DEF Restart, Ended, files, published, NoRequest
  <2> QED
    BY <2>1, <2>2
<1>17. CASE Drift
  BY <1>17 DEF Drift, files, request
<1>18. CASE UNCHANGED vars
  BY <1>18 DEF vars, files, published, request
<1> QED
  BY <1>1, <1>2, <1>3, <1>4, <1>5, <1>6, <1>7, <1>8, <1>9, <1>10, <1>11, <1>12, <1>13,
     <1>14, <1>15, <1>16, <1>17, <1>18 DEF Next

(* The variables keep their shape: the working request alone has a place,  *)
(* and a document is staged exactly while it is being published.           *)
THEOREM LabTypeOK == Spec => []TypeOK
<1>1. Typed => TypeOK
  BY DEF Typed
<1> QED
  BY <1>1, TypedInit, TypedStep, HolderInvariant, PTL DEF Spec

-----------------------------------------------------------------------------
(* The pages.                                                              *)

\* after an answer "applied", and until the next request, Keycloak serves
\* the realm of the stored directory
Answered == status = "applied" => served = {realmFile} /\ Directory(realmFile) = Kept

LEMMA AnsweredInit == Init => Answered
BY DEF Init, Answered, Directory, GeneratorInput, Kept

LEMMA AnsweredStep == Holder /\ Answered /\ [Next]_vars => Answered'
<1> SUFFICES ASSUME Holder, Answered, [Next]_vars PROVE Answered'
  OBVIOUS
<1>1. CASE UNCHANGED <<status, served, realmFile, users, groups>>
  BY <1>1 DEF Answered, Directory, Kept
<1>2. CASE status' # "applied"
  BY <1>2 DEF Answered
<1>3. ASSUME NEW candidate, NEW passwords, StoreUsers(candidate, passwords)
      PROVE  Answered'
  BY <1>2, <1>3 DEF StoreUsers, Accepted
<1>4. ASSUME NEW candidate, StoreGroups(candidate)
      PROVE  Answered'
  BY <1>2, <1>4 DEF StoreGroups, Accepted
<1>5. CASE CreateUser \/ UpdateUser \/ ResetPassword
  BY <1>3, <1>5 DEF CreateUser, UpdateUser, ResetPassword
<1>6. CASE CreateGroup \/ RenameGroup \/ DeleteGroup \/ SetMembers
  BY <1>4, <1>6 DEF CreateGroup, RenameGroup, DeleteGroup, SetMembers
<1>7. CASE \/ \E s \in OidcDocuments : ApplyOidc(s)
           \/ \E s \in SamlDocuments, upload \in {"none", "current", "lapsed"} :
                ApplySaml(s, upload)
  BY <1>2, <1>7 DEF ApplyOidc, ApplySaml
<1>8. CASE \/ FinishSave \/ Lapse \/ Drift \/ UNCHANGED vars
           \/ \E s \in OidcDocuments : SaveOidc(s)
           \/ \E s \in SamlDocuments, upload \in {"none", "current", "lapsed"} :
                SaveSaml(s, upload)
  BY <1>1, <1>8 DEF FinishSave, Lapse, Drift, SaveOidc, SaveSaml, vars, files,
                    published, request
<1>9. CASE WriteSaml \/ Generate \/ PublishConnection \/ DeleteRealm \/ PostRealm
  <2>1. status' = status /\ pc # "idle"
    BY <1>9 DEF WriteSaml, Generate, PublishConnection, DeleteRealm, PostRealm
  <2> QED
    BY <1>2, <2>1 DEF Holder
<1>10. CASE GenerationFails \/ PostRefused \/ ReplacementFails
  <2>1. GenerationOutcome(GeneratorInput) # "applied"
    BY DEF GenerationOutcome
  <2> QED
    BY <1>2, <1>10, <2>1 DEF GenerationFails, PostRefused, ReplacementFails, Ended
<1>11. CASE Answer
  <2>1. served = {realmFile} /\ Directory(realmFile) = Directory(GeneratorInput)
    BY <1>11 DEF Answer, Holder, Staging
  <2>2. Directory(GeneratorInput) = Kept
    BY DEF Directory, GeneratorInput, Kept
  <2> QED
    BY <1>11, <2>1, <2>2 DEF Answer, files, published, Answered, Directory, Kept
<1>12. CASE Restart
  <2>1. CASE pc = "idle"
    BY <1>1, <1>12, <2>1 DEF Restart, request, files, published
  <2>2. CASE pc # "idle"
    BY <1>2, <1>12, <2>2 DEF Restart, Ended
  <2> QED
    BY <2>1, <2>2
<1> QED
  BY <1>5, <1>6, <1>7, <1>8, <1>9, <1>10, <1>11, <1>12 DEF Next

\* an edit of nothing changes no client and no user
LEMMA UneditedClient ==
  ASSUME drift = {}, NEW in, NEW c \in Realm(in).clients
  PROVE  EditedClient(c) = c
<1>1. c \in OidcClients(in) \cup SamlClients(in) \cup CustomerSiteClients(in)
  BY DEF Realm
<1>2. EditedClient(c) = [c EXCEPT !.redirectUris = @ \cup ({} \cup {})]
  BY DEF EditedClient
<1>3. CASE c \in OidcClients(in)
  BY <1>2, <1>3 DEF OidcClients, OidcClient
<1>4. CASE c \in SamlClients(in)
  BY <1>2, <1>4 DEF SamlClients
<1>5. CASE c \in CustomerSiteClients(in)
  BY <1>2, <1>5 DEF CustomerSiteClients
<1> QED
  BY <1>1, <1>3, <1>4, <1>5

LEMMA UneditedUser ==
  ASSUME drift = {}, NEW in, NEW u \in KnownUsers(in.users)
  PROVE  EditedUser(Realm(in).users[u]) = Realm(in).users[u]
BY DEF EditedUser, Realm, RealmUser

\* without edits in the console the served realm is the generated one
LEMMA UndisturbedRealm ==
  ASSUME NEW in, served = {in}, drift = {}
  PROVE  ServedRealm = Realm(in)
<1>1. (CHOOSE input \in served : TRUE) = in
  OBVIOUS
<1> DEFINE r == Realm(in)
<1>2. ServedRealm = [r EXCEPT !.clients = {EditedClient(c) : c \in r.clients},
                              !.users = [u \in DOMAIN r.users |-> EditedUser(r.users[u])]]
  BY <1>1 DEF ServedRealm
<1>3. {EditedClient(c) : c \in r.clients} = r.clients
  BY UneditedClient
<1>4. [u \in DOMAIN r.users |-> EditedUser(r.users[u])] = r.users
  BY UneditedUser DEF Realm
<1>5. [r EXCEPT !.clients = r.clients, !.users = r.users] = r
  BY DEF Realm
<1> QED
  BY <1>2, <1>3, <1>4, <1>5

\* what a page shows as "enabled" is a truth value
LEMMA EnabledOrNot ==
  ASSUME NEW all, UsersMerge(all), NEW u \in KnownUsers(all)
  PROVE  EffectiveUser(all, u).enabled \in BOOLEAN
<1>1. CASE u \in DOMAIN all
  <2>1. all[u].enabled \in BOOLEAN
    BY <1>1 DEF UsersMerge, AcceptedForm
  <2> QED
    BY <1>1, <2>1 DEF EffectiveUser
<1>2. CASE u \notin DOMAIN all
  <2>1. BaseUsers[u].enabled \in BOOLEAN
    BY <1>2, OverlayAssumption DEF KnownUsers
  <2> QED
    BY <1>2, <2>1 DEF EffectiveUser
<1> QED
  BY <1>1, <1>2

\* the user of a generated realm, and who can log in as that user
LEMMA GeneratedUser ==
  ASSUME NEW in, NEW u \in KnownUsers(in.users)
  PROVE  /\ DOMAIN Realm(in).users = KnownUsers(in.users)
         /\ Realm(in).users[u] = RealmUser(in, u)
         /\ RealmUser(in, u).username = EffectiveUser(in.users, u).username
         /\ RealmUser(in, u).enabled = EffectiveUser(in.users, u).enabled
         /\ RealmUser(in, u).password = EffectiveUser(in.users, u).password
         /\ RealmUser(in, u).groups = UserGroups(in, u)
BY DEF Realm, RealmUser

\* a page and the generator compute the groups of a user alike
LEMMA PreviewedGroups ==
  ASSUME NEW in, NEW u
  PROVE  UserGroups(in, u) = ClaimPreview(in.groups, u)
BY DEF UserGroups, ClaimPreview, EffectiveGroups

(* What the users and groups pages show after an answer "applied" is what  *)
(* Keycloak serves, for every manifest, overlay and interleaving: the      *)
(* previewed groups are the groups of the login, and a user can log in     *)
(* exactly when shown as enabled (groups.py:240-336, users.py:321-358).    *)
THEOREM PagesAlwaysMatch == Spec => []PagesMatchRealm
<1>1. Answered /\ OverlaysMerge => PagesMatchRealm
  <2> SUFFICES ASSUME Answered, OverlaysMerge,
                      status = "applied", drift = {}, NEW u \in KnownUsers(users)
               PROVE  /\ ServedRealm.users[u].groups = ClaimPreview(groups, u)
                      /\ (u \in Authenticated(ServedRealm, EffectiveUser(users, u).username,
                                              EffectiveUser(users, u).password))
                           = EffectiveUser(users, u).enabled
    BY DEF PagesMatchRealm
  <2>1. served = {realmFile} /\ realmFile.users = users /\ realmFile.groups = groups
    BY DEF Answered, Directory, Kept
  <2>2. ServedRealm = Realm(realmFile)
    BY <2>1, UndisturbedRealm
  <2> DEFINE user == EffectiveUser(users, u)
             r == ServedRealm
  <2>3. /\ DOMAIN r.users = KnownUsers(users)
        /\ r.users[u].username = user.username
        /\ r.users[u].enabled = user.enabled
        /\ r.users[u].password = user.password
        /\ r.users[u].groups = ClaimPreview(groups, u)
    BY <2>1, <2>2, GeneratedUser, PreviewedGroups
  <2>4. user.enabled \in BOOLEAN
    BY EnabledOrNot DEF OverlaysMerge
  <2> HIDE DEF user, r
  <2>5. u \in Authenticated(r, user.username, user.password) <=> user.enabled
    BY <2>3 DEF Authenticated
  <2> QED
    BY <2>3, <2>4, <2>5 DEF user, r
<1> QED
  BY <1>1, AnsweredInit, AnsweredStep, HolderInvariant, OverlaysAlwaysMerge, PTL DEF Spec

-----------------------------------------------------------------------------
(* The previews.                                                           *)

\* the settings a request carries are the ones its realm is generated from,
\* and the connection profile is of that realm
Carrying ==
  /\ op.oidc \subseteq {s \in OidcDocuments : OidcAccepted(s)}
  /\ op.saml \subseteq SamlDocuments
  /\ \A s, t \in op.oidc : s = t
  /\ \A s, t \in op.saml : s = t
  /\ pc \in Staging =>
       /\ realmFile.env = env
       /\ \A s \in op.oidc : realmFile.oidc = s
       /\ \A s \in op.saml : realmFile.saml = s
  /\ pc \in {"delete", "post", "answer"} => connectionFile = realmFile

LEMMA CarryingInit == Init => Carrying
BY DEF Init, Carrying, NoRequest, Staging

LEMMA CarryingStep == Holder /\ Carrying /\ [Next]_vars => Carrying'
<1> SUFFICES ASSUME Holder, Carrying, [Next]_vars PROVE Carrying'
  OBVIOUS
<1> USE DEF Carrying, Staging
<1>1. CASE UNCHANGED <<env, op, pc, realmFile, connectionFile>>
  BY <1>1
<1>2. CASE op' = NoRequest /\ pc' = "idle"
  BY <1>2 DEF NoRequest
<1>3. ASSUME NEW kind, op' = [NoRequest EXCEPT !.kind = kind], pc' = "generate"
      PROVE  Carrying'
  BY <1>3 DEF NoRequest
<1>4. CASE CreateUser \/ UpdateUser \/ ResetPassword
  BY <1>3, <1>4 DEF CreateUser, UpdateUser, ResetPassword, StoreUsers, Accepted
<1>5. CASE CreateGroup \/ RenameGroup \/ DeleteGroup \/ SetMembers
  BY <1>3, <1>5 DEF CreateGroup, RenameGroup, DeleteGroup, SetMembers, StoreGroups, Accepted
<1>6. ASSUME NEW s \in OidcDocuments, ApplyOidc(s) PROVE Carrying'
  <2>1. op' = [NoRequest EXCEPT !.kind = "oidc", !.oidc = {s}]
    BY <1>6 DEF ApplyOidc
  <2>2. op'.oidc = {s} /\ op'.saml = {}
    BY <2>1 DEF NoRequest
  <2> QED
    BY <1>6, <2>2 DEF ApplyOidc
<1>7. ASSUME NEW s \in SamlDocuments, NEW upload, ApplySaml(s, upload) PROVE Carrying'
  <2>1. op' = [NoRequest EXCEPT !.kind = "saml", !.saml = {s}]
    BY <1>7 DEF ApplySaml
  <2>2. op'.oidc = {} /\ op'.saml = {s}
    BY <2>1 DEF NoRequest
  <2> QED
    BY <1>7, <2>2 DEF ApplySaml
<1>8. CASE \/ FinishSave \/ Lapse \/ Drift \/ UNCHANGED vars
           \/ \E s \in OidcDocuments : SaveOidc(s)
           \/ \E s \in SamlDocuments, upload \in {"none", "current", "lapsed"} :
                SaveSaml(s, upload)
  BY <1>1, <1>8 DEF FinishSave, Lapse, Drift, SaveOidc, SaveSaml, vars, files,
                    published, request
<1>9. CASE WriteSaml
  BY <1>9 DEF WriteSaml
<1>10. CASE Generate
  <2>1. /\ realmFile' = GeneratorInput /\ pc' = "connection" /\ env' = env
        /\ op' = [op EXCEPT !.staged = {GeneratorInput}]
    BY <1>10 DEF Generate
  <2>2. op'.oidc = op.oidc /\ op'.saml = op.saml
    BY <2>1
  <2>3. ASSUME NEW s \in op.oidc PROVE GeneratorInput.oidc = s
    BY DEF GeneratorInput, Selected
  <2>4. ASSUME NEW s \in op.saml PROVE GeneratorInput.saml = s
    BY DEF GeneratorInput, Selected
  <2>5. GeneratorInput.env = env
    BY DEF GeneratorInput
  <2> HIDE DEF Carrying
  <2> QED
    BY <2>1, <2>2, <2>3, <2>4, <2>5 DEF Carrying
<1>11. CASE PublishConnection
  <2>1. connectionFile' = realmFile /\ UNCHANGED <<env, op, realmFile>> /\ pc' = "delete"
        /\ pc = "connection"
    BY <1>11 DEF PublishConnection, Holder
  <2> QED
    BY <2>1
<1>12. CASE DeleteRealm \/ PostRealm
  BY <1>12 DEF DeleteRealm, PostRealm, files
<1>13. CASE GenerationFails \/ PostRefused \/ ReplacementFails \/ Answer
  BY <1>2, <1>13 DEF GenerationFails, PostRefused, ReplacementFails, Answer, Ended
<1>14. CASE Restart
  <2>1. CASE pc = "idle"
    BY <1>1, <1>14, <2>1 DEF Restart, request, files, published
  <2>2. CASE pc # "idle"
    BY <1>2, <1>14, <2>2 DEF Restart, Ended
  <2> QED
    BY <2>1, <2>2
<1> QED
  BY <1>4, <1>5, <1>6, <1>7, <1>8, <1>9, <1>10, <1>11, <1>12, <1>13, <1>14 DEF Next

\* what travels through the environment offers the same registrations
LEMMA OfferTravels ==
  ASSUME NEW s, s = OidcFields(s), OidcAccepted(s)
  PROVE  OidcPreview(OidcFromEnvironment(s)) = OidcPreview(s)
<1> DEFINE e == OidcFromEnvironment(s)
           redirects == OrDefault(s.legacy.redirects, DefaultRedirects)
           logouts == OrDefault(s.legacy.logouts, redirects)
           legacy == [client |-> s.legacy.client, redirects |-> redirects,
                      logouts |-> logouts, scopes |-> s.legacy.scopes]
<1>1. s = [mode |-> s.mode, par |-> s.par, lifetime |-> s.lifetime,
           consent |-> s.consent, legacyEnabled |-> s.legacyEnabled,
           modern |-> s.modern,
           legacy |-> [client |-> s.legacy.client, redirects |-> s.legacy.redirects,
                       logouts |-> s.legacy.logouts, scopes |-> s.legacy.scopes]]
  BY DEF OidcFields, ClientFields
<1>2. e = [[s EXCEPT !.legacy.redirects = redirects] EXCEPT !.legacy.logouts = logouts]
  BY DEF OidcFromEnvironment
<1> HIDE DEF redirects, logouts
<1>3. /\ e.mode = s.mode /\ e.par = s.par /\ e.legacyEnabled = s.legacyEnabled
      /\ e.modern = s.modern
      /\ e.legacy = legacy
  <2> HIDE DEF e
  <2> DEFINE first == [s EXCEPT !.legacy.redirects = redirects]
             inner == [client |-> s.legacy.client, redirects |-> redirects,
                       logouts |-> s.legacy.logouts, scopes |-> s.legacy.scopes]
  <2>1. first = [s EXCEPT !.legacy = [s.legacy EXCEPT !.redirects = redirects]]
    OBVIOUS
  <2>2. [s.legacy EXCEPT !.redirects = redirects] = inner
    BY <1>1
  <2>3. first = [mode |-> s.mode, par |-> s.par, lifetime |-> s.lifetime,
                 consent |-> s.consent, legacyEnabled |-> s.legacyEnabled,
                 modern |-> s.modern, legacy |-> inner]
    <3> HIDE DEF inner, first
    <3> QED
      BY <1>1, <2>1, <2>2
  <2>4. e = [first EXCEPT !.legacy = [first.legacy EXCEPT !.logouts = logouts]]
    <3>1. e = [first EXCEPT !.legacy.logouts = logouts]
      BY <1>2
    <3> HIDE DEF first
    <3> QED
      BY <3>1
  <2> HIDE DEF first
  <2>5. [first.legacy EXCEPT !.logouts = logouts] = legacy
    BY <2>3
  <2> HIDE DEF inner, legacy
  <2> QED
    BY <2>3, <2>4, <2>5
<1>4. s.legacyEnabled => redirects = s.legacy.redirects /\ logouts = s.legacy.logouts
  BY DEF OidcAccepted, OrDefault, redirects, logouts
<1> HIDE DEF e
<1>5. OidcOffer(e, e.modern, "Modern", e.par) = OidcOffer(s, s.modern, "Modern", s.par)
  BY <1>3 DEF OidcOffer
<1>6. s.legacyEnabled =>
        OidcOffer(e, e.legacy, "Legacy", "Disable") = OidcOffer(s, s.legacy, "Legacy", "Disable")
  BY <1>3, <1>4 DEF OidcOffer
<1>7. OidcPreview(e) = OidcPreview(s)
  BY <1>3, <1>5, <1>6 DEF OidcPreview
<1> QED
  BY <1>7 DEF e

\* of a SAML profile, everything travels except an empty list
LEMMA ProfileTravels ==
  ASSUME NEW p, NEW default, p = SamlFields(p)
  PROVE  LET e == ProfileFromEnvironment(p, default) IN
         /\ e.enabled = p.enabled /\ e.key = p.key /\ e.entity = p.entity
         /\ e.binding = p.binding /\ e.subject = p.subject /\ e.slo = p.slo
         /\ (p.acs # {} /\ p.logout # {} /\ p.claims # {} /\ p.contexts # {}) =>
              /\ e.acs = p.acs /\ e.logout = p.logout
              /\ e.claims = p.claims /\ e.contexts = p.contexts
         /\ e.contexts # {}
<1> DEFINE acs == OrDefault(p.acs, {default.key})
           logout == OrDefault(p.logout, {default.key})
           claims == OrDefault(p.claims, DefaultClaims)
           contexts == OrDefault(p.contexts, DefaultContexts)
<1>1. ProfileFromEnvironment(p, default) =
        [enabled |-> p.enabled, key |-> p.key, entity |-> p.entity, acs |-> acs,
         logout |-> logout, binding |-> p.binding, subject |-> p.subject,
         claims |-> claims, contexts |-> contexts, unsolicited |-> p.unsolicited,
         slo |-> p.slo]
  <2> HIDE DEF acs, logout, claims, contexts
  <2>1. ProfileFromEnvironment(p, default) =
          [p EXCEPT !.acs = acs, !.logout = logout, !.claims = claims, !.contexts = contexts]
    BY DEF ProfileFromEnvironment, acs, logout, claims, contexts
  <2> QED
    BY <2>1 DEF SamlFields
<1>2. (p.acs # {} /\ p.logout # {} /\ p.claims # {} /\ p.contexts # {}) =>
        acs = p.acs /\ logout = p.logout /\ claims = p.claims /\ contexts = p.contexts
  BY DEF OrDefault
<1>3. contexts # {}
  BY DEF OrDefault, DefaultContexts
<1> HIDE DEF acs, logout, claims, contexts
<1> QED
  BY <1>1, <1>2, <1>3

\* the names of the connection profiles
LEMMA ConnectionNames ==
  /\ \A p, q \in Profiles : ConnectionName(p) = ConnectionName(q) => p = q
  /\ \A p \in Profiles : ConnectionName(p) \notin {"modern", "legacy"}
BY DEF ConnectionName, Profiles

LEMMA SamlConnectionOf ==
  ASSUME NEW in, NEW p \in DOMAIN SamlProfilesOf(in)
  PROVE  LET client == Connection(in).clients[ConnectionName(p)]
             profile == SamlProfilesOf(in)[p]
         IN /\ ConnectionName(p) \in DOMAIN Connection(in).clients
            /\ client.key = profile.key /\ client.clientId = profile.entity
            /\ client.slo = profile.slo /\ client.redirectUris = profile.acs
            /\ client.logoutUris = profile.logout /\ client.binding = profile.binding
            /\ client.subject = profile.subject /\ client.claims = profile.claims
            /\ client.contexts = profile.contexts
            /\ client.thumbprint = (IF p = "Saml2Int" THEN in.certificate ELSE "none")
<1> DEFINE name == ConnectionName(p)
           profiles == SamlProfilesOf(in)
<1>1. DOMAIN profiles \subseteq Profiles
  BY DEF SamlProfilesOf
<1>2. (CHOOSE q \in DOMAIN profiles : ConnectionName(q) = name) = p
  BY <1>1, ConnectionNames
<1>3. name \notin DOMAIN OidcConnection(in)
  BY <1>1, ConnectionNames DEF OidcConnection
<1>4. /\ name \in DOMAIN SamlConnection(in)
      /\ SamlConnection(in)[name] =
           [protocol |-> "saml", profile |-> p, clientId |-> profiles[p].entity,
            key |-> profiles[p].key, redirectUris |-> profiles[p].acs,
            logoutUris |-> profiles[p].logout, binding |-> profiles[p].binding,
            subject |-> profiles[p].subject, claims |-> profiles[p].claims,
            contexts |-> profiles[p].contexts, unsolicited |-> profiles[p].unsolicited,
            slo |-> profiles[p].slo, encrypted |-> p = "Saml2Int",
            thumbprint |-> IF p = "Saml2Int" THEN in.certificate ELSE "none"]
  <2> HIDE DEF name
  <2>1. name \in {ConnectionName(q) : q \in DOMAIN profiles}
    BY DEF name
  <2> QED
    BY <1>2, <2>1 DEF SamlConnection
<1>5. Connection(in).clients = Joined(OidcConnection(in), SamlConnection(in))
  BY DEF Connection
<1> HIDE DEF name, profiles
<1>6. name \in DOMAIN Connection(in).clients
      /\ Connection(in).clients[name] = SamlConnection(in)[name]
  BY <1>3, <1>4, <1>5 DEF Joined
<1> QED
  BY <1>4, <1>6 DEF name, profiles

LEMMA AnsweredPreview ==
  ASSUME Carrying, pc = "answer"
  PROVE  PreviewApplied
<1> DEFINE in == connectionFile
<1>1. /\ in.env = env
      /\ \A s \in op.oidc : in.oidc = s /\ s = OidcFields(s) /\ OidcAccepted(s)
      /\ \A s \in op.saml : in.saml = s /\ \A p \in Profiles : s[p] = SamlFields(s[p])
  BY LabAssumption DEF Carrying, Staging
<1> HIDE DEF in
<1>2. ASSUME env.oidc, NEW s \in op.oidc
      PROVE  OidcPreview(s) = Connection(in).oidcPreview
  <2>1. Connection(in).oidcPreview = OidcPreview(OidcFromEnvironment(s))
    BY <1>1, <1>2 DEF Connection
  <2> QED
    BY <1>1, <2>1, OfferTravels
<1>3. ASSUME env.saml, NEW s \in op.saml, NEW p \in DOMAIN SamlPreview(s)
      PROVE  LET client == Connection(in).clients[ConnectionName(p)]
                 offer == SamlPreview(s)[p]
             IN /\ ConnectionName(p) \in DOMAIN Connection(in).clients
                /\ (offer.acs # {} /\ offer.logout # {} /\ offer.claims # {}
                      /\ offer.contexts # {}) =>
                     /\ client.key = offer.key /\ client.clientId = offer.entity
                     /\ client.slo = offer.slo /\ client.redirectUris = offer.acs
                     /\ client.logoutUris = offer.logout
                     /\ client.binding = offer.binding
                     /\ client.subject = offer.subject
                     /\ client.claims = offer.claims /\ client.contexts = offer.contexts
  <2>1. p \in Profiles /\ s[p].enabled
    BY <1>3 DEF SamlPreview
  <2>2. /\ SamlPreview(s)[p].key = s[p].key /\ SamlPreview(s)[p].entity = s[p].entity
        /\ SamlPreview(s)[p].binding = s[p].binding
        /\ SamlPreview(s)[p].subject = s[p].subject
        /\ SamlPreview(s)[p].claims = s[p].claims
        /\ SamlPreview(s)[p].contexts = s[p].contexts
        /\ SamlPreview(s)[p].slo = s[p].slo /\ SamlPreview(s)[p].acs = s[p].acs
        /\ SamlPreview(s)[p].logout = s[p].logout
    BY <1>3, <2>1 DEF SamlPreview
  <2>3. PICK default : SamlFromEnvironment(s)[p] = ProfileFromEnvironment(s[p], default)
    BY <2>1 DEF SamlFromEnvironment
  <2> DEFINE e == ProfileFromEnvironment(s[p], default)
  <2>4. /\ e.enabled = s[p].enabled /\ e.key = s[p].key /\ e.entity = s[p].entity
        /\ e.binding = s[p].binding /\ e.subject = s[p].subject /\ e.slo = s[p].slo
        /\ (s[p].acs # {} /\ s[p].logout # {} /\ s[p].claims # {} /\ s[p].contexts # {}) =>
             /\ e.acs = s[p].acs /\ e.logout = s[p].logout
             /\ e.claims = s[p].claims /\ e.contexts = s[p].contexts
        /\ e.contexts # {}
    BY <1>1, <1>3, <2>1, ProfileTravels
  <2>5. p \in DOMAIN SamlProfilesOf(in) /\ SamlProfilesOf(in)[p] = e
    <3> HIDE DEF e
    <3>1. in.saml = s /\ in.env.saml /\ SamlFromEnvironment(s)[p] = e
      BY <1>1, <1>3, <2>3 DEF e
    <3>2. e.enabled
      BY <2>1, <2>4
    <3> QED
      BY <2>1, <3>1, <3>2 DEF SamlProfilesOf
  <2> HIDE DEF e
  <2> QED
    BY <2>2, <2>4, <2>5, SamlConnectionOf
<1> QED
  BY <1>2, <1>3 DEF PreviewApplied, in

(* What the OIDC or SAML page previews when it answers "applied" is what   *)
(* the realm was generated from, for every document of either protocol     *)
(* that is turned on: a Save that came in meanwhile has not changed it     *)
(* (oidc.py:254-368 and saml.py:379-528, the two ways through the          *)
(* environment).                                                           *)
THEOREM PreviewsAreApplied == Spec => AppliedIsPreviewed
<1>1. Carrying => [(pc = "answer" /\ status' = "applied") => PreviewApplied]_vars
  BY AnsweredPreview
<1> QED
  BY <1>1, CarryingInit, CarryingStep, HolderInvariant, PTL DEF Spec, AppliedIsPreviewed

-----------------------------------------------------------------------------
(* The verifiers: test users and logins.                                   *)

\* a set of naturals has a least element, from the well-founded order of Nat
LEMMA LeastPlace ==
  ASSUME NEW places \in SUBSET Nat, places # {}
  PROVE  Min(places) \in places
<1> DEFINE less == {ss \in Nat \X Nat : ss[1] < ss[2]}
<1>1. IsWellFoundedOn(less, Nat)
  BY NatLessThanWellFounded DEF OpToRel
<1>2. \E n \in places : \A m \in places : <<m, n>> \notin less
  <2> HIDE DEF less
  <2> QED
    BY <1>1, WFMin
<1>3. \E n \in places : \A m \in places : n <= m
  <2>1. \A n, m \in Nat : <<m, n>> \notin less => n <= m
    OBVIOUS
  <2> QED
    BY <1>2, <2>1
<1> QED
  BY <1>3 DEF Min

\* the test user of a kind is a user of that kind
LEMMA FirstUserOf ==
  ASSUME NEW all, DOMAIN all \subseteq UserIds, NEW enabled,
         FirstUser(all, enabled) # {}
  PROVE  \E u \in DOMAIN all : FirstUser(all, enabled) = {u} /\ all[u].enabled = enabled
<1> DEFINE places == {n \in DOMAIN UserOrder : /\ UserOrder[n] \in DOMAIN all
                                              /\ all[UserOrder[n]].enabled = enabled}
<1>1. places # {} /\ places \subseteq Nat
  <2>1. DOMAIN UserOrder \subseteq Nat
    BY OverlayAssumption
  <2> QED
    BY <2>1 DEF FirstUser
<1>2. Min(places) \in places
  BY <1>1, LeastPlace
<1>3. FirstUser(all, enabled) = {UserOrder[Min(places)]}
  BY <1>1 DEF FirstUser
<1> QED
  BY <1>2, <1>3

\* the merged directory is that of the known users
LEMMA KnownUserIds ==
  ASSUME NEW all, UsersMerge(all)
  PROVE  /\ DOMAIN EffectiveUsers(all) = KnownUsers(all)
         /\ KnownUsers(all) \subseteq UserIds
         /\ \A u \in KnownUsers(all) : EffectiveUsers(all)[u] = EffectiveUser(all, u)
BY DEF UsersMerge, EffectiveUsers, KnownUsers, UserIds

\* the test users of a connection profile are users of its realm, one enabled
\* and one not
LEMMA TestUsersOf ==
  ASSUME NEW in, GenerationOutcome(in) = "generated"
  PROVE  \E a, d \in KnownUsers(in.users) :
           /\ EffectiveUser(in.users, a).enabled = TRUE
           /\ EffectiveUser(in.users, d).enabled = FALSE
           /\ Connection(in).active = TestUser(in, a)
           /\ Connection(in).disabled = TestUser(in, d)
           /\ Connection(in).password = EffectiveUser(in.users, a).password
<1> DEFINE all == EffectiveUsers(in.users)
<1>1. UsersMerge(in.users) /\ FirstUser(all, FALSE) # {}
  BY DEF GenerationOutcome, Generatable
<1>2. /\ DOMAIN all = KnownUsers(in.users) /\ DOMAIN all \subseteq UserIds
      /\ \A u \in DOMAIN all : all[u] = EffectiveUser(in.users, u)
  BY <1>1, KnownUserIds
<1>3. FirstUser(all, TRUE) # {}
  <2>1. \E u \in DOMAIN all : all[u].enabled
    BY <1>1 DEF UsersMerge
  <2>2. PICK u \in DOMAIN all : all[u].enabled = TRUE
    <3> HIDE DEF all
    <3> QED
      BY <1>1, <1>2, <2>1, EnabledOrNot
  <2>3. PICK n \in DOMAIN UserOrder : UserOrder[n] = u
    BY <1>2, OverlayAssumption
  <2> HIDE DEF all
  <2> QED
    BY <2>2, <2>3 DEF FirstUser
<1> HIDE DEF all
<1>5. PICK a \in DOMAIN all : FirstUser(all, TRUE) = {a} /\ all[a].enabled = TRUE
  BY <1>2, <1>3, FirstUserOf
<1>6. PICK d \in DOMAIN all : FirstUser(all, FALSE) = {d} /\ all[d].enabled = FALSE
  BY <1>1, <1>2, FirstUserOf
<1>7. /\ (CHOOSE u \in FirstUser(all, TRUE) : TRUE) = a
      /\ (CHOOSE u \in FirstUser(all, FALSE) : TRUE) = d
  BY <1>5, <1>6
<1>8. /\ Connection(in).active = TestUser(in, a)
      /\ Connection(in).disabled = TestUser(in, d)
      /\ Connection(in).password = all[a].password
  BY <1>7 DEF Connection, all
<1> QED
  BY <1>2, <1>5, <1>6, <1>8

\* a name logs in the one user that has it, if that user is enabled
LEMMA LoginOf ==
  ASSUME NEW in, UsersMerge(in.users), NEW u \in KnownUsers(in.users), NEW word
  PROVE  Authenticated(Realm(in), EffectiveUser(in.users, u).username, word) =
           IF /\ EffectiveUser(in.users, u).enabled
              /\ EffectiveUser(in.users, u).password = word
           THEN {u} ELSE {}
<1> DEFINE r == Realm(in)
           user(v) == EffectiveUser(in.users, v)
<1>1. /\ DOMAIN r.users = KnownUsers(in.users)
      /\ \A v \in KnownUsers(in.users) :
           /\ r.users[v].username = user(v).username
           /\ r.users[v].enabled = user(v).enabled
           /\ r.users[v].password = user(v).password
  BY GeneratedUser
<1>2. \A v \in KnownUsers(in.users) : v # u => user(v).username # user(u).username
  <2>1. \A v, w \in DOMAIN EffectiveUsers(in.users) : v # w =>
          EffectiveUsers(in.users)[v].username # EffectiveUsers(in.users)[w].username
    BY DEF UsersMerge
  <2> QED
    BY <2>1, KnownUserIds
<1> HIDE DEF r, user
<1>3. Authenticated(r, user(u).username, word) =
        IF user(u).enabled /\ user(u).password = word THEN {u} ELSE {}
  BY <1>1, <1>2 DEF Authenticated
<1> QED
  BY <1>3 DEF r, user

\* a URL chosen by position is one of the list
LEMMA FirstOf == \A list : list # {} => First(list) \in list
BY DEF First

\* where ids differ, an id names one client
LEMMA OneClient ==
  ASSUME NEW in, DistinctClients(in), NEW c \in Realm(in).clients
  PROVE  ClientsOf(Realm(in), c.clientId) = {c}
BY DEF DistinctClients, ClientsOf

-----------------------------------------------------------------------------
(* The verifiers: what a login yields and what is expected.                *)

\* the fields of a generated user
LEMMA RealmUserFields ==
  ASSUME NEW in, NEW u
  PROVE  LET user == EffectiveUser(in.users, u)
             attributes == RealmUser(in, u).attributes
         IN /\ RealmUser(in, u).id = StableId(in.env.key, "user", u)
            /\ RealmUser(in, u).username = user.username
            /\ RealmUser(in, u).email = user.email
            /\ RealmUser(in, u).firstName = <<Head(user.name)>>
            /\ RealmUser(in, u).lastName = Tail(user.name)
            /\ RealmUser(in, u).groups = UserGroups(in, u)
            /\ DOMAIN attributes =
                 {"northlake_oidc_subject", "synthetic_user_id", "primary_company_id",
                  "synthetic_status", "eem_company_ids", "eem_permission_profiles"}
            /\ attributes["northlake_oidc_subject"] = Subject(in, u)
            /\ attributes["synthetic_user_id"] = u
            /\ attributes["primary_company_id"] = user.company
            /\ attributes["synthetic_status"] = Status(user)
            /\ attributes["eem_company_ids"] = UserCompanies(in, u)
            /\ attributes["eem_permission_profiles"] = UserProfiles(in, u)
BY DEF RealmUser, FormOf

\* the fields of what the connection profile expects of a user
LEMMA ExpectedOf ==
  ASSUME NEW in, NEW u
  PROVE  LET user == EffectiveUser(in.users, u)
             expected == ExpectedAttributes(in, u)
         IN /\ DOMAIN expected = KnownSamlClaims \ {"realm_roles"}
            /\ expected["username"] = user.username
            /\ expected["email"] = user.email
            /\ expected["given_name"] = <<Head(user.name)>>
            /\ expected["family_name"] = Tail(user.name)
            /\ expected["synthetic_user_id"] = u
            /\ expected["primary_company_id"] = user.company
            /\ expected["synthetic_status"] = Status(user)
            /\ expected["groups"] = UserGroups(in, u)
            /\ expected["eem_company_ids"] = UserCompanies(in, u)
            /\ expected["eem_permission_profiles"] = UserProfiles(in, u)
            /\ expected["subject-id"] = StableId(in.env.namespace, "saml-subject-id", u)
BY DEF ExpectedAttributes, Put, KnownSamlClaims

\* a claim has a value unless it is an empty list
LEMMA ValuesOfClaim ==
  ASSUME NEW claim, NEW expected
  PROVE  Values(claim, expected[claim]) # {} <=> Valued(expected, {claim})
BY DEF Values, Valued

\* the scopes of the client and the values of the user decide which claims a
\* login has; their values are the expected ones
LEMMA ClaimsOfLogin ==
  ASSUME NEW in, in.env.oidc, in.env.oidcClaims \subseteq NorthlakeClaims,
         NEW u \in KnownUsers(in.users), NEW c
  PROVE  LET claims == OidcClaims(Realm(in), c, u) IN
         /\ claims["sub"] = Subject(in, u)
         /\ "preferred_username" \in DOMAIN claims <=> "profile" \in c.scopes
         /\ "profile" \in c.scopes =>
              claims["preferred_username"] = EffectiveUser(in.users, u).username
         /\ "email" \in DOMAIN claims <=> "email" \in c.scopes
         /\ \A claim \in NorthlakeClaims :
              /\ claim \in DOMAIN claims <=>
                   /\ "northlake" \in c.scopes /\ claim \in in.env.oidcClaims
                   /\ Valued(ExpectedAttributes(in, u), {claim})
              /\ claim \in DOMAIN claims =>
                   claims[claim] = ExpectedAttributes(in, u)[claim]
<1> DEFINE user == RealmUser(in, u)
           Northlake(claim) == IF claim = "groups" THEN user.groups
                               ELSE user.attributes[claim]
           valued == {claim \in in.env.oidcClaims : Values(claim, Northlake(claim)) # {}}
           profile == IF "profile" \in c.scopes
                      THEN [preferred_username |-> user.username,
                            given_name |-> user.firstName,
                            family_name |-> user.lastName] ELSE << >>
           email == IF "email" \in c.scopes THEN [email |-> user.email] ELSE << >>
           northlake == IF "northlake" \in c.scopes
                        THEN [claim \in valued |-> Northlake(claim)] ELSE << >>
           claims == OidcClaims(Realm(in), c, u)
<1>1. claims = Put(Joined(profile, Joined(email, northlake)), "sub", Subject(in, u))
  <2>1. Realm(in).northlakeScope = in.env.oidcClaims /\ Realm(in).users[u] = user
    BY DEF Realm
  <2>2. user.attributes.northlake_oidc_subject = Subject(in, u)
    BY RealmUserFields
  <2> HIDE DEF user
  <2> QED
    BY <2>1, <2>2 DEF OidcClaims
<1>2. DOMAIN << >> = {}
  OBVIOUS
<1>3. /\ DOMAIN profile = IF "profile" \in c.scopes
                          THEN {"preferred_username", "given_name", "family_name"} ELSE {}
      /\ DOMAIN email = IF "email" \in c.scopes THEN {"email"} ELSE {}
      /\ DOMAIN northlake = IF "northlake" \in c.scopes THEN valued ELSE {}
  <2> HIDE DEF user, Northlake, valued
  <2> QED
    BY <1>2
<1>4. "profile" \in c.scopes => profile["preferred_username"] = EffectiveUser(in.users, u).username
  <2>1. user.username = EffectiveUser(in.users, u).username
    BY RealmUserFields
  <2> HIDE DEF user
  <2> QED
    BY <2>1
<1>5. \A claim \in NorthlakeClaims : Northlake(claim) = ExpectedAttributes(in, u)[claim]
  BY RealmUserFields, ExpectedOf DEF NorthlakeClaims
<1>6. \A claim \in DOMAIN northlake : northlake[claim] = Northlake(claim)
  <2> HIDE DEF user, Northlake, valued
  <2> QED
    BY <1>3
<1>14. \A claim \in NorthlakeClaims :
         claim \in valued <=> /\ claim \in in.env.oidcClaims
                              /\ Valued(ExpectedAttributes(in, u), {claim})
  <2> HIDE DEF user, Northlake
  <2> QED
    BY <1>5, ValuesOfClaim
<1>15. valued \subseteq NorthlakeClaims
  OBVIOUS
<1> HIDE DEF profile, email, northlake, user, Northlake, claims, valued
<1>7. /\ DOMAIN claims = DOMAIN profile \cup DOMAIN email \cup DOMAIN northlake \cup {"sub"}
      /\ claims["sub"] = Subject(in, u)
      /\ \A k \in DOMAIN profile : k # "sub" => claims[k] = profile[k]
      /\ \A k \in DOMAIN northlake : k \notin DOMAIN profile \cup DOMAIN email \cup {"sub"} =>
           claims[k] = northlake[k]
  BY <1>1 DEF Put, Joined
<1>8. \A k \in NorthlakeClaims : k \notin DOMAIN profile \cup DOMAIN email \cup {"sub"}
  BY <1>3 DEF NorthlakeClaims
<1>9. "preferred_username" \notin NorthlakeClaims /\ "email" \notin NorthlakeClaims
  BY DEF NorthlakeClaims
<1>10. "preferred_username" \in DOMAIN claims <=> "profile" \in c.scopes
  BY <1>3, <1>7, <1>9, <1>15
<1>11. "profile" \in c.scopes =>
         claims["preferred_username"] = EffectiveUser(in.users, u).username
  BY <1>3, <1>4, <1>7
<1>12. "email" \in DOMAIN claims <=> "email" \in c.scopes
  BY <1>3, <1>7, <1>9, <1>15
<1>13. ASSUME NEW claim \in NorthlakeClaims
       PROVE  /\ claim \in DOMAIN claims <=>
                   /\ "northlake" \in c.scopes /\ claim \in in.env.oidcClaims
                   /\ Valued(ExpectedAttributes(in, u), {claim})
              /\ claim \in DOMAIN claims =>
                   claims[claim] = ExpectedAttributes(in, u)[claim]
  <2>1. claim \in DOMAIN claims <=> claim \in DOMAIN northlake
    BY <1>7, <1>8
  <2>2. claim \in DOMAIN northlake =>
          claims[claim] = northlake[claim] /\ northlake[claim] = ExpectedAttributes(in, u)[claim]
    BY <1>5, <1>6, <1>7, <1>8
  <2> QED
    BY <1>3, <1>14, <2>1, <2>2
<1> QED
  BY <1>7, <1>10, <1>11, <1>12, <1>13 DEF claims

-----------------------------------------------------------------------------
(* The verifiers: a client of the realm and its connection profile, built  *)
(* from one input by different code, agree.                                *)

ModernOf(in) ==
  LET s == OidcFromEnvironment(in.oidc)
  IN OidcClient(s.modern, TRUE, s.consent, s.par)
LegacyOf(in) ==
  OidcClient(OidcFromEnvironment(in.oidc).legacy, FALSE, FALSE, "Disable")

\* the modern client and its connection profile
LEMMA ModernAgrees ==
  ASSUME NEW in, Generatable(in), in.env.oidc
  PROVE  LET profile == Connection(in).clients["modern"]
             client == ModernOf(in)
         IN /\ "modern" \in DOMAIN Connection(in).clients
            /\ client \in Realm(in).clients
            /\ client.protocol = "openid-connect" /\ ~client.implicit /\ client.pkce
            /\ client.clientId = profile.clientId
            /\ client.redirectUris = profile.redirectUris /\ client.redirectUris # {}
            /\ client.logoutUris = profile.logoutUris /\ client.logoutUris # {}
            /\ client.scopes = DefaultScopes(profile.scope)
            /\ client.consent = profile.consent
            /\ client.parRequired = (profile.par = "Require")
            /\ profile.claims = in.env.oidcClaims
<1> DEFINE s == OidcFromEnvironment(in.oidc)
           profile == Connection(in).clients["modern"]
<1>1. s.modern.redirects # {} /\ s.modern.logouts # {}
  BY DEF Generatable, OidcAccepted
<1>2. /\ "modern" \in DOMAIN OidcConnection(in)
      /\ OidcConnection(in)["modern"] =
           [protocol |-> "openid-connect", profile |-> "Modern",
            clientId |-> s.modern.client, scope |-> s.modern.scopes,
            redirectUris |-> s.modern.redirects, logoutUris |-> s.modern.logouts,
            par |-> s.par, mode |-> s.mode, consent |-> s.consent,
            claims |-> in.env.oidcClaims]
  BY DEF OidcConnection
<1>3. Connection(in).clients = Joined(OidcConnection(in), SamlConnection(in))
  BY DEF Connection
<1>4. "modern" \in DOMAIN Connection(in).clients /\ profile = OidcConnection(in)["modern"]
  BY <1>2, <1>3 DEF Joined
<1>5. ModernOf(in) \in Realm(in).clients
  BY DEF Realm, OidcClients, ModernOf
<1>6. ModernOf(in) =
        [protocol |-> "openid-connect", clientId |-> s.modern.client,
         redirectUris |-> s.modern.redirects, logoutUris |-> s.modern.logouts,
         scopes |-> DefaultScopes(s.modern.scopes), implicit |-> FALSE,
         pkce |-> TRUE, consent |-> s.consent, parRequired |-> s.par = "Require"]
  BY DEF ModernOf, OidcClient
<1> HIDE DEF s, profile
<1> QED
  BY <1>1, <1>2, <1>4, <1>5, <1>6 DEF profile

\* the legacy client and its connection profile
LEMMA LegacyAgrees ==
  ASSUME NEW in, Generatable(in), in.env.oidc, "legacy" \in DOMAIN Connection(in).clients
  PROVE  LET profile == Connection(in).clients["legacy"]
             client == LegacyOf(in)
         IN /\ client \in Realm(in).clients
            /\ client.protocol = "openid-connect" /\ client.implicit
            /\ ~client.consent /\ ~client.parRequired
            /\ client.clientId = profile.clientId
            /\ client.redirectUris = profile.redirectUris /\ client.redirectUris # {}
            /\ client.logoutUris = profile.logoutUris /\ client.logoutUris # {}
<1> DEFINE s == OidcFromEnvironment(in.oidc)
           profile == Connection(in).clients["legacy"]
<1>1. Connection(in).clients = Joined(OidcConnection(in), SamlConnection(in))
  BY DEF Connection
<1>2. "legacy" \notin DOMAIN SamlConnection(in)
  <2>1. DOMAIN SamlConnection(in) = {ConnectionName(p) : p \in DOMAIN SamlProfilesOf(in)}
    BY DEF SamlConnection
  <2>2. DOMAIN SamlProfilesOf(in) \subseteq Profiles
    BY DEF SamlProfilesOf
  <2> QED
    BY <2>1, <2>2, ConnectionNames
<1>3. "legacy" \in DOMAIN OidcConnection(in) /\ profile = OidcConnection(in)["legacy"]
  BY <1>1, <1>2 DEF Joined
<1>4. /\ s.legacyEnabled
      /\ OidcConnection(in)["legacy"] =
           [protocol |-> "openid-connect", profile |-> "Legacy",
            clientId |-> s.legacy.client, scope |-> s.legacy.scopes,
            redirectUris |-> s.legacy.redirects, logoutUris |-> s.legacy.logouts,
            par |-> "Disable", mode |-> s.mode, consent |-> FALSE, claims |-> {}]
  BY <1>3 DEF OidcConnection
<1>5. s.legacy.redirects # {} /\ s.legacy.logouts # {}
  BY <1>4 DEF Generatable, OidcAccepted
<1>6. LegacyOf(in) \in Realm(in).clients
  BY <1>4 DEF Realm, OidcClients, LegacyOf
<1>7. LegacyOf(in) =
        [protocol |-> "openid-connect", clientId |-> s.legacy.client,
         redirectUris |-> s.legacy.redirects, logoutUris |-> s.legacy.logouts,
         scopes |-> DefaultScopes(s.legacy.scopes), implicit |-> TRUE,
         pkce |-> FALSE, consent |-> FALSE, parRequired |-> FALSE]
  BY DEF LegacyOf, OidcClient
<1> HIDE DEF s, profile
<1> QED
  BY <1>3, <1>4, <1>5, <1>6, <1>7 DEF profile

\* a connection profile is of one of the four kinds
LEMMA ConnectionKinds ==
  ASSUME NEW in
  PROVE  /\ DOMAIN Connection(in).clients \subseteq {"modern", "legacy", "saml", "saml2Int"}
         /\ "modern" \in DOMAIN Connection(in).clients => in.env.oidc
         /\ "legacy" \in DOMAIN Connection(in).clients => in.env.oidc
         /\ \A p \in Profiles : ConnectionName(p) \in DOMAIN Connection(in).clients =>
              p \in DOMAIN SamlProfilesOf(in)
<1>1. Connection(in).clients = Joined(OidcConnection(in), SamlConnection(in))
  BY DEF Connection
<1>2. DOMAIN SamlConnection(in) = {ConnectionName(p) : p \in DOMAIN SamlProfilesOf(in)}
  BY DEF SamlConnection
<1>3. DOMAIN SamlProfilesOf(in) \subseteq Profiles
  BY DEF SamlProfilesOf
<1>4. /\ DOMAIN OidcConnection(in) \subseteq {"modern", "legacy"}
      /\ ~in.env.oidc => DOMAIN OidcConnection(in) = {}
  BY DEF OidcConnection
<1>5. DOMAIN Connection(in).clients = DOMAIN OidcConnection(in) \cup DOMAIN SamlConnection(in)
  BY <1>1 DEF Joined
<1> QED
  BY <1>2, <1>3, <1>4, <1>5, ConnectionNames DEF ConnectionName

SamlOf(in, p) ==
  LET profile == SamlProfilesOf(in)[p] IN
  [protocol |-> "saml", clientId |-> profile.entity, redirectUris |-> profile.acs,
   logoutUris |-> IF profile.slo THEN profile.logout ELSE {},
   signedAssertion |-> p = "Standard", signedRequest |-> p = "Saml2Int",
   certificate |-> IF p = "Saml2Int" THEN in.certificate ELSE "none",
   urlName |-> profile.key,
   mappers |-> [c \in profile.claims |-> SamlMapper(c)]]

\* a SAML profile of an input that generates was accepted a second time, after
\* its way through the environment
LEMMA ReadProfile ==
  ASSUME NEW in, Generatable(in), in.saml \in SamlDocuments,
         NEW p \in DOMAIN SamlProfilesOf(in)
  PROVE  LET profile == SamlProfilesOf(in)[p] IN
         /\ p \in Profiles /\ in.env.saml
         /\ profile = SamlFromEnvironment(in.saml)[p] /\ profile.enabled
         /\ SamlProfileAccepted(profile) /\ profile.contexts # {}
<1> DEFINE read == SamlFromEnvironment(in.saml)
<1>1. p \in Profiles /\ in.env.saml /\ read[p].enabled /\ SamlProfilesOf(in)[p] = read[p]
  BY DEF SamlProfilesOf
<1>2. SamlProfileAccepted(read[p])
  BY <1>1 DEF Generatable, SamlAccepted, Profiles
<1>3. PICK default : read[p] = ProfileFromEnvironment(in.saml[p], default)
  BY <1>1 DEF SamlFromEnvironment
<1>4. in.saml[p] = SamlFields(in.saml[p])
  BY <1>1, LabAssumption
<1>5. read[p].contexts # {}
  BY <1>3, <1>4, ProfileTravels
<1> HIDE DEF read
<1> QED
  BY <1>1, <1>2, <1>5 DEF read

\* what the client of a SAML profile and its connection profile agree on
SamlAgreement(in, p, client, profile) ==
  /\ client \in Realm(in).clients /\ client.protocol = "saml"
  /\ client.clientId = profile.clientId
  /\ client.redirectUris = profile.redirectUris /\ client.redirectUris # {}
  /\ client.urlName = profile.key
  /\ profile.slo => client.logoutUris = profile.logoutUris /\ client.logoutUris # {}
  /\ client.signedAssertion = (p = "Standard")
  /\ client.signedRequest = (p = "Saml2Int")
  /\ client.mappers = [claim \in profile.claims |-> SamlMapper(claim)]
  /\ client.certificate = profile.thumbprint
  /\ p = "Saml2Int" => client.certificate = "current"
  /\ profile.claims \subseteq KnownSamlClaims /\ profile.contexts # {}
  /\ profile.binding = "Attribute" => profile.subject \in profile.claims
  /\ \A u : /\ RealmUser(in, u).nameId[client.clientId]
                 = StableId(in.env.namespace, "saml-nameid", u)
            /\ RealmUser(in, u).subjectId[client.clientId]
                 = StableId(in.env.namespace, "saml-subject-id", u)

\* the client of a SAML profile and its connection profile
LEMMA SamlAgrees ==
  ASSUME NEW in, Generatable(in), in.saml \in SamlDocuments,
         NEW p \in DOMAIN SamlProfilesOf(in)
  PROVE  SamlAgreement(in, p, SamlOf(in, p), Connection(in).clients[ConnectionName(p)])
<1> DEFINE profile == SamlProfilesOf(in)[p]
           client == SamlOf(in, p)
           shown == Connection(in).clients[ConnectionName(p)]
<1>1. /\ profile.enabled /\ profile.contexts # {}
      /\ profile.acs # {}
      /\ profile.slo => profile.logout # {}
      /\ profile.claims \subseteq KnownSamlClaims
      /\ profile.binding = "Attribute" => profile.subject \in profile.claims
  <2>1. profile.enabled /\ profile.contexts # {} /\ SamlProfileAccepted(profile)
    BY ReadProfile
  <2> HIDE DEF profile
  <2> QED
    BY <2>1 DEF SamlProfileAccepted
<1>2. /\ shown.key = profile.key /\ shown.clientId = profile.entity
      /\ shown.slo = profile.slo /\ shown.redirectUris = profile.acs
      /\ shown.logoutUris = profile.logout /\ shown.binding = profile.binding
      /\ shown.subject = profile.subject /\ shown.claims = profile.claims
      /\ shown.contexts = profile.contexts
      /\ shown.thumbprint = (IF p = "Saml2Int" THEN in.certificate ELSE "none")
  BY SamlConnectionOf
<1>3. client =
        [protocol |-> "saml", clientId |-> profile.entity, redirectUris |-> profile.acs,
         logoutUris |-> IF profile.slo THEN profile.logout ELSE {},
         signedAssertion |-> p = "Standard", signedRequest |-> p = "Saml2Int",
         certificate |-> IF p = "Saml2Int" THEN in.certificate ELSE "none",
         urlName |-> profile.key,
         mappers |-> [c \in profile.claims |-> SamlMapper(c)]]
  BY DEF SamlOf
<1>4. client \in Realm(in).clients
  <2>1. client \in SamlClients(in)
    BY DEF SamlClients, SamlOf
  <2> QED
    BY <2>1 DEF Realm
<1>5. p = "Saml2Int" => in.certificate = "current"
  BY DEF Generatable, CertificateUsable
<1>6. \A u : /\ RealmUser(in, u).nameId[profile.entity]
                  = StableId(in.env.namespace, "saml-nameid", u)
             /\ RealmUser(in, u).subjectId[profile.entity]
                  = StableId(in.env.namespace, "saml-subject-id", u)
  BY DEF RealmUser
<1> HIDE DEF profile, client, shown
<1>7. /\ client.clientId = profile.entity /\ client.protocol = "saml"
      /\ client.redirectUris = profile.acs /\ client.urlName = profile.key
      /\ profile.slo => client.logoutUris = profile.logout
      /\ client.signedAssertion = (p = "Standard")
      /\ client.signedRequest = (p = "Saml2Int")
      /\ client.certificate = IF p = "Saml2Int" THEN in.certificate ELSE "none"
      /\ client.mappers = [c \in profile.claims |-> SamlMapper(c)]
  BY <1>3
<1>8. \A u : /\ RealmUser(in, u).nameId[client.clientId]
                  = StableId(in.env.namespace, "saml-nameid", u)
             /\ RealmUser(in, u).subjectId[client.clientId]
                  = StableId(in.env.namespace, "saml-subject-id", u)
  BY <1>6, <1>7
<1>9. /\ client.clientId = shown.clientId /\ client.redirectUris = shown.redirectUris
      /\ client.redirectUris # {} /\ client.urlName = shown.key
      /\ shown.slo => client.logoutUris = shown.logoutUris /\ client.logoutUris # {}
      /\ client.certificate = shown.thumbprint
      /\ p = "Saml2Int" => client.certificate = "current"
  BY <1>1, <1>2, <1>5, <1>7
<1>10. client.mappers = [claim \in shown.claims |-> SamlMapper(claim)]
  BY <1>2, <1>7
<1>11. /\ shown.claims \subseteq KnownSamlClaims /\ shown.contexts # {}
       /\ shown.binding = "Attribute" => shown.subject \in shown.claims
  BY <1>1, <1>2
<1> QED
  BY <1>4, <1>7, <1>8, <1>9, <1>10, <1>11 DEF client, shown, SamlAgreement

\* the values a mapper of the generator finds
LEMMA MapperKinds ==
  ASSUME NEW r, NEW c, NEW u, NEW claim \in KnownSamlClaims,
         c.mappers[claim] = SamlMapper(claim)
  PROVE  LET user == r.users[u]
             found == Mapped(r, c, u, claim)
         IN /\ claim = "username" => found = {user["username"]}
            /\ claim = "email" => found = {user["email"]}
            /\ claim = "given_name" => found = {user["firstName"]}
            /\ claim = "family_name" => found = {user["lastName"]}
            /\ claim = "groups" => found = user.groups
            /\ claim = "realm_roles" =>
                 found = {DefaultRole} \cup UNION {r.groups[g].roles : g \in user.groups}
            /\ claim = "subject-id" => found = {user.subjectId[c.clientId]}
            /\ claim \in {"synthetic_user_id", "primary_company_id", "synthetic_status",
                          "eem_company_ids", "eem_permission_profiles"} =>
                 found = Values(claim, user.attributes[claim])
<1> DEFINE user == r.users[u]
           roles == {DefaultRole} \cup UNION {r.groups[g].roles : g \in user.groups}
           id == {user.subjectId[c.clientId]}
           kind == SamlMapper(claim)[1]
           source == SamlMapper(claim)[2]
           found == Mapped(r, c, u, claim)
<1>1. found = CASE kind = "property" -> {user[source]}
                [] kind = "groups" -> user.groups
                [] kind = "roles" -> roles
                [] kind = "subject-id" -> id
                [] OTHER -> Values(source, user.attributes[source])
  BY DEF Mapped
<1> HIDE DEF user, roles, id, found
<1>2. ASSUME NEW a, NEW b, SamlMapper(claim) = <<a, b>>
      PROVE  kind = a /\ source = b
  BY <1>2
<1>3. ASSUME NEW name, SamlMapper(claim) = <<"property", name>>
      PROVE  found = {user[name]}
  <2>1. kind = "property" /\ source = name
    BY <1>2, <1>3
  <2> QED
    BY <1>1, <2>1
<1>4. ASSUME NEW name, SamlMapper(claim) = <<"attribute", name>>
      PROVE  found = Values(name, user.attributes[name])
  <2>1. kind = "attribute" /\ source = name
    BY <1>2, <1>4
  <2> QED
    BY <1>1, <2>1
<1>5. ASSUME SamlMapper(claim) = <<"groups", "">> PROVE found = user.groups
  <2>1. kind = "groups" /\ source = ""
    BY <1>2, <1>5
  <2> HIDE DEF kind, source
  <2> QED
    BY <1>1, <2>1
<1>6. ASSUME SamlMapper(claim) = <<"roles", "">> PROVE found = roles
  <2>1. kind = "roles" /\ source = ""
    BY <1>2, <1>6
  <2> HIDE DEF kind, source
  <2> QED
    BY <1>1, <2>1
<1>7. ASSUME SamlMapper(claim) = <<"subject-id", "">> PROVE found = id
  <2>1. kind = "subject-id" /\ source = ""
    BY <1>2, <1>7
  <2> HIDE DEF kind, source
  <2> QED
    BY <1>1, <2>1
<1>8. /\ claim = "username" => SamlMapper(claim) = <<"property", "username">>
      /\ claim = "email" => SamlMapper(claim) = <<"property", "email">>
      /\ claim = "given_name" => SamlMapper(claim) = <<"property", "firstName">>
      /\ claim = "family_name" => SamlMapper(claim) = <<"property", "lastName">>
      /\ claim = "groups" => SamlMapper(claim) = <<"groups", "">>
      /\ claim = "realm_roles" => SamlMapper(claim) = <<"roles", "">>
      /\ claim = "subject-id" => SamlMapper(claim) = <<"subject-id", "">>
      /\ claim \in {"synthetic_user_id", "primary_company_id", "synthetic_status",
                    "eem_company_ids", "eem_permission_profiles"} =>
           SamlMapper(claim) = <<"attribute", claim>>
  BY DEF SamlMapper
<1> HIDE DEF kind, source
<1>9. /\ claim = "username" => found = {user["username"]}
      /\ claim = "email" => found = {user["email"]}
      /\ claim = "given_name" => found = {user["firstName"]}
      /\ claim = "family_name" => found = {user["lastName"]}
      /\ claim = "groups" => found = user.groups
      /\ claim = "realm_roles" => found = roles
      /\ claim = "subject-id" => found = id
      /\ claim \in {"synthetic_user_id", "primary_company_id", "synthetic_status",
                    "eem_company_ids", "eem_permission_profiles"} =>
           found = Values(claim, user.attributes[claim])
  BY <1>3, <1>4, <1>5, <1>6, <1>7, <1>8
<1> QED
  BY <1>9 DEF found, user, roles, id

\* an attribute of an assertion has the values its mapper finds
LEMMA AssertedValues ==
  ASSUME NEW r, NEW c, NEW u, NEW claim \in DOMAIN c.mappers
  PROVE  ValuesOf(Assertion(r, c, u), claim) = Mapped(r, c, u, claim)
<1> DEFINE emitted == Assertion(r, c, u)
           found == Mapped(r, c, u, claim)
<1>1. claim \in DOMAIN emitted <=> found # {}
  BY DEF Assertion
<1>2. claim \in DOMAIN emitted => emitted[claim] = found
  BY DEF Assertion
<1> HIDE DEF emitted, found
<1>3. ValuesOf(emitted, claim) = found
  BY <1>1, <1>2 DEF ValuesOf
<1> QED
  BY <1>3 DEF emitted, found

\* the assertion of a generated client has no claim outside its allowlist, the
\* values the connection profile expects, and the roles of the groups
LEMMA AssertionOf ==
  ASSUME NEW in, Generatable(in), in.saml \in SamlDocuments,
         NEW p \in DOMAIN SamlProfilesOf(in), NEW u \in KnownUsers(in.users)
  PROVE  LET claims == Connection(in).clients[ConnectionName(p)].claims
             emitted == Assertion(Realm(in), SamlOf(in, p), u)
             expected == ExpectedAttributes(in, u)
         IN /\ DOMAIN emitted \subseteq claims
            /\ \A claim \in claims \ {"realm_roles"} :
                 /\ claim \in DOMAIN expected
                 /\ ValuesOf(emitted, claim) = Values(claim, expected[claim])
            /\ "realm_roles" \in claims =>
                 ValuesOf(emitted, "realm_roles") =
                   {DefaultRole} \cup expected["eem_permission_profiles"]
<1> DEFINE c == SamlOf(in, p)
           claims == Connection(in).clients[ConnectionName(p)].claims
           emitted == Assertion(Realm(in), c, u)
           expected == ExpectedAttributes(in, u)
           user == RealmUser(in, u)
<1>1. /\ claims \subseteq KnownSamlClaims
      /\ c.mappers = [claim \in claims |-> SamlMapper(claim)]
      /\ user.subjectId[c.clientId] = StableId(in.env.namespace, "saml-subject-id", u)
  <2> DEFINE profile == Connection(in).clients[ConnectionName(p)]
  <2>1. SamlAgreement(in, p, c, profile)
    BY SamlAgrees
  <2> HIDE DEF c, profile
  <2> QED
    BY <2>1 DEF SamlAgreement, profile
<1>2. Realm(in).users[u] = user
  BY GeneratedUser
<1>3. UNION {Realm(in).groups[g].roles : g \in user.groups} = UserProfiles(in, u)
  <2>1. user.groups = UserGroups(in, u) /\ UserGroups(in, u) \subseteq DOMAIN EffectiveGroups(in.groups)
    BY RealmUserFields DEF UserGroups
  <2>2. Realm(in).groups = RealmGroups(in)
    BY DEF Realm
  <2>3. \A g \in DOMAIN EffectiveGroups(in.groups) :
          RealmGroups(in)[g].roles = EffectiveGroups(in.groups)[g].profiles
    BY DEF RealmGroups
  <2> HIDE DEF user
  <2> QED
    BY <2>1, <2>2, <2>3 DEF UserProfiles
<1>4. DOMAIN emitted \subseteq claims
  <2> HIDE DEF c, claims
  <2>1. DOMAIN c.mappers = claims
    BY <1>1
  <2> QED
    BY <2>1 DEF Assertion
<1>5. ASSUME NEW claim \in claims
      PROVE  /\ claim # "realm_roles" =>
                  /\ claim \in DOMAIN expected
                  /\ ValuesOf(emitted, claim) = Values(claim, expected[claim])
             /\ claim = "realm_roles" =>
                  ValuesOf(emitted, claim) = {DefaultRole} \cup expected["eem_permission_profiles"]
  <2> DEFINE r == Realm(in)
             found == Mapped(r, c, u, claim)
  <2>1. claim \in KnownSamlClaims /\ claim \in DOMAIN c.mappers
        /\ c.mappers[claim] = SamlMapper(claim)
    <3> HIDE DEF c, claims
    <3> QED
      BY <1>1
  <2>2. ValuesOf(emitted, claim) = found
    <3> HIDE DEF c, r
    <3>1. ValuesOf(Assertion(r, c, u), claim) = Mapped(r, c, u, claim)
      BY <2>1, AssertedValues
    <3> QED
      BY <3>1 DEF r
  <2>3. /\ claim = "username" => found = {user["username"]}
        /\ claim = "email" => found = {user["email"]}
        /\ claim = "given_name" => found = {user["firstName"]}
        /\ claim = "family_name" => found = {user["lastName"]}
        /\ claim = "groups" => found = user.groups
        /\ claim = "realm_roles" => found = {DefaultRole} \cup UserProfiles(in, u)
        /\ claim = "subject-id" => found = {StableId(in.env.namespace, "saml-subject-id", u)}
        /\ claim \in {"synthetic_user_id", "primary_company_id", "synthetic_status",
                      "eem_company_ids", "eem_permission_profiles"} =>
             found = Values(claim, user.attributes[claim])
    <3>1. found = Mapped(r, c, u, claim)
      OBVIOUS
    <3> HIDE DEF c, user, found, r
    <3>2. LET shown == r.users[u] IN
          /\ claim = "username" => Mapped(r, c, u, claim) = {shown["username"]}
          /\ claim = "email" => Mapped(r, c, u, claim) = {shown["email"]}
          /\ claim = "given_name" => Mapped(r, c, u, claim) = {shown["firstName"]}
          /\ claim = "family_name" => Mapped(r, c, u, claim) = {shown["lastName"]}
          /\ claim = "groups" => Mapped(r, c, u, claim) = shown.groups
          /\ claim = "realm_roles" =>
               Mapped(r, c, u, claim) =
                 {DefaultRole} \cup UNION {r.groups[g].roles : g \in shown.groups}
          /\ claim = "subject-id" => Mapped(r, c, u, claim) = {shown.subjectId[c.clientId]}
          /\ claim \in {"synthetic_user_id", "primary_company_id", "synthetic_status",
                        "eem_company_ids", "eem_permission_profiles"} =>
               Mapped(r, c, u, claim) = Values(claim, shown.attributes[claim])
      BY <2>1, MapperKinds
    <3>3. /\ r.users[u] = user
          /\ UNION {r.groups[g].roles : g \in user.groups} = UserProfiles(in, u)
          /\ user.subjectId[c.clientId] = StableId(in.env.namespace, "saml-subject-id", u)
      BY <1>1, <1>2, <1>3 DEF r
    <3> QED
      BY <3>1, <3>2, <3>3
  <2> HIDE DEF emitted, found
  <2>4. claim = "realm_roles" => found = {DefaultRole} \cup expected["eem_permission_profiles"]
    BY <2>3, ExpectedOf
  <2>5. claim # "realm_roles" => claim \in DOMAIN expected
    BY <2>1, ExpectedOf
  <2>6. claim \in {"username", "email", "given_name", "family_name"} =>
          found = {expected[claim]}
    BY <2>3, ExpectedOf, RealmUserFields
  <2>7. /\ claim = "groups" => found = expected[claim]
        /\ claim = "subject-id" => found = {expected[claim]}
    BY <2>3, ExpectedOf, RealmUserFields
  <2>8. claim \in {"synthetic_user_id", "primary_company_id", "synthetic_status",
                   "eem_company_ids", "eem_permission_profiles"} =>
          found = Values(claim, expected[claim])
    BY <2>3, ExpectedOf, RealmUserFields
  <2> HIDE DEF expected
  <2>9. claim \notin MultiValued => Values(claim, expected[claim]) = {expected[claim]}
    BY DEF Values
  <2>10. claim = "groups" => Values(claim, expected[claim]) = expected[claim]
    BY DEF Values, MultiValued
  <2>11. claim \in {"username", "email", "given_name", "family_name", "subject-id"} =>
           claim \notin MultiValued
    BY DEF MultiValued
  <2>12. claim # "realm_roles" => found = Values(claim, expected[claim])
    BY <2>1, <2>6, <2>7, <2>8, <2>9, <2>10, <2>11 DEF KnownSamlClaims
  <2> QED
    BY <2>2, <2>4, <2>5, <2>12
<1> HIDE DEF c, claims, emitted, expected
<1> QED
  BY <1>4, <1>5 DEF c, claims, emitted, expected

-----------------------------------------------------------------------------
(* The verifiers: the logins of the test users.                            *)

\* an input that was generated from, and one whose realm can be served
Sound(in) ==
  /\ GenerationOutcome(in) = "generated" /\ in.saml \in SamlDocuments
  /\ IsFiniteSet(DOMAIN in.groups.local)
Servable(in) == Sound(in) /\ DistinctClients(in)

\* what an input of a served realm satisfies
LEMMA ServableGenerates ==
  ASSUME NEW in, Servable(in)
  PROVE  /\ GenerationOutcome(in) = "generated" /\ Generatable(in)
         /\ UsersMerge(in.users) /\ in.saml \in SamlDocuments /\ DistinctClients(in)
         /\ in.env.oidcClaims \subseteq NorthlakeClaims
BY DEF Servable, Sound, GenerationOutcome, Generatable, EnvironmentAccepted

\* a name and a password that log one user in
LogsIn(in, name, word, u) == Authenticated(Realm(in), name, word) = {u}

\* the active test user logs in with the password, the disabled one with none
LEMMA TestLogins ==
  ASSUME NEW in, Servable(in)
  PROVE  LET conn == Connection(in) IN
         \E a, d \in KnownUsers(in.users) :
           /\ EffectiveUser(in.users, a).enabled = TRUE
           /\ EffectiveUser(in.users, d).enabled = FALSE
           /\ conn.active = TestUser(in, a) /\ conn.disabled = TestUser(in, d)
           /\ conn.active.username = EffectiveUser(in.users, a).username
           /\ conn.disabled.username = EffectiveUser(in.users, d).username
           /\ conn.active.subject = Subject(in, a)
           /\ conn.active.nameId = StableId(in.env.namespace, "saml-nameid", a)
           /\ conn.active.expected = ExpectedAttributes(in, a)
           /\ LogsIn(in, conn.active.username, conn.password, a)
           /\ \A word : Authenticated(Realm(in), conn.disabled.username, word) = {}
<1> DEFINE conn == Connection(in)
<1>1. UsersMerge(in.users) /\ GenerationOutcome(in) = "generated"
  BY ServableGenerates
<1>2. PICK a, d \in KnownUsers(in.users) :
        /\ EffectiveUser(in.users, a).enabled = TRUE
        /\ EffectiveUser(in.users, d).enabled = FALSE
        /\ conn.active = TestUser(in, a) /\ conn.disabled = TestUser(in, d)
        /\ conn.password = EffectiveUser(in.users, a).password
  BY <1>1, TestUsersOf
<1> HIDE DEF conn
<1>3. /\ conn.active.username = EffectiveUser(in.users, a).username
      /\ conn.disabled.username = EffectiveUser(in.users, d).username
      /\ conn.active.subject = Subject(in, a)
      /\ conn.active.nameId = StableId(in.env.namespace, "saml-nameid", a)
      /\ conn.active.expected = ExpectedAttributes(in, a)
  BY <1>2 DEF TestUser
<1>4. LogsIn(in, conn.active.username, conn.password, a)
  BY <1>1, <1>2, <1>3, LoginOf DEF LogsIn
<1>5. \A word : Authenticated(Realm(in), conn.disabled.username, word) = {}
  BY <1>1, <1>2, <1>3, LoginOf
<1> QED
  BY <1>2, <1>3, <1>4, <1>5 DEF conn

\* a profile with the id and the redirects of a client of the realm
Matched(in, c, profile) ==
  /\ DistinctClients(in) /\ c \in Realm(in).clients /\ c.redirectUris # {}
  /\ profile.clientId = c.clientId /\ profile.redirectUris = c.redirectUris
\* one login
Only(logins, c, u) == logins = {[client |-> c, user |-> u]}

\* such a profile finds its client and no other
LEMMA MatchedClient ==
  ASSUME NEW in, NEW c, NEW profile, Matched(in, c, profile)
  PROVE  /\ ClientsOf(Realm(in), profile.clientId) = {c}
         /\ First(profile.redirectUris) \in c.redirectUris
         /\ RefusesUnregistered(Realm(in), profile) <=>
              Unregistered \notin profile.redirectUris
<1>1. ClientsOf(Realm(in), profile.clientId) = {c}
  BY OneClient DEF Matched
<1>2. First(profile.redirectUris) \in c.redirectUris
  BY FirstOf DEF Matched
<1> QED
  BY <1>1, <1>2 DEF RefusesUnregistered, Matched

\* who can authenticate reaches that client
LEMMA ClientLogins ==
  ASSUME NEW in, NEW c, NEW profile, Matched(in, c, profile),
         NEW name, NEW word, NEW u, LogsIn(in, name, word, u)
  PROVE  Only(LoginsAt(Realm(in), profile, name, word, c.protocol), c, u)
<1> DEFINE r == Realm(in)
<1>1. {d \in ClientsOf(r, profile.clientId) :
         /\ d.protocol = c.protocol
         /\ First(profile.redirectUris) \in d.redirectUris} = {c}
  <2>1. ClientsOf(r, profile.clientId) = {c}
    BY MatchedClient
  <2>2. First(profile.redirectUris) \in c.redirectUris
    BY MatchedClient
  <2> HIDE DEF r
  <2> QED
    BY <2>1, <2>2
<1>2. LoginsAt(r, profile, name, word, c.protocol) = [client : {c}, user : {u}]
  BY <1>1 DEF LoginsAt, LogsIn
<1>3. [client |-> c, user |-> u] \in [client : {c}, user : {u}]
  OBVIOUS
<1>4. \A login \in [client : {c}, user : {u}] : login = [client |-> c, user |-> u]
  OBVIOUS
<1>5. [client : {c}, user : {u}] = {[client |-> c, user |-> u]}
  BY <1>3, <1>4
<1> QED
  BY <1>2, <1>5 DEF Only

\* the same of a login that an authorization request precedes
LEMMA OidcLoginsOf ==
  ASSUME NEW in, NEW c, NEW profile, Matched(in, c, profile),
         c.protocol = "openid-connect",
         NEW name, NEW word, NEW u, LogsIn(in, name, word, u)
  PROVE  \A pushed : (c.parRequired => pushed) =>
           Only(OidcLogins(Realm(in), profile, name, word, pushed), c, u)
<1> SUFFICES ASSUME NEW pushed, c.parRequired => pushed
             PROVE  Only(OidcLogins(Realm(in), profile, name, word, pushed), c, u)
  OBVIOUS
<1>1. Only(LoginsAt(Realm(in), profile, name, word, "openid-connect"), c, u)
  BY ClientLogins
<1>2. [client |-> c, user |-> u].client = c
  OBVIOUS
<1> QED
  BY <1>1, <1>2 DEF OidcLogins, Only

\* a scope that is put on a client is one of its connection profile
LEMMA DefaultScopesOf ==
  \A scopes, scope : scope \in {"profile", "email", "northlake"} =>
    (scope \in DefaultScopes(scopes) <=> scope \in scopes)
BY DEF DefaultScopes

\* what a login of the modern client yields
LEMMA ModernClaims ==
  ASSUME NEW in, Servable(in), in.env.oidc, NEW u \in KnownUsers(in.users)
  PROVE  LET modern == Connection(in).clients["modern"]
             claims == OidcClaims(Realm(in), ModernOf(in), u)
         IN /\ claims["sub"] = Subject(in, u)
            /\ "preferred_username" \in DOMAIN claims <=> "profile" \in modern.scope
            /\ "profile" \in modern.scope =>
                 claims["preferred_username"] = EffectiveUser(in.users, u).username
            /\ "email" \in DOMAIN claims <=> "email" \in modern.scope
            /\ modern.claims \subseteq NorthlakeClaims
            /\ \A claim \in NorthlakeClaims :
                 /\ claim \in DOMAIN claims <=>
                      /\ "northlake" \in modern.scope /\ claim \in modern.claims
                      /\ Valued(ExpectedAttributes(in, u), {claim})
                 /\ claim \in DOMAIN claims =>
                      claims[claim] = ExpectedAttributes(in, u)[claim]
<1> DEFINE modern == Connection(in).clients["modern"]
           c == ModernOf(in)
           claims == OidcClaims(Realm(in), c, u)
<1>1. c.scopes = DefaultScopes(modern.scope) /\ modern.claims = in.env.oidcClaims
  BY ModernAgrees, ServableGenerates
<1>2. in.env.oidcClaims \subseteq NorthlakeClaims
  BY ServableGenerates
<1> HIDE DEF modern, c
<1>3. /\ claims["sub"] = Subject(in, u)
      /\ "preferred_username" \in DOMAIN claims <=> "profile" \in c.scopes
      /\ "profile" \in c.scopes =>
           claims["preferred_username"] = EffectiveUser(in.users, u).username
      /\ "email" \in DOMAIN claims <=> "email" \in c.scopes
      /\ \A claim \in NorthlakeClaims :
           /\ claim \in DOMAIN claims <=>
                /\ "northlake" \in c.scopes /\ claim \in in.env.oidcClaims
                /\ Valued(ExpectedAttributes(in, u), {claim})
           /\ claim \in DOMAIN claims =>
                claims[claim] = ExpectedAttributes(in, u)[claim]
  BY <1>2, ClaimsOfLogin
<1> HIDE DEF claims
<1> QED
  BY <1>1, <1>2, <1>3, DefaultScopesOf DEF modern, c, claims

-----------------------------------------------------------------------------
(* The verifiers: the OIDC verdicts.                                       *)

\* the modern login passes exactly with these settings
LEMMA ModernVerdictOf ==
  ASSUME NEW in, Servable(in), in.env.oidc
  PROVE  LET conn == Connection(in)
             modern == conn.clients["modern"]
         IN ModernVerdict(Realm(in), conn) <=>
              /\ "profile" \in modern.scope
              /\ "northlake" \in modern.scope =>
                   "groups" \in modern.claims /\ Valued(conn.active.expected, {"groups"})
<1> DEFINE r == Realm(in)
           conn == Connection(in)
           modern == conn.clients["modern"]
           c == ModernOf(in)
           pushed == modern.par # "Disable"
<1>1. PICK a \in KnownUsers(in.users) :
        /\ conn.active.username = EffectiveUser(in.users, a).username
        /\ conn.active.subject = Subject(in, a)
        /\ conn.active.expected = ExpectedAttributes(in, a)
        /\ LogsIn(in, conn.active.username, conn.password, a)
  BY TestLogins
<1>2. /\ c \in r.clients /\ c.protocol = "openid-connect"
      /\ c.clientId = modern.clientId
      /\ c.redirectUris = modern.redirectUris /\ c.redirectUris # {}
      /\ c.logoutUris = modern.logoutUris /\ c.logoutUris # {}
      /\ c.consent = modern.consent /\ c.parRequired = (modern.par = "Require")
  BY ModernAgrees, ServableGenerates
<1>3. r.lifetime = conn.lifetime
  BY DEF Realm, Connection
<1>4. LET claims == OidcClaims(r, c, a) IN
        /\ claims["sub"] = Subject(in, a)
        /\ "preferred_username" \in DOMAIN claims <=> "profile" \in modern.scope
        /\ "profile" \in modern.scope =>
             claims["preferred_username"] = EffectiveUser(in.users, a).username
        /\ "groups" \in DOMAIN claims <=>
             /\ "northlake" \in modern.scope /\ "groups" \in modern.claims
             /\ Valued(ExpectedAttributes(in, a), {"groups"})
  <2>1. "groups" \in NorthlakeClaims
    BY DEF NorthlakeClaims
  <2> QED
    BY <2>1, ModernClaims
<1>5. DistinctClients(in)
  BY ServableGenerates
<1> HIDE DEF conn, modern, c
<1>6. Only(OidcLogins(r, modern, conn.active.username, conn.password, pushed), c, a)
  <2>1. c.parRequired => pushed
    BY <1>2
  <2>2. Matched(in, c, modern)
    BY <1>2, <1>5 DEF Matched
  <2> HIDE DEF pushed
  <2> QED
    BY <1>1, <1>2, <2>1, <2>2, OidcLoginsOf
<1> DEFINE login == [client |-> c, user |-> a]
<1>7. login.client = c /\ ClaimsOf(r, login) = OidcClaims(r, c, a)
  BY DEF ClaimsOf
<1>8. RpLogout(c, modern)
  BY <1>2, FirstOf DEF RpLogout
<1> HIDE DEF r, login
<1>9. ModernVerdict(r, conn) <=>
        LET claims == ClaimsOf(r, login) IN
          /\ login.client.consent = modern.consent
          /\ claims["sub"] = conn.active.subject
          /\ r.lifetime = conn.lifetime
          /\ "preferred_username" \in DOMAIN claims
          /\ claims["preferred_username"] = conn.active.username
          /\ "northlake" \in modern.scope => "groups" \in DOMAIN claims
          /\ RpLogout(login.client, modern)
  BY <1>6 DEF ModernVerdict, modern, login, Only
<1>10. ModernVerdict(r, conn) <=>
         /\ "profile" \in modern.scope
         /\ "northlake" \in modern.scope =>
              "groups" \in modern.claims /\ Valued(conn.active.expected, {"groups"})
  BY <1>1, <1>2, <1>3, <1>4, <1>7, <1>8, <1>9
<1> QED
  BY <1>10 DEF r, conn, modern

\* the legacy login passes
LEMMA LegacyVerdictOf ==
  ASSUME NEW in, Servable(in), in.env.oidc
  PROVE  LegacyVerdict(Realm(in), Connection(in))
<1> DEFINE r == Realm(in)
           conn == Connection(in)
           legacy == conn.clients["legacy"]
           c == LegacyOf(in)
<1> SUFFICES ASSUME "legacy" \in DOMAIN conn.clients
             PROVE  LegacyVerdict(r, conn)
  BY DEF LegacyVerdict
<1>1. PICK a \in KnownUsers(in.users) :
        /\ conn.active.subject = Subject(in, a)
        /\ LogsIn(in, conn.active.username, conn.password, a)
  BY TestLogins
<1>2. /\ c \in r.clients /\ c.protocol = "openid-connect"
      /\ c.clientId = legacy.clientId /\ c.implicit /\ ~c.consent /\ ~c.parRequired
      /\ c.redirectUris = legacy.redirectUris /\ c.redirectUris # {}
      /\ c.logoutUris = legacy.logoutUris /\ c.logoutUris # {}
  BY LegacyAgrees, ServableGenerates
<1>3. OidcClaims(r, c, a)["sub"] = Subject(in, a)
  <2>1. in.env.oidcClaims \subseteq NorthlakeClaims
    BY ServableGenerates
  <2> HIDE DEF c
  <2> QED
    BY <2>1, ClaimsOfLogin
<1>4. DistinctClients(in)
  BY ServableGenerates
<1> HIDE DEF conn, legacy, c
<1>5. Only(OidcLogins(r, legacy, conn.active.username, conn.password, FALSE), c, a)
  <2>1. Matched(in, c, legacy)
    BY <1>2, <1>4 DEF Matched
  <2> QED
    BY <1>1, <1>2, <2>1, OidcLoginsOf
<1> DEFINE login == [client |-> c, user |-> a]
<1>6. login.client = c /\ ClaimsOf(r, login) = OidcClaims(r, c, a)
  BY DEF ClaimsOf
<1>7. RpLogout(c, legacy)
  BY <1>2, FirstOf DEF RpLogout
<1> HIDE DEF r, login
<1> QED
  BY <1>1, <1>2, <1>3, <1>5, <1>6, <1>7 DEF LegacyVerdict, legacy, login, Only

\* verify_oidc_baseline.py passes exactly with these settings
LEMMA OidcVerdictOf ==
  ASSUME NEW in, Servable(in), in.env.oidc
  PROVE  LET conn == Connection(in)
             modern == conn.clients["modern"]
         IN OidcVerdict(Realm(in), conn) <=>
              /\ "profile" \in modern.scope
              /\ "northlake" \in modern.scope =>
                   "groups" \in modern.claims /\ Valued(conn.active.expected, {"groups"})
              /\ Unregistered \notin modern.redirectUris
<1> DEFINE r == Realm(in)
           conn == Connection(in)
           modern == conn.clients["modern"]
           c == ModernOf(in)
<1>1. /\ "modern" \in DOMAIN conn.clients
      /\ c \in r.clients /\ c.clientId = modern.clientId
      /\ c.redirectUris = modern.redirectUris /\ c.redirectUris # {}
  BY ModernAgrees, ServableGenerates
<1>2. DistinctClients(in)
  BY ServableGenerates
<1>3. RefusesUnregistered(r, modern) <=> Unregistered \notin modern.redirectUris
  <2> HIDE DEF modern, c
  <2>1. Matched(in, c, modern)
    BY <1>1, <1>2 DEF Matched
  <2> QED
    BY <2>1, MatchedClient
<1>4. ModernVerdict(r, conn) <=>
        /\ "profile" \in modern.scope
        /\ "northlake" \in modern.scope =>
             "groups" \in modern.claims /\ Valued(conn.active.expected, {"groups"})
  BY ModernVerdictOf
<1>5. LegacyVerdict(r, conn)
  BY LegacyVerdictOf
<1> HIDE DEF conn, r
<1>6. OidcVerdict(r, conn) <=>
        /\ "profile" \in modern.scope
        /\ "northlake" \in modern.scope =>
             "groups" \in modern.claims /\ Valued(conn.active.expected, {"groups"})
        /\ Unregistered \notin modern.redirectUris
  BY <1>1, <1>3, <1>4, <1>5 DEF OidcVerdict
<1> QED
  BY <1>6 DEF conn, r

-----------------------------------------------------------------------------
(* The verifiers: the administrative state.                                *)

\* the users are finitely many: they are listed in an order
LEMMA UsersFinite == IsFiniteSet(UserIds)
<1> DEFINE n == Len(UserOrder)
<1>1. n \in Nat /\ UserOrder \in [1 .. n -> UserIds]
  BY OverlayAssumption
<1>2. \A u \in UserIds : \E k \in 1 .. n : UserOrder[k] = u
  BY <1>1, OverlayAssumption
<1> HIDE DEF n
<1>3. UserOrder \in Surjection(1 .. n, UserIds)
  BY <1>1, <1>2 DEF Surjection
<1>4. IsFiniteSet(1 .. n)
  BY <1>1, FS_Interval
<1> QED
  BY <1>3, <1>4, FS_Surjection

\* so are the users and the groups of a realm
LEMMA DirectoryFinite ==
  ASSUME NEW in, Servable(in)
  PROVE  /\ IsFiniteSet(KnownUsers(in.users))
         /\ IsFiniteSet(DOMAIN EffectiveGroups(in.groups))
<1>1. KnownUsers(in.users) \subseteq UserIds
  BY ServableGenerates, KnownUserIds
<1>2. IsFiniteSet(KnownUsers(in.users))
  BY <1>1, UsersFinite, FS_Subset
<1>3. DOMAIN EffectiveGroups(in.groups) = DOMAIN BaseGroups \cup DOMAIN in.groups.local
  BY DEF EffectiveGroups
<1>4. IsFiniteSet(DOMAIN BaseGroups) /\ IsFiniteSet(DOMAIN in.groups.local)
  BY OverlayAssumption DEF Servable, Sound
<1> QED
  BY <1>2, <1>3, <1>4, FS_Union

\* one call lists everything exactly when it fits on a page
LEMMA ListingsOf ==
  ASSUME NEW f, IsFiniteSet(DOMAIN f)
  PROVE  LET total == Cardinality(DOMAIN f) IN
         /\ total <= PageSize => DOMAIN f \in Listings(f)
         /\ \A listed \in Listings(f) : Cardinality(listed) = total =>
              listed = DOMAIN f /\ total <= PageSize
<1> DEFINE all == DOMAIN f
           total == Cardinality(all)
           shown == Min({PageSize, total})
<1>1. PageSize \in Nat /\ total \in Nat
  BY PageAssumption, FS_CardinalityType
<1>2. Listings(f) = {listed \in SUBSET all : Cardinality(listed) = shown}
  BY DEF Listings, kSubset
<1>3. \A listed \in SUBSET all : Cardinality(listed) = total => listed = all
  BY FS_Subset
<1> HIDE DEF total
<1>4. shown \in {PageSize, total} /\ shown <= PageSize /\ shown <= total
  <2>1. \E x \in {PageSize, total} : \A y \in {PageSize, total} : x <= y
    BY <1>1
  <2> QED
    BY <2>1, <1>1 DEF Min
<1>5. total <= PageSize => shown = total
  BY <1>1, <1>4
<1> HIDE DEF shown
<1> QED
  BY <1>1, <1>2, <1>3, <1>4, <1>5 DEF total

\* the numbers of the connection profile are those of the realm, and the two
\* test users are in it
LEMMA InventoryOf ==
  ASSUME NEW in, Servable(in)
  PROVE  LET r == Realm(in)
             conn == Connection(in)
         IN /\ Countable(conn) =>
                 \E listed \in Listings(r.users) :
                   InventoryMatches(r, listed, conn) /\ TestUsersListed(r, listed, conn)
            /\ \A listed \in Listings(r.users) :
                 InventoryMatches(r, listed, conn) => Countable(conn)
<1> DEFINE r == Realm(in)
           conn == Connection(in)
           all == EffectiveUsers(in.users)
           ids == KnownUsers(in.users)
           total == Cardinality(ids)
           groupTotal == Cardinality(DOMAIN EffectiveGroups(in.groups))
<1>1. /\ DOMAIN all = ids /\ \A u \in ids : all[u] = EffectiveUser(in.users, u)
  BY ServableGenerates, KnownUserIds
<1>2. /\ DOMAIN r.users = ids
      /\ \A u \in ids : /\ r.users[u].username = EffectiveUser(in.users, u).username
                        /\ r.users[u].enabled = EffectiveUser(in.users, u).enabled
  <2>1. DOMAIN r.users = ids
    BY DEF Realm
  <2> QED
    BY <2>1, GeneratedUser
<1>3. DOMAIN r.groups = DOMAIN EffectiveGroups(in.groups)
  BY DEF Realm, RealmGroups
<1>4. /\ conn.userInventory.total = Cardinality(DOMAIN all)
      /\ conn.userInventory.enabled = Cardinality({u \in DOMAIN all : all[u].enabled})
      /\ conn.groupInventory.total = groupTotal
  BY DEF Connection
<1>5. PICK a, d \in ids :
        /\ conn.active.username = EffectiveUser(in.users, a).username
        /\ conn.disabled.username = EffectiveUser(in.users, d).username
        /\ EffectiveUser(in.users, d).enabled = FALSE
  BY TestLogins
<1>6. IsFiniteSet(DOMAIN r.users) /\ IsFiniteSet(DOMAIN r.groups)
  BY <1>2, <1>3, DirectoryFinite
<1> HIDE DEF r, conn, all, ids
<1>7. {u \in ids : r.users[u].enabled} = {u \in DOMAIN all : all[u].enabled}
  BY <1>1, <1>2
<1>8. conn.userInventory.total = Cardinality(DOMAIN r.users)
      /\ conn.groupInventory.total = Cardinality(DOMAIN r.groups)
  BY <1>1, <1>2, <1>3, <1>4
<1>9. /\ Cardinality(DOMAIN r.users) <= PageSize => DOMAIN r.users \in Listings(r.users)
      /\ \A listed \in Listings(r.users) :
           Cardinality(listed) = Cardinality(DOMAIN r.users) =>
             Cardinality(DOMAIN r.users) <= PageSize
      /\ Cardinality(DOMAIN r.groups) <= PageSize => DOMAIN r.groups \in Listings(r.groups)
      /\ \A listed \in Listings(r.groups) :
           Cardinality(listed) = Cardinality(DOMAIN r.groups) =>
             Cardinality(DOMAIN r.groups) <= PageSize
  BY <1>6, ListingsOf
<1>10. Countable(conn) =>
         \E listed \in Listings(r.users) :
           InventoryMatches(r, listed, conn) /\ TestUsersListed(r, listed, conn)
  <2> SUFFICES ASSUME Countable(conn)
               PROVE  /\ DOMAIN r.users \in Listings(r.users)
                      /\ InventoryMatches(r, DOMAIN r.users, conn)
                      /\ TestUsersListed(r, DOMAIN r.users, conn)
    OBVIOUS
  <2>1. /\ DOMAIN r.users \in Listings(r.users) /\ DOMAIN r.groups \in Listings(r.groups)
    BY <1>8, <1>9 DEF Countable
  <2>2. InventoryMatches(r, DOMAIN r.users, conn)
    BY <1>2, <1>4, <1>7, <1>8, <2>1 DEF InventoryMatches
  <2>3. TestUsersListed(r, DOMAIN r.users, conn)
    BY <1>2, <1>5 DEF TestUsersListed
  <2> QED
    BY <2>1, <2>2, <2>3
<1>11. \A listed \in Listings(r.users) : InventoryMatches(r, listed, conn) => Countable(conn)
  BY <1>8, <1>9 DEF InventoryMatches, Countable
<1> QED
  BY <1>10, <1>11 DEF r, conn

\* every connection profile describes a client of the realm
LEMMA ShapesMatch ==
  ASSUME NEW in, Servable(in), NEW name \in DOMAIN Connection(in).clients
  PROVE  LET profile == Connection(in).clients[name] IN
         \E c : /\ ClientsOf(Realm(in), profile.clientId) = {c}
                /\ c.redirectUris = profile.redirectUris
                /\ Shaped(c, name, profile)
<1> DEFINE profile == Connection(in).clients[name]
<1>1. Generatable(in) /\ in.saml \in SamlDocuments /\ DistinctClients(in)
  BY ServableGenerates
<1>2. name \in {"modern", "legacy", "saml", "saml2Int"}
  BY ConnectionKinds
<1>3. CASE name = "modern"
  <2> DEFINE c == ModernOf(in)
  <2>1. in.env.oidc
    BY <1>3, ConnectionKinds
  <2>2. /\ c \in Realm(in).clients /\ ~c.implicit /\ c.pkce
        /\ c.clientId = profile.clientId /\ c.redirectUris = profile.redirectUris
        /\ c.consent = profile.consent
    BY <1>1, <1>3, <2>1, ModernAgrees
  <2> HIDE DEF c, profile
  <2>3. ClientsOf(Realm(in), profile.clientId) = {c}
    BY <1>1, <2>2, OneClient
  <2>4. Shaped(c, name, profile)
    BY <1>3, <2>2 DEF Shaped, ModernShape
  <2> QED
    BY <2>2, <2>3, <2>4 DEF profile
<1>4. CASE name = "legacy"
  <2> DEFINE c == LegacyOf(in)
  <2>1. in.env.oidc
    BY <1>4, ConnectionKinds
  <2>2. /\ c \in Realm(in).clients /\ c.implicit /\ ~c.consent
        /\ c.clientId = profile.clientId /\ c.redirectUris = profile.redirectUris
    BY <1>1, <1>4, <2>1, LegacyAgrees
  <2> HIDE DEF c, profile
  <2>3. ClientsOf(Realm(in), profile.clientId) = {c}
    BY <1>1, <2>2, OneClient
  <2>4. Shaped(c, name, profile)
    BY <1>4, <2>2 DEF Shaped, LegacyShape
  <2> QED
    BY <2>2, <2>3, <2>4 DEF profile
<1>5. ASSUME NEW p \in Profiles, name = ConnectionName(p)
      PROVE  \E c : /\ ClientsOf(Realm(in), profile.clientId) = {c}
                    /\ c.redirectUris = profile.redirectUris
                    /\ Shaped(c, name, profile)
  <2> DEFINE c == SamlOf(in, p)
  <2>1. p \in DOMAIN SamlProfilesOf(in)
    BY <1>5, ConnectionKinds
  <2>2. /\ c \in Realm(in).clients /\ c.protocol = "saml"
        /\ c.clientId = profile.clientId /\ c.redirectUris = profile.redirectUris
        /\ c.signedAssertion = (p = "Standard") /\ c.signedRequest = (p = "Saml2Int")
        /\ c.mappers = [claim \in profile.claims |-> SamlMapper(claim)]
        /\ p = "Saml2Int" => c.certificate = "current"
    <3>1. SamlAgreement(in, p, c, profile)
      BY <1>1, <1>5, <2>1, SamlAgrees
    <3> HIDE DEF c, profile
    <3> QED
      BY <3>1 DEF SamlAgreement
  <2> HIDE DEF c, profile
  <2>3. ClientsOf(Realm(in), profile.clientId) = {c}
    BY <1>1, <2>2, OneClient
  <2>4. DOMAIN c.mappers = profile.claims
    BY <2>2
  <2>5. p = "Standard" => name = "saml" /\ Shaped(c, name, profile)
    BY <1>5, <2>2, <2>4 DEF Shaped, SamlShape, ConnectionName
  <2>6. p = "Saml2Int" => name = "saml2Int" /\ Shaped(c, name, profile)
    BY <1>5, <2>2, <2>4 DEF Shaped, Saml2IntShape, ConnectionName
  <2> QED
    BY <2>2, <2>3, <2>5, <2>6 DEF Profiles
<1>6. CASE name \in {"saml", "saml2Int"}
  <2>1. name = ConnectionName("Standard") \/ name = ConnectionName("Saml2Int")
    BY <1>6 DEF ConnectionName
  <2> QED
    BY <1>5, <2>1 DEF Profiles
<1> QED
  BY <1>2, <1>3, <1>4, <1>6

\* the administrative checks pass exactly when one page lists everything
LEMMA AdminVerdictOf ==
  ASSUME NEW in, Servable(in)
  PROVE  AdminVerdict(Realm(in), Connection(in)) <=> Countable(Connection(in))
<1> DEFINE r == Realm(in)
           conn == Connection(in)
<1>1. /\ Countable(conn) =>
           \E listed \in Listings(r.users) :
             InventoryMatches(r, listed, conn) /\ TestUsersListed(r, listed, conn)
      /\ \A listed \in Listings(r.users) :
           InventoryMatches(r, listed, conn) => Countable(conn)
  BY InventoryOf
<1>2. \A name \in DOMAIN conn.clients :
        \E c \in ClientsOf(r, conn.clients[name].clientId) :
          /\ c.redirectUris = conn.clients[name].redirectUris
          /\ Shaped(c, name, conn.clients[name])
  BY ShapesMatch
<1> HIDE DEF r, conn
<1>3. RedirectsExact(r, conn)
  BY <1>2 DEF RedirectsExact
<1>4. AdminVerdict(r, conn) <=> Countable(conn)
  BY <1>1, <1>2, <1>3 DEF AdminVerdict
<1> QED
  BY <1>4 DEF r, conn

-----------------------------------------------------------------------------
(* The verifiers: the SAML verdicts.                                       *)

\* the assertion of any user is the one expected of that user, and refused only
\* for its context or a bound attribute without a value
LEMMA AssertionAcceptedOf ==
  ASSUME NEW in, Servable(in), NEW p \in DOMAIN SamlProfilesOf(in),
         NEW u \in KnownUsers(in.users),
         NEW values, DOMAIN values = DOMAIN ExpectedAttributes(in, u),
         \A claim \in DOMAIN values :
           values[claim] = Values(claim, ExpectedAttributes(in, u)[claim])
  PROVE  LET profile == Connection(in).clients[ConnectionName(p)] IN
         AssertionAccepted(Realm(in), SamlOf(in, p), u, profile,
                           StableId(in.env.namespace, "saml-nameid", u), values)
           <=> /\ AssertedContext \in profile.contexts
               /\ Bound(profile, ExpectedAttributes(in, u))
<1> DEFINE r == Realm(in)
           profile == Connection(in).clients[ConnectionName(p)]
           c == SamlOf(in, p)
           nameId == StableId(in.env.namespace, "saml-nameid", u)
           expected == ExpectedAttributes(in, u)
           emitted == Assertion(r, c, u)
<1>1. Generatable(in) /\ in.saml \in SamlDocuments
  BY ServableGenerates
<1>2. /\ profile.claims \subseteq KnownSamlClaims /\ profile.contexts # {}
      /\ profile.binding = "Attribute" => profile.subject \in profile.claims
      /\ RealmUser(in, u).nameId[c.clientId] = nameId
  <2>1. SamlAgreement(in, p, c, profile)
    BY <1>1, SamlAgrees
  <2> HIDE DEF c, profile
  <2> QED
    BY <2>1 DEF SamlAgreement
<1>3. r.users[u] = RealmUser(in, u)
  BY GeneratedUser
<1>4. /\ DOMAIN emitted \subseteq profile.claims
      /\ \A claim \in profile.claims \ {"realm_roles"} :
           /\ claim \in DOMAIN expected
           /\ ValuesOf(emitted, claim) = Values(claim, expected[claim])
      /\ "realm_roles" \in profile.claims =>
           ValuesOf(emitted, "realm_roles") =
             {DefaultRole} \cup expected["eem_permission_profiles"]
  BY <1>1, AssertionOf
<1>5. /\ "eem_permission_profiles" \in DOMAIN expected
      /\ "eem_permission_profiles" \in MultiValued /\ "realm_roles" \notin MultiValued
  BY ExpectedOf DEF KnownSamlClaims, MultiValued
<1> HIDE DEF r, profile, c, nameId, expected, emitted
<1>6. AssertionAccepted(r, c, u, profile, nameId, values) <=>
        AssertedContext \in profile.contexts /\ Bound(profile, expected)
  <2>1. r.users[u].nameId[c.clientId] = nameId
    BY <1>2, <1>3
  <2>2. values["eem_permission_profiles"] = expected["eem_permission_profiles"]
    BY <1>5 DEF Values, expected
  <2>3. \A claim \in profile.claims \ {"realm_roles"} :
          claim \in DOMAIN values /\ ValuesOf(emitted, claim) = values[claim]
    BY <1>4 DEF expected
  <2>4. profile.binding = "Attribute" =>
          (ValuesOf(emitted, profile.subject) # {} <=> Valued(expected, {profile.subject}))
    <3>1. CASE profile.subject = "realm_roles"
      BY <1>2, <1>4, <1>5, <3>1 DEF Valued
    <3>2. CASE profile.subject # "realm_roles"
      BY <1>2, <1>4, <3>2, ValuesOfClaim
    <3> QED
      BY <3>1, <3>2
  <2>5. "eem_permission_profiles" \in DOMAIN values
    BY <1>5 DEF expected
  <2>6. AssertionAccepted(r, c, u, profile, nameId, values) <=>
          /\ profile.contexts # {} => AssertedContext \in profile.contexts
          /\ profile.binding = "Attribute" => ValuesOf(emitted, profile.subject) # {}
    BY <1>4, <2>1, <2>2, <2>3, <2>5 DEF AssertionAccepted, emitted
  <2> QED
    BY <1>2, <2>4, <2>6 DEF Bound
<1> QED
  BY <1>6 DEF r, profile, c, nameId, expected

\* the client of a SAML profile, reached by whoever can authenticate
LEMMA SamlMatched ==
  ASSUME NEW in, Servable(in), NEW p \in DOMAIN SamlProfilesOf(in)
  PROVE  Matched(in, SamlOf(in, p), Connection(in).clients[ConnectionName(p)])
<1> DEFINE c == SamlOf(in, p)
           profile == Connection(in).clients[ConnectionName(p)]
<1>1. SamlAgreement(in, p, c, profile) /\ DistinctClients(in)
  BY ServableGenerates, SamlAgrees
<1> HIDE DEF c, profile
<1>2. Matched(in, c, profile)
  BY <1>1 DEF SamlAgreement, Matched
<1> QED
  BY <1>2 DEF c, profile

\* the Standard SAML login passes exactly with these settings
LEMMA StandardVerdictOf ==
  ASSUME NEW in, Servable(in), "saml" \in DOMAIN Connection(in).clients
  PROVE  LET conn == Connection(in)
             standard == conn.clients["saml"]
         IN StandardVerdict(Realm(in), conn) <=>
              /\ AssertedContext \in standard.contexts
              /\ Unregistered \notin standard.redirectUris
              /\ Bound(standard, conn.active.expected)
<1> DEFINE r == Realm(in)
           conn == Connection(in)
           profile == conn.clients["saml"]
           c == SamlOf(in, "Standard")
<1>1. "Standard" \in DOMAIN SamlProfilesOf(in) /\ ConnectionName("Standard") = "saml"
  BY ConnectionKinds DEF ConnectionName, Profiles
<1>2. Matched(in, c, profile)
  BY <1>1, SamlMatched
<1>3. PICK a, d \in KnownUsers(in.users) :
        /\ conn.active.nameId = StableId(in.env.namespace, "saml-nameid", a)
        /\ conn.active.expected = ExpectedAttributes(in, a)
        /\ LogsIn(in, conn.active.username, conn.password, a)
        /\ \A word : Authenticated(r, conn.disabled.username, word) = {}
  BY TestLogins
<1>4. AssertionAccepted(r, c, a, profile, conn.active.nameId, Expected(conn.active)) <=>
        AssertedContext \in profile.contexts /\ Bound(profile, conn.active.expected)
  <2> DEFINE values == Expected(conn.active)
             expected == ExpectedAttributes(in, a)
  <2>1. /\ DOMAIN values = DOMAIN expected
        /\ \A claim \in DOMAIN values : values[claim] = Values(claim, expected[claim])
    BY <1>3 DEF Expected
  <2> HIDE DEF values, expected
  <2>2. AssertionAccepted(Realm(in), SamlOf(in, "Standard"), a,
                          Connection(in).clients[ConnectionName("Standard")],
                          StableId(in.env.namespace, "saml-nameid", a), values) <=>
          /\ AssertedContext \in Connection(in).clients[ConnectionName("Standard")].contexts
          /\ Bound(Connection(in).clients[ConnectionName("Standard")], expected)
    BY <1>1, <2>1, AssertionAcceptedOf DEF expected
  <2> QED
    BY <1>1, <1>3, <2>2 DEF values, expected
<1>5. /\ c.protocol = "saml" /\ c.urlName = profile.key
      /\ profile.slo => c.logoutUris = profile.logoutUris /\ c.logoutUris # {}
  <2>1. SamlAgreement(in, "Standard", c, profile)
    BY <1>1, ServableGenerates, SamlAgrees
  <2> HIDE DEF c, profile
  <2> QED
    BY <2>1 DEF SamlAgreement
<1> HIDE DEF conn, profile, c
<1>6. RefusesUnregistered(r, profile) <=> Unregistered \notin profile.redirectUris
  BY <1>2, MatchedClient
<1>7. Only(SamlLogins(r, profile, conn.active.username, conn.password), c, a)
  BY <1>2, <1>3, <1>5, ClientLogins DEF SamlLogins
<1>8. SamlLogins(r, profile, conn.disabled.username, conn.password) = {}
  BY <1>3 DEF SamlLogins, LoginsAt
<1> DEFINE login == [client |-> c, user |-> a]
<1>9. login.client = c /\ login.user = a
  OBVIOUS
<1>10. profile.slo => First(profile.logoutUris) \in c.logoutUris
  BY <1>5, FirstOf
<1> HIDE DEF r, login
<1>11. StandardVerdict(r, conn) <=>
         /\ AssertedContext \in profile.contexts
         /\ Unregistered \notin profile.redirectUris
         /\ Bound(profile, conn.active.expected)
  BY <1>4, <1>5, <1>6, <1>7, <1>8, <1>9, <1>10 DEF StandardVerdict, profile, login, Only
<1> QED
  BY <1>11 DEF r, conn, profile

\* the Saml2Int login passes
LEMMA Saml2IntVerdictOf ==
  ASSUME NEW in, Servable(in), "saml2Int" \in DOMAIN Connection(in).clients
  PROVE  Saml2IntVerdict(Realm(in), Connection(in))
<1> DEFINE r == Realm(in)
           conn == Connection(in)
           profile == conn.clients["saml2Int"]
           c == SamlOf(in, "Saml2Int")
<1>1. "Saml2Int" \in DOMAIN SamlProfilesOf(in) /\ ConnectionName("Saml2Int") = "saml2Int"
  BY ConnectionKinds DEF ConnectionName, Profiles
<1>2. Matched(in, c, profile)
  BY <1>1, SamlMatched
<1>3. PICK a \in KnownUsers(in.users) :
        LogsIn(in, conn.active.username, conn.password, a)
  BY TestLogins
<1>4. /\ c.protocol = "saml" /\ c.urlName = profile.key
      /\ c.certificate = profile.thumbprint /\ c.signedRequest /\ ~c.signedAssertion
  <2>1. SamlAgreement(in, "Saml2Int", c, profile)
    BY <1>1, ServableGenerates, SamlAgrees
  <2> HIDE DEF c, profile
  <2> QED
    BY <2>1 DEF SamlAgreement
<1> HIDE DEF conn, profile, c
<1>5. Only(SamlLogins(r, profile, conn.active.username, conn.password), c, a)
  BY <1>2, <1>3, <1>4, ClientLogins DEF SamlLogins
<1> DEFINE login == [client |-> c, user |-> a]
<1>6. login.client = c
  OBVIOUS
<1> HIDE DEF r, login
<1>7. Saml2IntVerdict(r, conn)
  BY <1>4, <1>5, <1>6 DEF Saml2IntVerdict, profile, login, Only
<1> QED
  BY <1>7 DEF r, conn

\* verify_saml_baseline.py passes exactly with these settings
LEMMA SamlVerdictOf ==
  ASSUME NEW in, Servable(in), in.env.saml
  PROVE  SamlVerdict(Realm(in), Connection(in)) <=>
           Countable(Connection(in)) /\ SamlTestable(Connection(in))
<1> DEFINE r == Realm(in)
           conn == Connection(in)
<1>1. {"saml", "saml2Int"} \cap DOMAIN conn.clients # {}
  <2>1. PICK p \in Profiles : SamlFromEnvironment(in.saml)[p].enabled
    BY ServableGenerates DEF Generatable, SamlAccepted
  <2>2. p \in DOMAIN SamlProfilesOf(in)
    BY <2>1 DEF SamlProfilesOf
  <2>3. ConnectionName(p) \in DOMAIN conn.clients
    BY <2>2, SamlConnectionOf
  <2> QED
    BY <2>3 DEF ConnectionName
<1>2. AdminVerdict(r, conn) <=> Countable(conn)
  BY AdminVerdictOf
<1>3. "saml" \in DOMAIN conn.clients =>
        (StandardVerdict(r, conn) <=> SamlTestable(conn))
  BY StandardVerdictOf DEF SamlTestable
<1>4. "saml2Int" \in DOMAIN conn.clients => Saml2IntVerdict(r, conn)
  BY Saml2IntVerdictOf
<1>5. "saml" \notin DOMAIN conn.clients => SamlTestable(conn)
  BY DEF SamlTestable
<1> HIDE DEF r, conn
<1>6. SamlVerdict(r, conn) <=> Countable(conn) /\ SamlTestable(conn)
  BY <1>1, <1>2, <1>3, <1>4, <1>5 DEF SamlVerdict
<1> QED
  BY <1>6 DEF r, conn

-----------------------------------------------------------------------------
(* The verifiers: the full verifier.                                       *)

\* the modern part of verify_identity.py, check by check
LEMMA FullModernOf ==
  ASSUME NEW in, Servable(in), in.env.oidc
  PROVE  LET r == Realm(in)
             conn == Connection(in)
             modern == conn.clients["modern"]
             callback == First(modern.redirectUris)
         IN /\ "modern" \in DOMAIN conn.clients
            /\ FullModernLogin(r, conn) <=>
                 /\ "offline_access" \notin modern.scope
                 /\ {"profile", "email", "northlake"} \subseteq modern.scope
                 /\ {"groups", "primary_company_id", "eem_permission_profiles"}
                      \subseteq modern.claims
                 /\ Valued(conn.active.expected, {"groups", "eem_permission_profiles"})
            /\ OfflineGrant(r, conn)
            /\ LogoutReturns(r, modern) <=> callback \in modern.logoutUris
            /\ FullNegativeVerdict(r, conn) <=> Unregistered \notin modern.redirectUris
            /\ FullDisabledVerdict(r, conn) <=> modern.par # "Require"
            /\ AccountConsoleVerdict(r, conn)
<1> DEFINE r == Realm(in)
           conn == Connection(in)
           modern == conn.clients["modern"]
           c == ModernOf(in)
           callback == First(modern.redirectUris)
<1>1. PICK a \in KnownUsers(in.users) :
        /\ conn.active.subject = Subject(in, a)
        /\ conn.active.expected = ExpectedAttributes(in, a)
        /\ LogsIn(in, conn.active.username, conn.password, a)
  BY TestLogins
<1>2. Authenticated(r, conn.disabled.username, conn.password) = {}
  BY TestLogins
<1>3. /\ "modern" \in DOMAIN conn.clients
      /\ c \in r.clients /\ c.protocol = "openid-connect" /\ ~c.implicit
      /\ c.clientId = modern.clientId
      /\ c.redirectUris = modern.redirectUris /\ c.redirectUris # {}
      /\ c.logoutUris = modern.logoutUris
      /\ c.consent = modern.consent /\ c.parRequired = (modern.par = "Require")
  BY ModernAgrees, ServableGenerates
<1>4. LET claims == OidcClaims(r, c, a) IN
        /\ claims["sub"] = Subject(in, a)
        /\ "preferred_username" \in DOMAIN claims <=> "profile" \in modern.scope
        /\ "email" \in DOMAIN claims <=> "email" \in modern.scope
        /\ \A claim \in NorthlakeClaims :
             claim \in DOMAIN claims <=>
               /\ "northlake" \in modern.scope /\ claim \in modern.claims
               /\ Valued(conn.active.expected, {claim})
  BY <1>1, ModernClaims
<1>5. DistinctClients(in)
  BY ServableGenerates
<1> HIDE DEF conn, modern, c
<1>6. Matched(in, c, modern)
  BY <1>3, <1>5 DEF Matched
<1>7. Only(OidcLogins(r, modern, conn.active.username, conn.password, TRUE), c, a)
  BY <1>1, <1>3, <1>6, OidcLoginsOf
<1>8. /\ ClientsOf(r, modern.clientId) = {c}
      /\ RefusesUnregistered(r, modern) <=> Unregistered \notin modern.redirectUris
  BY <1>6, MatchedClient
<1> DEFINE login == [client |-> c, user |-> a]
<1>9. login.client = c /\ ClaimsOf(r, login) = OidcClaims(r, c, a)
  BY DEF ClaimsOf
<1>10. r = Realm(in)
  OBVIOUS
<1> HIDE DEF r, login
<1>11. FullModernLogin(r, conn) <=>
         /\ "offline_access" \notin modern.scope
         /\ {"profile", "email", "northlake"} \subseteq modern.scope
         /\ {"groups", "primary_company_id", "eem_permission_profiles"}
              \subseteq modern.claims
         /\ Valued(conn.active.expected, {"groups", "eem_permission_profiles"})
  <2> DEFINE claims == OidcClaims(r, c, a)
             required == {"preferred_username", "email", "groups", "primary_company_id",
                          "eem_permission_profiles"}
  <2>1. FullModernLogin(r, conn) <=>
          /\ "offline_access" \notin modern.scope
          /\ login.client.consent = modern.consent
          /\ ClaimsOf(r, login)["sub"] = conn.active.subject
          /\ required \subseteq DOMAIN ClaimsOf(r, login)
    BY <1>7 DEF FullModernLogin, modern, login, Only
  <2>2. {"groups", "primary_company_id", "eem_permission_profiles"} \subseteq NorthlakeClaims
    BY DEF NorthlakeClaims
  <2>3. required \subseteq DOMAIN claims <=>
          /\ "profile" \in modern.scope /\ "email" \in modern.scope
          /\ "northlake" \in modern.scope
          /\ {"groups", "primary_company_id", "eem_permission_profiles"}
               \subseteq modern.claims
          /\ Valued(conn.active.expected, {"groups", "eem_permission_profiles"})
    <3>1. /\ "preferred_username" \in DOMAIN claims <=> "profile" \in modern.scope
          /\ "email" \in DOMAIN claims <=> "email" \in modern.scope
          /\ "groups" \in DOMAIN claims <=>
               /\ "northlake" \in modern.scope /\ "groups" \in modern.claims
               /\ Valued(conn.active.expected, {"groups"})
          /\ "primary_company_id" \in DOMAIN claims <=>
               /\ "northlake" \in modern.scope /\ "primary_company_id" \in modern.claims
               /\ Valued(conn.active.expected, {"primary_company_id"})
          /\ "eem_permission_profiles" \in DOMAIN claims <=>
               /\ "northlake" \in modern.scope /\ "eem_permission_profiles" \in modern.claims
               /\ Valued(conn.active.expected, {"eem_permission_profiles"})
      BY <1>4, <1>10, <2>2
    <3>2. /\ Valued(conn.active.expected, {"primary_company_id"})
          /\ Valued(conn.active.expected, {"groups", "eem_permission_profiles"}) <=>
               /\ Valued(conn.active.expected, {"groups"})
               /\ Valued(conn.active.expected, {"eem_permission_profiles"})
      BY DEF Valued, MultiValued
    <3> HIDE DEF claims
    <3> QED
      BY <3>1, <3>2
  <2>4. claims["sub"] = conn.active.subject
    BY <1>1, <1>4, <1>10
  <2> HIDE DEF claims, required
  <2> QED
    BY <1>3, <1>9, <2>1, <2>3, <2>4 DEF claims
<1>12. OfflineGrant(r, conn)
  <2>1. ClaimsOf(r, login)["sub"] = conn.active.subject
    BY <1>1, <1>4, <1>9, <1>10
  <2> QED
    BY <1>7, <2>1 DEF OfflineGrant, modern, login, Only
<1>13. LogoutReturns(r, modern) <=> callback \in modern.logoutUris
  BY <1>3, <1>8 DEF LogoutReturns
<1>14. FullNegativeVerdict(r, conn) <=> Unregistered \notin modern.redirectUris
  BY <1>3, <1>8 DEF FullNegativeVerdict, modern
<1>15. FullDisabledVerdict(r, conn) <=> modern.par # "Require"
  BY <1>2, <1>3, <1>8 DEF FullDisabledVerdict, modern
<1>16. AccountConsoleVerdict(r, conn)
  BY <1>1, <1>10 DEF AccountConsoleVerdict, LogsIn
<1> QED
  BY <1>3, <1>11, <1>12, <1>13, <1>14, <1>15, <1>16 DEF r, conn, modern

\* its legacy part: both clients share the callback, and it ends a logout
LEMMA FullLegacyOf ==
  ASSUME NEW in, Servable(in), in.env.oidc
  PROVE  LET r == Realm(in)
             conn == Connection(in)
             modern == conn.clients["modern"]
             legacy == conn.clients["legacy"]
             callback == First(modern.redirectUris)
         IN SessionShared(r, conn) /\ FullLegacyVerdict(r, conn) <=>
              ("legacy" \in DOMAIN conn.clients =>
                 First(legacy.redirectUris) = callback /\ callback \in legacy.logoutUris)
<1> DEFINE r == Realm(in)
           conn == Connection(in)
           modern == conn.clients["modern"]
           legacy == conn.clients["legacy"]
           callback == First(modern.redirectUris)
           c == LegacyOf(in)
<1>1. CASE "legacy" \notin DOMAIN conn.clients
  BY <1>1 DEF SessionShared, FullLegacyVerdict
<1>2. CASE "legacy" \in DOMAIN conn.clients
  <2>1. PICK a \in KnownUsers(in.users) :
          LogsIn(in, conn.active.username, conn.password, a)
    BY TestLogins
  <2>2. /\ c \in r.clients /\ c.protocol = "openid-connect"
        /\ c.implicit /\ ~c.consent /\ ~c.parRequired
        /\ c.clientId = legacy.clientId
        /\ c.redirectUris = legacy.redirectUris /\ c.redirectUris # {}
        /\ c.logoutUris = legacy.logoutUris
    BY <1>2, ServableGenerates, LegacyAgrees
  <2>3. DistinctClients(in)
    BY ServableGenerates
  <2> HIDE DEF conn, modern, legacy, c
  <2>4. Matched(in, c, legacy)
    BY <2>2, <2>3 DEF Matched
  <2>5. Only(OidcLogins(r, legacy, conn.active.username, conn.password, FALSE), c, a)
    BY <2>1, <2>2, <2>4, OidcLoginsOf
  <2>6. ClientsOf(r, legacy.clientId) = {c} /\ First(legacy.redirectUris) \in c.redirectUris
    BY <2>4, MatchedClient
  <2> DEFINE login == [client |-> c, user |-> a]
  <2>7. login.client = c
    OBVIOUS
  <2> HIDE DEF r, login
  <2>8. SessionShared(r, conn) <=> First(legacy.redirectUris) = callback
    BY <1>2, <2>6 DEF SessionShared, modern, legacy, callback
  <2>9. FullLegacyVerdict(r, conn) <=> First(legacy.redirectUris) \in legacy.logoutUris
    <3>1. LogoutReturns(r, legacy) <=> First(legacy.redirectUris) \in legacy.logoutUris
      BY <2>2, <2>6 DEF LogoutReturns
    <3> QED
      BY <1>2, <2>2, <2>5, <2>7, <3>1 DEF FullLegacyVerdict, legacy, login, Only
  <2> QED
    BY <1>2, <2>8, <2>9 DEF r, conn, modern, legacy
<1> QED
  BY <1>1, <1>2

\* verify_identity.py passes exactly with these settings
LEMMA FullVerdictOf ==
  ASSUME NEW in, Servable(in), in.env.oidc
  PROVE  LET conn == Connection(in)
             modern == conn.clients["modern"]
             callback == First(modern.redirectUris)
         IN FullVerdict(Realm(in), conn) <=>
              /\ Countable(conn) /\ SamlTestable(conn)
              /\ Unregistered \notin modern.redirectUris
              /\ "offline_access" \notin modern.scope /\ modern.par # "Require"
              /\ {"profile", "email", "northlake"} \subseteq modern.scope
              /\ {"groups", "primary_company_id", "eem_permission_profiles"}
                   \subseteq modern.claims
              /\ Valued(conn.active.expected, {"groups", "eem_permission_profiles"})
              /\ callback \in modern.logoutUris
              /\ "legacy" \in DOMAIN conn.clients =>
                   /\ First(conn.clients["legacy"].redirectUris) = callback
                   /\ callback \in conn.clients["legacy"].logoutUris
<1> DEFINE r == Realm(in)
           conn == Connection(in)
           modern == conn.clients["modern"]
           callback == First(modern.redirectUris)
<1>1. AdminVerdict(r, conn) <=> Countable(conn)
  BY AdminVerdictOf
<1>2. /\ "modern" \in DOMAIN conn.clients
      /\ FullModernLogin(r, conn) <=>
           /\ "offline_access" \notin modern.scope
           /\ {"profile", "email", "northlake"} \subseteq modern.scope
           /\ {"groups", "primary_company_id", "eem_permission_profiles"}
                \subseteq modern.claims
           /\ Valued(conn.active.expected, {"groups", "eem_permission_profiles"})
      /\ OfflineGrant(r, conn)
      /\ LogoutReturns(r, modern) <=> callback \in modern.logoutUris
      /\ FullNegativeVerdict(r, conn) <=> Unregistered \notin modern.redirectUris
      /\ FullDisabledVerdict(r, conn) <=> modern.par # "Require"
      /\ AccountConsoleVerdict(r, conn)
  BY FullModernOf
<1>3. SessionShared(r, conn) /\ FullLegacyVerdict(r, conn) <=>
        ("legacy" \in DOMAIN conn.clients =>
           /\ First(conn.clients["legacy"].redirectUris) = callback
           /\ callback \in conn.clients["legacy"].logoutUris)
  BY FullLegacyOf
<1>4. ("saml" \in DOMAIN conn.clients => StandardVerdict(r, conn)) <=> SamlTestable(conn)
  BY StandardVerdictOf DEF SamlTestable
<1>5. FullVerdict(r, conn) <=>
        /\ AdminVerdict(r, conn) /\ AccountConsoleVerdict(r, conn)
        /\ FullNegativeVerdict(r, conn)
        /\ FullModernLogin(r, conn) /\ SessionShared(r, conn)
        /\ OfflineGrant(r, conn) /\ LogoutReturns(r, modern)
        /\ FullDisabledVerdict(r, conn) /\ FullLegacyVerdict(r, conn)
        /\ ("saml" \in DOMAIN conn.clients => StandardVerdict(r, conn))
  BY <1>2 DEF FullVerdict, FullModernVerdict
<1> HIDE DEF r, conn, modern, callback
<1>6. FullVerdict(r, conn) <=>
        /\ Countable(conn) /\ SamlTestable(conn)
        /\ Unregistered \notin modern.redirectUris
        /\ "offline_access" \notin modern.scope /\ modern.par # "Require"
        /\ {"profile", "email", "northlake"} \subseteq modern.scope
        /\ {"groups", "primary_company_id", "eem_permission_profiles"}
             \subseteq modern.claims
        /\ Valued(conn.active.expected, {"groups", "eem_permission_profiles"})
        /\ callback \in modern.logoutUris
        /\ "legacy" \in DOMAIN conn.clients =>
             /\ First(conn.clients["legacy"].redirectUris) = callback
             /\ callback \in conn.clients["legacy"].logoutUris
  BY <1>1, <1>2, <1>3, <1>4, <1>5
<1> QED
  BY <1>6 DEF r, conn, modern, callback

-----------------------------------------------------------------------------
(* The verifiers: the verifier of the two-realm laboratory.                *)

CustomerOf(in, kind) ==
  [protocol |-> "openid-connect", clientId |-> CustomerClientId(in, kind),
   redirectUris |-> {CustomerUri(in, kind, "callback")},
   logoutUris |-> {CustomerUri(in, "", "signed-out")},
   frontchannel |-> CustomerUri(in, kind, "frontchannel-logout"),
   scopes |-> DefaultScopes({"profile", "email", "northlake"}),
   implicit |-> FALSE, pkce |-> TRUE, consent |-> kind = "probe", parRequired |-> FALSE]

\* the clients of the customer site and their connection profiles
LEMMA CustomersMatch ==
  ASSUME NEW in, Servable(in)
  PROVE  LET conn == Connection(in) IN
         /\ (DOMAIN conn.customerSite = Kinds) <=> in.env.site
         /\ in.env.site => \A kind \in Kinds :
              \E c \in ClientsOf(Realm(in), conn.customerSite[kind].clientId) :
                CustomerShape(c, conn.customerSite[kind])
<1> DEFINE conn == Connection(in)
<1>1. conn.customerSite = CustomerSiteProfile(in)
  BY DEF Connection
<1>2. (DOMAIN CustomerSiteProfile(in) = Kinds) <=> in.env.site
  <2>1. DOMAIN << >> = {}
    OBVIOUS
  <2> QED
    BY <2>1 DEF CustomerSiteProfile, Kinds
<1>3. ASSUME in.env.site, NEW kind \in Kinds
      PROVE  \E c \in ClientsOf(Realm(in), CustomerSiteProfile(in)[kind].clientId) :
               CustomerShape(c, CustomerSiteProfile(in)[kind])
  <2> DEFINE c == CustomerOf(in, kind)
             profile == CustomerSiteProfile(in)[kind]
  <2>1. c \in Realm(in).clients
    <3>1. c \in CustomerSiteClients(in)
      BY <1>3 DEF CustomerOf, CustomerSiteClients
    <3> QED
      BY <3>1 DEF Realm
  <2>2. profile = [clientId |-> CustomerClientId(in, kind),
                   redirectUri |-> CustomerUri(in, kind, "callback"),
                   logoutUri |-> CustomerUri(in, "", "signed-out"),
                   frontchannel |-> CustomerUri(in, kind, "frontchannel-logout"),
                   consent |-> kind = "probe"]
    BY <1>3 DEF CustomerSiteProfile
  <2>3. CustomerShape(c, profile) /\ c.clientId = profile.clientId
    <3>1. /\ c.protocol = "openid-connect" /\ c.clientId = CustomerClientId(in, kind)
          /\ c.redirectUris = {CustomerUri(in, kind, "callback")}
          /\ c.frontchannel = CustomerUri(in, kind, "frontchannel-logout")
          /\ ~c.implicit /\ c.pkce /\ c.consent = (kind = "probe")
      BY DEF CustomerOf
    <3>2. /\ profile.clientId = CustomerClientId(in, kind)
          /\ profile.redirectUri = CustomerUri(in, kind, "callback")
          /\ profile.frontchannel = CustomerUri(in, kind, "frontchannel-logout")
          /\ profile.consent = (kind = "probe")
      <4> HIDE DEF profile
      <4> QED
        BY <2>2
    <3> HIDE DEF c, profile
    <3> QED
      BY <3>1, <3>2 DEF CustomerShape
  <2> HIDE DEF c, profile
  <2>4. c \in ClientsOf(Realm(in), profile.clientId)
    BY <2>1, <2>3 DEF ClientsOf
  <2> QED
    BY <2>3, <2>4 DEF profile
<1> HIDE DEF conn
<1> QED
  BY <1>1, <1>2, <1>3 DEF conn

\* the administrative checks of verify_scenarios.py need the site alone
LEMMA LabAdminOf ==
  ASSUME NEW in, Servable(in), in.env.oidc,
         DOMAIN Connection(in).clients = {"modern", "saml"}
  PROVE  LabAdminVerdict(Realm(in), Connection(in)) <=> in.env.site
<1> DEFINE r == Realm(in)
           conn == Connection(in)
           modern == conn.clients["modern"]
           standard == conn.clients["saml"]
           c == ModernOf(in)
           s == SamlOf(in, "Standard")
<1>1. /\ c \in r.clients /\ c.protocol = "openid-connect" /\ ~c.implicit /\ c.pkce
      /\ c.clientId = modern.clientId /\ c.redirectUris = modern.redirectUris
      /\ c.redirectUris # {} /\ c.parRequired = (modern.par = "Require")
      /\ modern.claims = in.env.oidcClaims
  BY ModernAgrees, ServableGenerates
<1>2. r.northlakeScope = in.env.oidcClaims
  BY DEF Realm
<1>3. "Standard" \in DOMAIN SamlProfilesOf(in) /\ ConnectionName("Standard") = "saml"
  BY ConnectionKinds DEF ConnectionName, Profiles
<1>4. Matched(in, s, standard)
  BY <1>3, SamlMatched
<1>5. SamlShape(s, standard) /\ s.redirectUris = standard.redirectUris
  <2>1. SamlAgreement(in, "Standard", s, standard)
    BY <1>3, ServableGenerates, SamlAgrees
  <2> HIDE DEF s, standard
  <2> QED
    BY <2>1 DEF SamlAgreement, SamlShape
<1>6. DistinctClients(in)
  BY ServableGenerates
<1>7. /\ (DOMAIN conn.customerSite = Kinds) <=> in.env.site
      /\ in.env.site => \A kind \in Kinds :
           \E d \in ClientsOf(r, conn.customerSite[kind].clientId) :
             CustomerShape(d, conn.customerSite[kind])
  BY CustomersMatch
<1> HIDE DEF conn, modern, standard, c, s
<1>8. Matched(in, c, modern)
  BY <1>1, <1>6 DEF Matched
<1>9. c \in ClientsOf(r, modern.clientId) /\ s \in ClientsOf(r, standard.clientId)
  BY <1>4, <1>8, MatchedClient
<1> HIDE DEF r
<1>10. LabAdminVerdict(r, conn) <=> in.env.site
  BY <1>1, <1>2, <1>5, <1>7, <1>9 DEF LabAdminVerdict, modern, standard
<1> QED
  BY <1>10 DEF r, conn

\* its login passes exactly with these settings
LEMMA LabLoginOf ==
  ASSUME NEW in, Servable(in), in.env.oidc
  PROVE  LET conn == Connection(in)
             modern == conn.clients["modern"]
         IN LabLoginVerdict(Realm(in), conn) <=>
              /\ Unregistered \notin modern.redirectUris
              /\ {"profile", "email"} \subseteq modern.scope
              /\ modern.claims # {} => "northlake" \in modern.scope
              /\ Valued(conn.active.expected, modern.claims)
<1> DEFINE r == Realm(in)
           conn == Connection(in)
           modern == conn.clients["modern"]
           c == ModernOf(in)
           pushed == modern.par = "Require"
<1>1. PICK a \in KnownUsers(in.users) :
        /\ conn.active.subject = Subject(in, a)
        /\ conn.active.expected = ExpectedAttributes(in, a)
        /\ LogsIn(in, conn.active.username, conn.password, a)
  BY TestLogins
<1>2. /\ c \in r.clients /\ c.protocol = "openid-connect"
      /\ c.clientId = modern.clientId
      /\ c.redirectUris = modern.redirectUris /\ c.redirectUris # {}
      /\ c.parRequired = (modern.par = "Require")
  BY ModernAgrees, ServableGenerates
<1>3. LET claims == OidcClaims(r, c, a) IN
        /\ claims["sub"] = Subject(in, a)
        /\ "preferred_username" \in DOMAIN claims <=> "profile" \in modern.scope
        /\ "email" \in DOMAIN claims <=> "email" \in modern.scope
        /\ modern.claims \subseteq NorthlakeClaims
        /\ \A claim \in NorthlakeClaims :
             /\ claim \in DOMAIN claims <=>
                  /\ "northlake" \in modern.scope /\ claim \in modern.claims
                  /\ Valued(ExpectedAttributes(in, a), {claim})
             /\ claim \in DOMAIN claims =>
                  claims[claim] = ExpectedAttributes(in, a)[claim]
  BY ModernClaims
<1>4. DistinctClients(in)
  BY ServableGenerates
<1> HIDE DEF conn, modern, c
<1>5. Matched(in, c, modern)
  BY <1>2, <1>4 DEF Matched
<1>6. Only(OidcLogins(r, modern, conn.active.username, conn.password, pushed), c, a)
  <2>1. c.parRequired => pushed
    BY <1>2
  <2> HIDE DEF pushed
  <2> QED
    BY <1>1, <1>2, <1>5, <2>1, OidcLoginsOf
<1>7. RefusesUnregistered(r, modern) <=> Unregistered \notin modern.redirectUris
  BY <1>5, MatchedClient
<1> DEFINE login == [client |-> c, user |-> a]
           claims == OidcClaims(r, c, a)
<1>8. ClaimsOf(r, login) = claims
  BY DEF ClaimsOf
<1>9. /\ claims["sub"] = conn.active.subject
      /\ "preferred_username" \in DOMAIN claims <=> "profile" \in modern.scope
      /\ "email" \in DOMAIN claims <=> "email" \in modern.scope
      /\ DOMAIN claims \cap NorthlakeClaims \subseteq modern.claims
      /\ (\A claim \in modern.claims :
            /\ claim \in DOMAIN claims
            /\ claims[claim] = conn.active.expected[claim])
           <=> /\ modern.claims # {} => "northlake" \in modern.scope
               /\ Valued(conn.active.expected, modern.claims)
  <2>1. /\ claims["sub"] = Subject(in, a)
        /\ "preferred_username" \in DOMAIN claims <=> "profile" \in modern.scope
        /\ "email" \in DOMAIN claims <=> "email" \in modern.scope
        /\ modern.claims \subseteq NorthlakeClaims
        /\ \A claim \in NorthlakeClaims :
             /\ claim \in DOMAIN claims <=>
                  /\ "northlake" \in modern.scope /\ claim \in modern.claims
                  /\ Valued(ExpectedAttributes(in, a), {claim})
             /\ claim \in DOMAIN claims =>
                  claims[claim] = ExpectedAttributes(in, a)[claim]
    BY <1>3
  <2>2. Valued(conn.active.expected, modern.claims) <=>
          \A claim \in modern.claims : Valued(conn.active.expected, {claim})
    BY DEF Valued
  <2> HIDE DEF claims
  <2> QED
    BY <1>1, <2>1, <2>2
<1> HIDE DEF r, login, claims
<1>10. LabLoginVerdict(r, conn) <=>
         /\ claims["sub"] = conn.active.subject
         /\ {"preferred_username", "email"} \subseteq DOMAIN claims
         /\ DOMAIN claims \cap NorthlakeClaims \subseteq modern.claims
         /\ \A claim \in modern.claims :
              claim \in DOMAIN claims /\ claims[claim] = conn.active.expected[claim]
         /\ RefusesUnregistered(r, modern)
  BY <1>6, <1>8 DEF LabLoginVerdict, modern, login, Only
<1>11. LabLoginVerdict(r, conn) <=>
         /\ Unregistered \notin modern.redirectUris
         /\ {"profile", "email"} \subseteq modern.scope
         /\ modern.claims # {} => "northlake" \in modern.scope
         /\ Valued(conn.active.expected, modern.claims)
  BY <1>7, <1>9, <1>10
<1> QED
  BY <1>11 DEF r, conn, modern

\* verify_scenarios.py passes exactly with these settings
LEMMA LabVerdictOf ==
  ASSUME NEW in, Servable(in), in.env.oidc
  PROVE  LET conn == Connection(in)
             modern == conn.clients["modern"]
         IN LabVerdict(Realm(in), conn) <=>
              /\ in.env.site /\ DOMAIN conn.clients = {"modern", "saml"}
              /\ SamlTestable(conn) /\ Unregistered \notin modern.redirectUris
              /\ {"profile", "email"} \subseteq modern.scope
              /\ modern.claims # {} => "northlake" \in modern.scope
              /\ Valued(conn.active.expected, modern.claims)
<1> DEFINE r == Realm(in)
           conn == Connection(in)
           modern == conn.clients["modern"]
<1>1. DOMAIN conn.clients = {"modern", "saml"} =>
        /\ LabAdminVerdict(r, conn) <=> in.env.site
        /\ StandardVerdict(r, conn) <=> SamlTestable(conn)
  BY LabAdminOf, StandardVerdictOf DEF SamlTestable
<1>2. LabLoginVerdict(r, conn) <=>
        /\ Unregistered \notin modern.redirectUris
        /\ {"profile", "email"} \subseteq modern.scope
        /\ modern.claims # {} => "northlake" \in modern.scope
        /\ Valued(conn.active.expected, modern.claims)
  BY LabLoginOf
<1> HIDE DEF r, conn, modern
<1>3. LabVerdict(r, conn) <=>
        /\ in.env.site /\ DOMAIN conn.clients = {"modern", "saml"}
        /\ SamlTestable(conn) /\ Unregistered \notin modern.redirectUris
        /\ {"profile", "email"} \subseteq modern.scope
        /\ modern.claims # {} => "northlake" \in modern.scope
        /\ Valued(conn.active.expected, modern.claims)
  BY <1>1, <1>2 DEF LabVerdict
<1> QED
  BY <1>3 DEF r, conn, modern

-----------------------------------------------------------------------------
(* The verifiers: the verifier of the group claims.                        *)

\* the rebuilt attributes are the expected ones, except for subject-id
Rebuilds(rebuilt, expected, claims) ==
  /\ DOMAIN rebuilt = claims \ {"realm_roles"}
  /\ \A claim \in claims \ {"realm_roles", "subject-id"} :
       rebuilt[claim] = Values(claim, expected[claim])
  /\ "subject-id" \in claims => rebuilt["subject-id"] = {}

\* the attributes rebuilt from the realm file are the expected ones
LEMMA GeneratedAttributesOf ==
  ASSUME NEW in, NEW u, NEW profile, profile.claims \subseteq KnownSamlClaims
  PROVE  Rebuilds(GeneratedAttributes(RealmUser(in, u), profile),
                  ExpectedAttributes(in, u), profile.claims)
<1> DEFINE user == RealmUser(in, u)
           rebuilt == GeneratedAttributes(user, profile)
           Rebuilt(claim) ==
             IF claim = "groups" THEN user.groups
             ELSE IF SamlMapper(claim)[1] = "property" THEN {user[SamlMapper(claim)[2]]}
             ELSE IF claim \in DOMAIN user.attributes
                  THEN Values(claim, user.attributes[claim])
             ELSE {}
<1>1. /\ DOMAIN rebuilt = profile.claims \ {"realm_roles"}
      /\ \A claim \in profile.claims \ {"realm_roles"} : rebuilt[claim] = Rebuilt(claim)
  <2> HIDE DEF user
  <2> QED
    BY DEF GeneratedAttributes
<1>2. \A claim : SamlMapper(claim)[1] = "property" <=>
        claim \in {"username", "email", "given_name", "family_name"}
  BY DEF SamlMapper
<1>3. /\ SamlMapper("username")[2] = "username" /\ SamlMapper("email")[2] = "email"
      /\ SamlMapper("given_name")[2] = "firstName"
      /\ SamlMapper("family_name")[2] = "lastName"
  BY DEF SamlMapper
<1>4. /\ user["username"] = ExpectedAttributes(in, u)["username"]
      /\ user["email"] = ExpectedAttributes(in, u)["email"]
      /\ user["firstName"] = ExpectedAttributes(in, u)["given_name"]
      /\ user["lastName"] = ExpectedAttributes(in, u)["family_name"]
      /\ user.groups = ExpectedAttributes(in, u)["groups"]
      /\ "subject-id" \notin DOMAIN user.attributes
      /\ \A claim \in {"synthetic_user_id", "primary_company_id", "synthetic_status",
                       "eem_company_ids", "eem_permission_profiles"} :
           /\ claim \in DOMAIN user.attributes
           /\ user.attributes[claim] = ExpectedAttributes(in, u)[claim]
  BY RealmUserFields, ExpectedOf
<1> HIDE DEF user
<1>5. ASSUME NEW claim \in KnownSamlClaims \ {"realm_roles", "subject-id"}
      PROVE  Rebuilt(claim) = Values(claim, ExpectedAttributes(in, u)[claim])
  <2>1. CASE claim = "groups"
    BY <1>4, <2>1 DEF Values, MultiValued
  <2>2. CASE claim \in {"username", "email", "given_name", "family_name"}
    <3>1. claim \notin MultiValued
      BY <2>2 DEF MultiValued
    <3>2. Rebuilt(claim) = {ExpectedAttributes(in, u)[claim]}
      BY <1>2, <1>3, <1>4, <2>2
    <3> QED
      BY <3>1, <3>2 DEF Values
  <2>3. CASE claim \in {"synthetic_user_id", "primary_company_id", "synthetic_status",
                        "eem_company_ids", "eem_permission_profiles"}
    BY <1>2, <1>4, <2>3
  <2> QED
    BY <2>1, <2>2, <2>3 DEF KnownSamlClaims
<1>6. Rebuilt("subject-id") = {}
  BY <1>2, <1>4
<1> HIDE DEF Rebuilt, rebuilt
<1>7. /\ \A claim \in profile.claims \ {"realm_roles", "subject-id"} :
           rebuilt[claim] = Values(claim, ExpectedAttributes(in, u)[claim])
      /\ "subject-id" \in profile.claims => rebuilt["subject-id"] = {}
  BY <1>1, <1>5, <1>6
<1> QED
  BY <1>1, <1>7 DEF rebuilt, user, Rebuilds

\* the assertion against the rebuilt attributes
LEMMA RebuiltAccepted ==
  ASSUME NEW in, Servable(in), NEW p \in DOMAIN SamlProfilesOf(in),
         NEW u \in KnownUsers(in.users)
  PROVE  LET c == SamlOf(in, p)
             profile == Connection(in).clients[ConnectionName(p)]
             user == RealmUser(in, u)
         IN AssertionAccepted(Realm(in), c, u, profile, user.nameId[c.clientId],
                              GeneratedAttributes(user, profile)) <=>
              /\ AssertedContext \in profile.contexts
              /\ "eem_permission_profiles" \in profile.claims
              /\ "subject-id" \notin profile.claims
              /\ Bound(profile, ExpectedAttributes(in, u))
<1> DEFINE r == Realm(in)
           c == SamlOf(in, p)
           profile == Connection(in).clients[ConnectionName(p)]
           user == RealmUser(in, u)
           rebuilt == GeneratedAttributes(user, profile)
           expected == ExpectedAttributes(in, u)
           emitted == Assertion(r, c, u)
<1>1. Generatable(in) /\ in.saml \in SamlDocuments
  BY ServableGenerates
<1>2. /\ profile.claims \subseteq KnownSamlClaims /\ profile.contexts # {}
      /\ profile.binding = "Attribute" => profile.subject \in profile.claims
  <2>1. SamlAgreement(in, p, c, profile)
    BY <1>1, SamlAgrees
  <2> HIDE DEF c, profile
  <2> QED
    BY <2>1 DEF SamlAgreement
<1>3. r.users[u] = user
  BY GeneratedUser
<1>4. /\ DOMAIN emitted \subseteq profile.claims
      /\ \A claim \in profile.claims \ {"realm_roles"} :
           ValuesOf(emitted, claim) = Values(claim, expected[claim])
      /\ "realm_roles" \in profile.claims =>
           ValuesOf(emitted, "realm_roles") =
             {DefaultRole} \cup expected["eem_permission_profiles"]
  BY <1>1, AssertionOf
<1>5. Values("subject-id", expected["subject-id"]) # {}
  BY DEF Values, MultiValued
<1>6. /\ "eem_permission_profiles" \in MultiValued
      /\ "realm_roles" \notin MultiValued /\ "subject-id" \notin MultiValued
  BY DEF MultiValued
<1> HIDE DEF profile, r, c, emitted
<1>7. /\ DOMAIN rebuilt = profile.claims \ {"realm_roles"}
      /\ \A claim \in profile.claims \ {"realm_roles", "subject-id"} :
           rebuilt[claim] = Values(claim, expected[claim])
      /\ "subject-id" \in profile.claims => rebuilt["subject-id"] = {}
  <2>1. Rebuilds(rebuilt, expected, profile.claims)
    BY <1>2, GeneratedAttributesOf
  <2> HIDE DEF rebuilt, expected
  <2> QED
    BY <2>1 DEF Rebuilds
<1> HIDE DEF user, rebuilt, expected
<1>8. (\A claim \in profile.claims \ {"realm_roles"} :
         claim \in DOMAIN rebuilt /\ ValuesOf(emitted, claim) = rebuilt[claim])
        <=> "subject-id" \notin profile.claims
  BY <1>4, <1>5, <1>7
<1>9. "eem_permission_profiles" \in DOMAIN rebuilt <=>
        "eem_permission_profiles" \in profile.claims
  BY <1>7
<1>10. "eem_permission_profiles" \in profile.claims /\ "realm_roles" \in profile.claims =>
         rebuilt["eem_permission_profiles"] \subseteq ValuesOf(emitted, "realm_roles")
  <2>1. Values("eem_permission_profiles", expected["eem_permission_profiles"]) =
          expected["eem_permission_profiles"]
    BY <1>6 DEF Values
  <2> QED
    BY <1>4, <1>7, <2>1
<1>11. profile.binding = "Attribute" =>
         (ValuesOf(emitted, profile.subject) # {} <=> Valued(expected, {profile.subject}))
  <2>1. CASE profile.subject = "realm_roles"
    BY <1>2, <1>4, <1>6, <2>1 DEF Valued
  <2>2. CASE profile.subject # "realm_roles"
    BY <1>2, <1>4, <2>2, ValuesOfClaim
  <2> QED
    BY <2>1, <2>2
<1>12. AssertionAccepted(r, c, u, profile, user.nameId[c.clientId], rebuilt) <=>
         /\ AssertedContext \in profile.contexts
         /\ "eem_permission_profiles" \in profile.claims
         /\ "subject-id" \notin profile.claims
         /\ Bound(profile, expected)
  <2>1. AssertionAccepted(r, c, u, profile, user.nameId[c.clientId], rebuilt) <=>
          /\ AssertedContext \in profile.contexts
          /\ "subject-id" \notin profile.claims
          /\ "eem_permission_profiles" \in profile.claims
          /\ profile.binding = "Attribute" => ValuesOf(emitted, profile.subject) # {}
    BY <1>2, <1>3, <1>4, <1>8, <1>9, <1>10 DEF AssertionAccepted, emitted
  <2> QED
    BY <1>11, <2>1 DEF Bound
<1> QED
  BY <1>12 DEF r, c, profile, user, rebuilt, expected

\* the OIDC half of verify_group_claims.py passes exactly with these settings
LEMMA GroupOidcOf ==
  ASSUME NEW in, Servable(in), in.env.oidc, NEW u \in KnownUsers(in.users),
         EffectiveUser(in.users, u).enabled
  PROVE  LET r == Realm(in)
             user == RealmUser(in, u)
             modern == Connection(in).clients["modern"]
         IN (\E login \in OidcLogins(r, modern, user.username, user.password, TRUE) :
               LET claims == ClaimsOf(r, login) IN
               /\ login.client.consent = modern.consent
               /\ claims["sub"] = user.id
               /\ "groups" \in DOMAIN claims /\ claims["groups"] = user.groups) <=>
              /\ "northlake" \in modern.scope /\ "groups" \in modern.claims
              /\ UserGroups(in, u) # {} /\ in.env.namespace = in.env.key
<1> DEFINE r == Realm(in)
           user == RealmUser(in, u)
           modern == Connection(in).clients["modern"]
           c == ModernOf(in)
           claims == OidcClaims(r, c, u)
<1>1. LogsIn(in, user.username, user.password, u)
  <2>1. /\ user.username = EffectiveUser(in.users, u).username
        /\ user.password = EffectiveUser(in.users, u).password
    BY GeneratedUser
  <2>2. Authenticated(r, EffectiveUser(in.users, u).username,
                      EffectiveUser(in.users, u).password) = {u}
    BY ServableGenerates, LoginOf
  <2> HIDE DEF user
  <2> QED
    BY <2>1, <2>2 DEF LogsIn
<1>2. /\ c \in r.clients /\ c.protocol = "openid-connect"
      /\ c.clientId = modern.clientId
      /\ c.redirectUris = modern.redirectUris /\ c.redirectUris # {}
      /\ c.consent = modern.consent
  BY ModernAgrees, ServableGenerates
<1>3. DistinctClients(in)
  BY ServableGenerates
<1>4. "groups" \in NorthlakeClaims
  BY DEF NorthlakeClaims
<1>5. /\ claims["sub"] = Subject(in, u)
      /\ "groups" \in DOMAIN claims <=>
           /\ "northlake" \in modern.scope /\ "groups" \in modern.claims
           /\ Valued(ExpectedAttributes(in, u), {"groups"})
      /\ "groups" \in DOMAIN claims => claims["groups"] = ExpectedAttributes(in, u)["groups"]
  BY <1>4, ModernClaims
<1>6. /\ ExpectedAttributes(in, u)["groups"] = user.groups
      /\ Valued(ExpectedAttributes(in, u), {"groups"}) <=> UserGroups(in, u) # {}
  <2>1. /\ ExpectedAttributes(in, u)["groups"] = UserGroups(in, u)
        /\ user.groups = UserGroups(in, u)
    BY ExpectedOf, RealmUserFields
  <2> HIDE DEF user
  <2> QED
    BY <2>1 DEF Valued, MultiValued
<1>7. Subject(in, u) = user.id <=> in.env.namespace = in.env.key
  <2>1. user.id = StableId(in.env.key, "user", u)
    BY RealmUserFields
  <2> HIDE DEF user
  <2> QED
    BY <2>1 DEF Subject, StableId
<1> HIDE DEF modern, c, user
<1>8. Matched(in, c, modern)
  BY <1>2, <1>3 DEF Matched
<1>9. Only(OidcLogins(r, modern, user.username, user.password, TRUE), c, u)
  BY <1>1, <1>2, <1>8, OidcLoginsOf
<1> DEFINE login == [client |-> c, user |-> u]
<1>10. login.client = c /\ ClaimsOf(r, login) = claims
  BY DEF ClaimsOf
<1> HIDE DEF claims, login, r
<1>11. (\E l \in OidcLogins(r, modern, user.username, user.password, TRUE) :
          LET given == ClaimsOf(r, l) IN
          /\ l.client.consent = modern.consent
          /\ given["sub"] = user.id
          /\ "groups" \in DOMAIN given /\ given["groups"] = user.groups) <=>
         /\ "northlake" \in modern.scope /\ "groups" \in modern.claims
         /\ UserGroups(in, u) # {} /\ in.env.namespace = in.env.key
  BY <1>2, <1>5, <1>6, <1>7, <1>9, <1>10 DEF Only, login
<1> QED
  BY <1>11 DEF r, modern, user

\* its SAML half passes exactly with these settings
LEMMA GroupSamlOf ==
  ASSUME NEW in, Servable(in), "saml" \in DOMAIN Connection(in).clients,
         NEW u \in KnownUsers(in.users), EffectiveUser(in.users, u).enabled
  PROVE  LET r == Realm(in)
             user == RealmUser(in, u)
             standard == Connection(in).clients["saml"]
         IN (\E login \in SamlLogins(r, standard, user.username, user.password) :
               LET c == login.client IN
               /\ AssertionAccepted(r, c, login.user, standard, user.nameId[c.clientId],
                                    GeneratedAttributes(user, standard))
               /\ "groups" \in DOMAIN Assertion(r, c, login.user)
               /\ Assertion(r, c, login.user)["groups"] = user.groups) <=>
              /\ UserGroups(in, u) # {}
              /\ {"groups", "eem_permission_profiles"} \subseteq standard.claims
              /\ "subject-id" \notin standard.claims
              /\ AssertedContext \in standard.contexts
              /\ Bound(standard, ExpectedAttributes(in, u))
<1> DEFINE r == Realm(in)
           user == RealmUser(in, u)
           standard == Connection(in).clients["saml"]
           c == SamlOf(in, "Standard")
<1>1. LogsIn(in, user.username, user.password, u)
  <2>1. /\ user.username = EffectiveUser(in.users, u).username
        /\ user.password = EffectiveUser(in.users, u).password
    BY GeneratedUser
  <2>2. Authenticated(r, EffectiveUser(in.users, u).username,
                      EffectiveUser(in.users, u).password) = {u}
    BY ServableGenerates, LoginOf
  <2> HIDE DEF user
  <2> QED
    BY <2>1, <2>2 DEF LogsIn
<1>2. "Standard" \in DOMAIN SamlProfilesOf(in) /\ ConnectionName("Standard") = "saml"
  BY ConnectionKinds DEF ConnectionName, Profiles
<1>3. Matched(in, c, standard)
  BY <1>2, SamlMatched
<1>4. c.protocol = "saml"
  BY DEF SamlOf
<1>5. user.groups = UserGroups(in, u)
  BY RealmUserFields
<1>6. /\ "groups" \in DOMAIN Assertion(r, c, u) <=>
           "groups" \in standard.claims /\ UserGroups(in, u) # {}
      /\ "groups" \in DOMAIN Assertion(r, c, u) => Assertion(r, c, u)["groups"] = user.groups
  <2> DEFINE emitted == Assertion(r, c, u)
  <2>1. /\ DOMAIN emitted \subseteq standard.claims
        /\ \A claim \in standard.claims \ {"realm_roles"} :
             ValuesOf(emitted, claim) = Values(claim, ExpectedAttributes(in, u)[claim])
    BY <1>2, ServableGenerates, AssertionOf
  <2>2. Values("groups", ExpectedAttributes(in, u)["groups"]) = UserGroups(in, u)
    <3>1. ExpectedAttributes(in, u)["groups"] = UserGroups(in, u)
      BY ExpectedOf
    <3> QED
      BY <3>1 DEF Values, MultiValued
  <2>3. "groups" \in DOMAIN emitted => emitted["groups"] # {}
    <3>1. \A claim \in DOMAIN Assertion(r, c, u) : Assertion(r, c, u)[claim] # {}
      BY DEF Assertion
    <3> QED
      BY <3>1
  <2> HIDE DEF c, standard, user, emitted
  <2>4. "groups" \in standard.claims => ValuesOf(emitted, "groups") = UserGroups(in, u)
    BY <2>1, <2>2
  <2>5. /\ "groups" \in DOMAIN emitted <=> "groups" \in standard.claims /\ UserGroups(in, u) # {}
        /\ "groups" \in DOMAIN emitted => emitted["groups"] = user.groups
    BY <1>5, <2>1, <2>3, <2>4 DEF ValuesOf
  <2> QED
    BY <2>5 DEF emitted
<1>7. AssertionAccepted(r, c, u, standard, user.nameId[c.clientId],
                        GeneratedAttributes(user, standard)) <=>
        /\ AssertedContext \in standard.contexts
        /\ "eem_permission_profiles" \in standard.claims
        /\ "subject-id" \notin standard.claims
        /\ Bound(standard, ExpectedAttributes(in, u))
  BY <1>2, RebuiltAccepted
<1> HIDE DEF standard, c, user
<1>8. Only(SamlLogins(r, standard, user.username, user.password), c, u)
  BY <1>1, <1>3, <1>4, ClientLogins DEF SamlLogins
<1> DEFINE login == [client |-> c, user |-> u]
<1>9. login.client = c /\ login.user = u
  OBVIOUS
<1> HIDE DEF login, r
<1>10. (\E l \in SamlLogins(r, standard, user.username, user.password) :
          /\ AssertionAccepted(r, l.client, l.user, standard, user.nameId[l.client.clientId],
                               GeneratedAttributes(user, standard))
          /\ "groups" \in DOMAIN Assertion(r, l.client, l.user)
          /\ Assertion(r, l.client, l.user)["groups"] = user.groups) <=>
         /\ UserGroups(in, u) # {}
         /\ {"groups", "eem_permission_profiles"} \subseteq standard.claims
         /\ "subject-id" \notin standard.claims
         /\ AssertedContext \in standard.contexts
         /\ Bound(standard, ExpectedAttributes(in, u))
  BY <1>5, <1>6, <1>7, <1>8, <1>9 DEF Only, login
<1> QED
  BY <1>10 DEF r, standard, user

\* verify_group_claims.py passes exactly with these settings
LEMMA GroupClaimsVerdictOf ==
  ASSUME NEW in, Servable(in), in.env.oidc, "saml" \in DOMAIN Connection(in).clients,
         NEW u \in KnownUsers(in.users), EffectiveUser(in.users, u).enabled
  PROVE  LET conn == Connection(in)
             standard == conn.clients["saml"]
         IN GroupClaimsVerdict(Realm(in), Realm(in), conn, u) <=>
              /\ UserGroups(in, u) # {}
              /\ {"groups", "eem_permission_profiles"} \subseteq standard.claims
              /\ "subject-id" \notin standard.claims
              /\ AssertedContext \in standard.contexts
              /\ Bound(standard, ExpectedAttributes(in, u))
              /\ "northlake" \in conn.clients["modern"].scope
              /\ "groups" \in conn.clients["modern"].claims
              /\ in.env.namespace = in.env.key
<1> DEFINE r == Realm(in)
           conn == Connection(in)
           user == RealmUser(in, u)
           modern == conn.clients["modern"]
           standard == conn.clients["saml"]
           Oidc == \E login \in OidcLogins(r, modern, user.username, user.password, TRUE) :
                     LET claims == ClaimsOf(r, login) IN
                     /\ login.client.consent = modern.consent
                     /\ claims["sub"] = user.id
                     /\ "groups" \in DOMAIN claims /\ claims["groups"] = user.groups
           Saml == \E login \in SamlLogins(r, standard, user.username, user.password) :
                     LET c == login.client IN
                     /\ AssertionAccepted(r, c, login.user, standard, user.nameId[c.clientId],
                                          GeneratedAttributes(user, standard))
                     /\ "groups" \in DOMAIN Assertion(r, c, login.user)
                     /\ Assertion(r, c, login.user)["groups"] = user.groups
<1>1. r.realm = conn.realm
  BY DEF Realm, Connection
<1>2. r.users[u] = user /\ user.enabled = EffectiveUser(in.users, u).enabled
  BY GeneratedUser
<1>3. "modern" \in DOMAIN conn.clients
  BY ServableGenerates, ModernAgrees
<1>4. Oidc <=> /\ "northlake" \in modern.scope /\ "groups" \in modern.claims
               /\ UserGroups(in, u) # {} /\ in.env.namespace = in.env.key
  BY GroupOidcOf
<1>5. Saml <=> /\ UserGroups(in, u) # {}
               /\ {"groups", "eem_permission_profiles"} \subseteq standard.claims
               /\ "subject-id" \notin standard.claims
               /\ AssertedContext \in standard.contexts
               /\ Bound(standard, ExpectedAttributes(in, u))
  BY GroupSamlOf
<1> HIDE DEF r, conn, user
<1>6. GroupClaimsVerdict(r, r, conn, u) <=>
        /\ r.realm = conn.realm /\ user.enabled
        /\ {"modern", "saml"} \subseteq DOMAIN conn.clients
        /\ Oidc /\ Saml
  BY <1>2 DEF GroupClaimsVerdict
<1>7. {"modern", "saml"} \subseteq DOMAIN conn.clients
  BY <1>3 DEF conn
<1>8. user.enabled
  BY <1>2
<1> HIDE DEF Oidc, Saml
<1>9. GroupClaimsVerdict(r, r, conn, u) <=>
        /\ UserGroups(in, u) # {}
        /\ {"groups", "eem_permission_profiles"} \subseteq standard.claims
        /\ "subject-id" \notin standard.claims
        /\ AssertedContext \in standard.contexts
        /\ Bound(standard, ExpectedAttributes(in, u))
        /\ "northlake" \in modern.scope /\ "groups" \in modern.claims
        /\ in.env.namespace = in.env.key
  BY <1>1, <1>4, <1>5, <1>6, <1>7, <1>8
<1> QED
  BY <1>9 DEF r, conn

-----------------------------------------------------------------------------
(* The inputs of the files and of the served realm.                        *)

Inputs ==
  /\ Sound(realmFile) /\ Sound(connectionFile)
  /\ \A in \in served : Servable(in)
  /\ groups = [local |-> groups.local, overrides |-> groups.overrides]
  /\ IsFiniteSet(DOMAIN groups.local)

LEMMA InputsInit == Init => Inputs
<1> SUFFICES ASSUME Init PROVE Inputs
  OBVIOUS
<1>1. groups = [local |-> << >>, overrides |-> << >>] /\ DOMAIN groups.local = {}
  <2>1. DOMAIN << >> = {}
    OBVIOUS
  <2> QED
    BY <2>1 DEF Init
<1>2. IsFiniteSet(DOMAIN groups.local)
  BY <1>1, FS_EmptySet
<1>3. GeneratorInput.saml = saml /\ GeneratorInput.groups = groups /\ saml \in SamlDocuments
  BY LabAssumption DEF Init, GeneratorInput, Selected, NoRequest
<1>4. Sound(GeneratorInput) /\ DistinctClients(GeneratorInput)
  BY <1>2, <1>3 DEF Init, Sound
<1> QED
  BY <1>1, <1>2, <1>4 DEF Init, Inputs, Servable

\* an edit of the group overlay leaves it finite
LEMMA GroupEditFinite ==
  ASSUME NEW all, all = [local |-> all.local, overrides |-> all.overrides],
         IsFiniteSet(DOMAIN all.local), NEW g, NEW members
  PROVE  LET Fine(edited) ==
               /\ edited = [local |-> edited.local, overrides |-> edited.overrides]
               /\ IsFiniteSet(DOMAIN edited.local)
         IN /\ Fine(CreatedGroup(all, g)) /\ Fine(DeletedGroup(all, g))
            /\ \A new : Fine(RenamedGroup(all, g, new))
            /\ Fine(MembersSet(all, g, members))
<1> DEFINE Fine(edited) ==
             /\ edited = [local |-> edited.local, overrides |-> edited.overrides]
             /\ IsFiniteSet(DOMAIN edited.local)
<1>1. ASSUME NEW local, IsFiniteSet(DOMAIN local)
      PROVE  Fine([all EXCEPT !.local = local])
  <2>1. [all EXCEPT !.local = local] = [local |-> local, overrides |-> all.overrides]
    OBVIOUS
  <2>2. Fine([local |-> local, overrides |-> all.overrides])
    BY <1>1
  <2> QED
    BY <2>1, <2>2
<1>2. ASSUME NEW overrides
      PROVE  Fine([all EXCEPT !.overrides = overrides])
  <2>1. [all EXCEPT !.overrides = overrides] = [local |-> all.local, overrides |-> overrides]
    OBVIOUS
  <2>2. Fine([local |-> all.local, overrides |-> overrides])
    OBVIOUS
  <2> QED
    BY <2>1, <2>2
<1>3. ASSUME NEW f, IsFiniteSet(DOMAIN f), NEW key, NEW value
      PROVE  IsFiniteSet(DOMAIN Put(f, key, value)) /\ IsFiniteSet(DOMAIN Without(f, key))
  <2>1. DOMAIN Put(f, key, value) = DOMAIN f \cup {key}
    BY DEF Put
  <2>2. DOMAIN Without(f, key) \in SUBSET (DOMAIN f)
    BY DEF Without
  <2>3. IsFiniteSet(DOMAIN f \cup {key})
    BY <1>3, FS_AddElement
  <2> QED
    BY <1>3, <2>1, <2>2, <2>3, FS_Subset
<1> HIDE DEF Fine
<1>4. Fine(CreatedGroup(all, g)) /\ Fine(DeletedGroup(all, g))
  BY <1>1, <1>3 DEF CreatedGroup, DeletedGroup
<1>5. \A new : Fine(RenamedGroup(all, g, new))
  BY <1>1, <1>3 DEF RenamedGroup
<1>6. Fine(MembersSet(all, g, members))
  BY <1>1, <1>2, <1>3 DEF MembersSet
<1> QED
  BY <1>4, <1>5, <1>6 DEF Fine

LEMMA InputsStep == Holder /\ Typed /\ Inputs /\ [Next]_vars => Inputs'
<1> SUFFICES ASSUME Holder, Typed, Inputs, [Next]_vars PROVE Inputs'
  OBVIOUS
<1>1. CASE UNCHANGED <<groups, realmFile, connectionFile, served>>
  BY <1>1 DEF Inputs, Sound, Servable
<1>2. ASSUME NEW candidate, NEW passwords, StoreUsers(candidate, passwords)
      PROVE  Inputs'
  BY <1>1, <1>2 DEF StoreUsers, published
<1>3. CASE CreateUser \/ UpdateUser \/ ResetPassword
  BY <1>2, <1>3 DEF CreateUser, UpdateUser, ResetPassword
<1>4. CASE CreateGroup \/ RenameGroup \/ DeleteGroup \/ SetMembers
  <2>1. UNCHANGED <<realmFile, connectionFile, served>>
    BY <1>4 DEF CreateGroup, RenameGroup, DeleteGroup, SetMembers, StoreGroups, published
  <2>2. /\ groups' = [local |-> groups'.local, overrides |-> groups'.overrides]
        /\ IsFiniteSet(DOMAIN groups'.local)
    <3>1. \E g, new, members :
            groups' \in {CreatedGroup(groups, g), DeletedGroup(groups, g),
                         RenamedGroup(groups, g, new), MembersSet(groups, g, members)}
      BY <1>4 DEF CreateGroup, RenameGroup, DeleteGroup, SetMembers, StoreGroups
    <3> QED
      BY <3>1, GroupEditFinite DEF Inputs
  <2> QED
    BY <2>1, <2>2 DEF Inputs, Sound, Servable
<1>5. CASE \/ \E s \in OidcDocuments : ApplyOidc(s) \/ SaveOidc(s)
           \/ \E s \in SamlDocuments, upload \in {"none", "current", "lapsed"} :
                ApplySaml(s, upload) \/ SaveSaml(s, upload)
           \/ WriteSaml \/ GenerationFails \/ PostRefused \/ Answer
           \/ FinishSave \/ Lapse \/ Restart \/ Drift \/ UNCHANGED vars
  BY <1>1, <1>5 DEF ApplyOidc, SaveOidc, ApplySaml, SaveSaml, WriteSaml, GenerationFails,
                    PostRefused, Answer, FinishSave, Lapse, Restart, Drift, vars, files,
                    published
<1>6. CASE Generate
  <2>1. GeneratorInput.saml \in SamlDocuments /\ GeneratorInput.groups = groups
    BY DEF GeneratorInput, Selected, Typed, TypeOK, Carried
  <2>2. Sound(GeneratorInput)
    BY <1>6, <2>1 DEF Generate, Sound, Inputs
  <2> QED
    BY <1>6, <2>2 DEF Generate, files, Inputs, Sound, Servable
<1>7. CASE PublishConnection
  <2>1. connectionFile' = realmFile
    BY <1>7 DEF PublishConnection, Holder, Staging
  <2> QED
    BY <1>7, <2>1 DEF PublishConnection, files, Inputs, Sound, Servable
<1>8. CASE DeleteRealm
  BY <1>8 DEF DeleteRealm, files, Inputs, Sound
<1>9. ASSUME pc = "post", \A in \in op.staged : DistinctClients(in), served' = op.staged,
             UNCHANGED <<groups, realmFile, connectionFile>>
      PROVE  Inputs'
  <2>1. served' = {realmFile}
    BY <1>9 DEF Holder, Staging
  <2>2. Servable(realmFile)
    BY <1>9, <2>1 DEF Inputs, Servable
  <2> QED
    BY <1>9, <2>1, <2>2 DEF Inputs, Sound, Servable
<1>10. CASE PostRealm
  BY <1>9, <1>10 DEF PostRealm, files
<1>11. CASE ReplacementFails
  <2>1. UNCHANGED <<groups, realmFile, connectionFile>>
    BY <1>11 DEF ReplacementFails, files
  <2>2. CASE served' = {}
    BY <2>1, <2>2 DEF Inputs, Sound
  <2> QED
    BY <1>1, <1>9, <1>11, <2>1, <2>2 DEF ReplacementFails
<1> QED
  BY <1>3, <1>4, <1>5, <1>6, <1>7, <1>8, <1>10, <1>11 DEF Next

LEMMA InputsInvariant == Spec => []Inputs
<1>1. Holder /\ Typed /\ [Next]_vars => Typed'
  BY TypedStep
<1> QED
  BY <1>1, HolderInvariant, TypedInit, InputsInit, InputsStep, PTL DEF Spec

\* an undisturbed realm is that of the connection file
LEMMA UndisturbedServable ==
  ASSUME Inputs, Undisturbed
  PROVE  Servable(connectionFile) /\ ServedRealm = Realm(connectionFile)
<1>1. served = {connectionFile} /\ drift = {}
  BY DEF Undisturbed
<1>2. ServedRealm = Realm(connectionFile)
  BY <1>1, UndisturbedRealm
<1> QED
  BY <1>1, <1>2 DEF Inputs

\* a verdict is a truth value, so an equivalence is an equation
LEMMA VerdictsAreBoolean ==
  ASSUME NEW r, NEW file, NEW conn, NEW u
  PROVE  /\ OidcVerdict(r, conn) \in BOOLEAN /\ SamlVerdict(r, conn) \in BOOLEAN
         /\ FullVerdict(r, conn) \in BOOLEAN /\ LabVerdict(r, conn) \in BOOLEAN
         /\ GroupClaimsVerdict(r, file, conn, u) \in BOOLEAN
<1>1. OidcVerdict(r, conn) \in BOOLEAN /\ SamlVerdict(r, conn) \in BOOLEAN
  BY DEF OidcVerdict, SamlVerdict
<1>2. FullVerdict(r, conn) \in BOOLEAN /\ LabVerdict(r, conn) \in BOOLEAN
  BY DEF FullVerdict, LabVerdict
<1>3. GroupClaimsVerdict(r, file, conn, u) \in BOOLEAN
  BY DEF GroupClaimsVerdict
<1> QED
  BY <1>1, <1>2, <1>3

(* An undisturbed realm passes the focused verifiers exactly under the     *)
(* settings they can cope with, for every manifest, overlay, form and      *)
(* document (verify_oidc_baseline.py, verify_saml_baseline.py): realm and  *)
(* connection profile, written by separate code, agree on everything else. *)
THEOREM GoodRealmsPass == Spec => []GoodRealmPasses
<1>1. Inputs => GoodRealmPasses
  <2> SUFFICES ASSUME Inputs, Undisturbed
               PROVE  LET in == connectionFile
                          conn == Connection(in)
                          modern == conn.clients["modern"]
                      IN /\ in.env.oidc =>
                              OidcVerdict(ServedRealm, conn) =
                                /\ "profile" \in modern.scope
                                /\ "northlake" \in modern.scope =>
                                     /\ "groups" \in modern.claims
                                     /\ Valued(conn.active.expected, {"groups"})
                                /\ Unregistered \notin modern.redirectUris
                         /\ in.env.saml =>
                              SamlVerdict(ServedRealm, conn) =
                                (Countable(conn) /\ SamlTestable(conn))
    BY DEF GoodRealmPasses
  <2> DEFINE in == connectionFile
             conn == Connection(in)
             modern == conn.clients["modern"]
             passes == /\ "profile" \in modern.scope
                       /\ "northlake" \in modern.scope =>
                            "groups" \in modern.claims /\ Valued(conn.active.expected, {"groups"})
                       /\ Unregistered \notin modern.redirectUris
  <2>1. Servable(in) /\ ServedRealm = Realm(in)
    BY UndisturbedServable
  <2>2. in.env.oidc => (OidcVerdict(ServedRealm, conn) <=> passes)
    BY <2>1, OidcVerdictOf
  <2>3. in.env.saml =>
          (SamlVerdict(ServedRealm, conn) <=> Countable(conn) /\ SamlTestable(conn))
    BY <2>1, SamlVerdictOf
  <2>4. OidcVerdict(ServedRealm, conn) \in BOOLEAN /\ SamlVerdict(ServedRealm, conn) \in BOOLEAN
    BY VerdictsAreBoolean
  <2>5. passes \in BOOLEAN
    OBVIOUS
  <2> HIDE DEF conn, passes
  <2>6. in.env.oidc => OidcVerdict(ServedRealm, conn) = passes
    BY <2>2, <2>4, <2>5
  <2>7. in.env.saml =>
          SamlVerdict(ServedRealm, conn) = (Countable(conn) /\ SamlTestable(conn))
    BY <2>3, <2>4
  <2> QED
    BY <2>6, <2>7 DEF conn, passes
<1> QED
  BY <1>1, InputsInvariant, PTL

(* verify_group_claims accepts an enabled generated user of an undisturbed *)
(* realm exactly under the conditions named, whatever the groups and their *)
(* members are (verify_group_claims.py:29-170).                            *)
THEOREM GroupClaimsAreVerifiable == Spec => []GroupClaimsVerifiable
<1>1. Inputs => GroupClaimsVerifiable
  <2> DEFINE in == connectionFile
             conn == Connection(in)
             standard == conn.clients["saml"]
             Passes(u) == /\ UserGroups(in, u) # {}
                          /\ {"groups", "eem_permission_profiles"} \subseteq standard.claims
                          /\ "subject-id" \notin standard.claims
                          /\ AssertedContext \in standard.contexts
                          /\ Bound(standard, ExpectedAttributes(in, u))
                          /\ "northlake" \in conn.clients["modern"].scope
                          /\ "groups" \in conn.clients["modern"].claims
                          /\ in.env.namespace = in.env.key
  <2> SUFFICES ASSUME Inputs, Undisturbed, realmFile = connectionFile, in.env.oidc,
                      "saml" \in DOMAIN conn.clients,
                      NEW u \in KnownUsers(in.users), EffectiveUser(in.users, u).enabled
               PROVE  GroupClaimsVerdict(ServedRealm, Realm(in), conn, u) = Passes(u)
    BY DEF GroupClaimsVerifiable
  <2>1. Servable(in) /\ ServedRealm = Realm(in)
    BY UndisturbedServable
  <2>2. GroupClaimsVerdict(Realm(in), Realm(in), conn, u) <=> Passes(u)
    BY <2>1, GroupClaimsVerdictOf
  <2>3. GroupClaimsVerdict(Realm(in), Realm(in), conn, u) \in BOOLEAN
    BY VerdictsAreBoolean
  <2>4. Passes(u) \in BOOLEAN
    OBVIOUS
  <2> HIDE DEF conn, Passes
  <2> QED
    BY <2>1, <2>2, <2>3, <2>4
<1> QED
  BY <1>1, InputsInvariant, PTL

(* The verifier of the stable realm and the one of the two-realm           *)
(* laboratory accept an undisturbed realm exactly under the settings       *)
(* named (verify_identity.py, verify_scenarios.py).                        *)
THEOREM StableRealmsPass == Spec => []StableRealmPasses
<1>1. Inputs => StableRealmPasses
  <2> DEFINE in == connectionFile
             conn == Connection(in)
             modern == conn.clients["modern"]
             callback == First(modern.redirectUris)
             full == /\ Countable(conn) /\ SamlTestable(conn)
                     /\ Unregistered \notin modern.redirectUris
                     /\ "offline_access" \notin modern.scope /\ modern.par # "Require"
                     /\ {"profile", "email", "northlake"} \subseteq modern.scope
                     /\ {"groups", "primary_company_id", "eem_permission_profiles"}
                          \subseteq modern.claims
                     /\ Valued(conn.active.expected, {"groups", "eem_permission_profiles"})
                     /\ callback \in modern.logoutUris
                     /\ "legacy" \in DOMAIN conn.clients =>
                          /\ First(conn.clients["legacy"].redirectUris) = callback
                          /\ callback \in conn.clients["legacy"].logoutUris
             lab == /\ in.env.site /\ DOMAIN conn.clients = {"modern", "saml"}
                    /\ SamlTestable(conn) /\ Unregistered \notin modern.redirectUris
                    /\ {"profile", "email"} \subseteq modern.scope
                    /\ modern.claims # {} => "northlake" \in modern.scope
                    /\ Valued(conn.active.expected, modern.claims)
  <2> SUFFICES ASSUME Inputs, Undisturbed, in.env.oidc
               PROVE  /\ FullVerdict(ServedRealm, conn) = full
                      /\ LabVerdict(ServedRealm, conn) = lab
    BY DEF StableRealmPasses
  <2>1. Servable(in) /\ ServedRealm = Realm(in)
    BY UndisturbedServable
  <2>2. FullVerdict(Realm(in), conn) <=> full
    BY <2>1, FullVerdictOf
  <2>3. LabVerdict(Realm(in), conn) <=> lab
    BY <2>1, LabVerdictOf
  <2>4. FullVerdict(Realm(in), conn) \in BOOLEAN /\ LabVerdict(Realm(in), conn) \in BOOLEAN
    BY VerdictsAreBoolean
  <2>5. full \in BOOLEAN /\ lab \in BOOLEAN
    OBVIOUS
  <2> HIDE DEF conn, full, lab
  <2> QED
    BY <2>1, <2>2, <2>3, <2>4, <2>5
<1> QED
  BY <1>1, InputsInvariant, PTL

-----------------------------------------------------------------------------
(* A served realm that was edited in the console.                          *)

\* the realm that was posted, before the edits
Posted == Realm(CHOOSE in \in served : TRUE)

\* an edit keeps the id and the protocol of a client
LEMMA EditedClientKeeps ==
  ASSUME NEW c, {"clientId", "protocol", "redirectUris"} \subseteq DOMAIN c
  PROVE  EditedClient(c).clientId = c.clientId /\ EditedClient(c).protocol = c.protocol
<1> DEFINE added == (IF "open redirects" \in drift THEN {Unregistered} ELSE {}) \cup
                    (IF "extra redirect" \in drift THEN {<<"elsewhere">>} ELSE {})
           edited == [c EXCEPT !.redirectUris = @ \cup added]
           mapped == [edited EXCEPT !.mappers["email"] = <<"property", "username">>]
<1>1. /\ edited.clientId = c.clientId /\ edited.protocol = c.protocol
      /\ {"clientId", "protocol"} \subseteq DOMAIN edited
  <2> HIDE DEF added
  <2> QED
    OBVIOUS
<1> HIDE DEF edited
<1>2. mapped.clientId = edited.clientId /\ mapped.protocol = edited.protocol
  BY <1>1
<1>3. EditedClient(c) \in {edited, mapped}
  BY DEF EditedClient, edited
<1> HIDE DEF mapped
<1> QED
  BY <1>1, <1>2, <1>3

\* every generated client has the fields an edit may touch
LEMMA ClientDomain ==
  ASSUME NEW in, NEW c \in Realm(in).clients
  PROVE  {"clientId", "protocol", "redirectUris"} \subseteq DOMAIN c
<1>1. c \in OidcClients(in) \cup SamlClients(in) \cup CustomerSiteClients(in)
  BY DEF Realm
<1>2. CASE c \in OidcClients(in)
  BY <1>2 DEF OidcClients, OidcClient
<1>3. CASE c \in SamlClients(in)
  BY <1>3 DEF SamlClients
<1>4. CASE c \in CustomerSiteClients(in)
  <2>1. CustomerSiteClients(in) \subseteq {CustomerOf(in, kind) : kind \in Kinds}
    BY DEF CustomerSiteClients, CustomerOf
  <2>2. \A kind : {"clientId", "protocol", "redirectUris"} \subseteq DOMAIN CustomerOf(in, kind)
    BY DEF CustomerOf
  <2> QED
    BY <1>4, <2>1, <2>2
<1> QED
  BY <1>1, <1>2, <1>3, <1>4

\* what an edit in the console reaches
LEMMA ServedParts ==
  /\ ServedRealm.clients = {EditedClient(c) : c \in Posted.clients}
  /\ ServedRealm.users = [u \in DOMAIN Posted.users |-> EditedUser(Posted.users[u])]
<1> DEFINE r == Posted
           clients == {EditedClient(c) : c \in r.clients}
           people == [u \in DOMAIN r.users |-> EditedUser(r.users[u])]
<1>1. ServedRealm = [r EXCEPT !.clients = clients, !.users = people]
  BY DEF ServedRealm, Posted
<1>2. {"clients", "users"} \subseteq DOMAIN r
  BY DEF Posted, Realm
<1> HIDE DEF r, clients, people
<1>3. /\ [r EXCEPT !.clients = clients, !.users = people].clients = clients
      /\ [r EXCEPT !.clients = clients, !.users = people].users = people
  BY <1>2
<1> QED
  BY <1>1, <1>3 DEF r, clients, people

\* no two clients of the served realm have one id, and no two users one name
LEMMA ServedApart ==
  ASSUME Inputs, served # {}
  PROVE  /\ \A c, d \in ServedRealm.clients : c.clientId = d.clientId => c = d
         /\ \A u, v \in DOMAIN ServedRealm.users :
              ServedRealm.users[u].username = ServedRealm.users[v].username => u = v
<1> DEFINE s == CHOOSE in \in served : TRUE
<1>1. Servable(s)
  BY DEF Inputs
<1>2. Posted = Realm(s)
  BY DEF Posted
<1>3. UsersMerge(s.users) /\ DistinctClients(s)
  BY <1>1, ServableGenerates
<1> HIDE DEF s
<1>4. \A c, d \in ServedRealm.clients : c.clientId = d.clientId => c = d
  <2>1. \A c \in Realm(s).clients : EditedClient(c).clientId = c.clientId
    BY ClientDomain, EditedClientKeeps
  <2>2. ServedRealm.clients = {EditedClient(c) : c \in Realm(s).clients}
    BY <1>2, ServedParts
  <2> QED
    BY <1>3, <2>1, <2>2 DEF DistinctClients
<1>5. /\ DOMAIN ServedRealm.users = KnownUsers(s.users)
      /\ \A u \in KnownUsers(s.users) :
           ServedRealm.users[u].username = EffectiveUser(s.users, u).username
  <2>1. ServedRealm.users =
          [u \in DOMAIN Realm(s).users |-> EditedUser(Realm(s).users[u])]
    BY <1>2, ServedParts
  <2>2. DOMAIN Realm(s).users = KnownUsers(s.users)
    BY DEF Realm
  <2>3. ASSUME NEW u \in KnownUsers(s.users)
        PROVE  ServedRealm.users[u].username = EffectiveUser(s.users, u).username
    <3> DEFINE user == RealmUser(s, u)
    <3>1. "username" \in DOMAIN user /\ user.username = EffectiveUser(s.users, u).username
      BY DEF RealmUser
    <3>2. ServedRealm.users[u] = EditedUser(user)
      BY <2>1, <2>2, GeneratedUser
    <3> HIDE DEF user
    <3>3. EditedUser(user).username = user.username
      BY <3>1 DEF EditedUser
    <3> QED
      BY <3>1, <3>2, <3>3
  <2> QED
    BY <2>1, <2>2, <2>3
<1>6. \A u, v \in DOMAIN ServedRealm.users :
        ServedRealm.users[u].username = ServedRealm.users[v].username => u = v
  <2>1. \A v, w \in DOMAIN EffectiveUsers(s.users) : v # w =>
          EffectiveUsers(s.users)[v].username # EffectiveUsers(s.users)[w].username
    BY <1>3 DEF UsersMerge
  <2> QED
    BY <1>3, <1>5, <2>1, KnownUserIds
<1> QED
  BY <1>4, <1>6

\* the one client of the generated realm with the protocol and the id of its
\* Standard profile is the client of that profile
LEMMA StandardClient ==
  ASSUME NEW in, Sound(in), "saml" \in DOMAIN Connection(in).clients
  PROVE  LET profile == Connection(in).clients["saml"] IN
         /\ "Standard" \in DOMAIN SamlProfilesOf(in)
         /\ SamlOf(in, "Standard").redirectUris = profile.redirectUris
         /\ \A c : (/\ c \in Realm(in).clients
                    /\ c.protocol = "saml" /\ c.clientId = profile.clientId)
                      <=> c = SamlOf(in, "Standard")
<1> DEFINE profile == Connection(in).clients["saml"]
           profiles == SamlProfilesOf(in)
           standard == SamlOf(in, "Standard")
<1>1. Generatable(in) /\ in.saml \in SamlDocuments
  BY DEF Sound, GenerationOutcome
<1>2. "Standard" \in DOMAIN profiles
  BY ConnectionKinds DEF ConnectionName, Profiles
<1>3. SamlAgreement(in, "Standard", standard, profile)
  BY <1>1, <1>2, SamlAgrees DEF ConnectionName
<1>4. /\ standard \in Realm(in).clients /\ standard.protocol = "saml"
      /\ standard.clientId = profile.clientId
      /\ standard.redirectUris = profile.redirectUris
  <2> HIDE DEF profile, standard
  <2> QED
    BY <1>3 DEF SamlAgreement
<1>5. ASSUME NEW c \in Realm(in).clients, c.protocol = "saml",
             c.clientId = profile.clientId
      PROVE  c = standard
  <2>1. c \in OidcClients(in) \cup SamlClients(in) \cup CustomerSiteClients(in)
    BY DEF Realm
  <2>2. c \notin OidcClients(in)
    BY <1>5 DEF OidcClients, OidcClient
  <2>3. c \notin CustomerSiteClients(in)
    <3>1. CustomerSiteClients(in) \subseteq {CustomerOf(in, kind) : kind \in Kinds}
      BY DEF CustomerSiteClients, CustomerOf
    <3>2. \A kind : CustomerOf(in, kind).protocol = "openid-connect"
      BY DEF CustomerOf
    <3> QED
      BY <1>5, <3>1, <3>2
  <2>4. PICK p \in DOMAIN profiles : c = SamlOf(in, p)
    <3>1. SamlClients(in) = {SamlOf(in, p) : p \in DOMAIN profiles}
      BY DEF SamlClients, SamlOf
    <3> HIDE DEF profiles
    <3> QED
      BY <2>1, <2>2, <2>3, <3>1
  <2>5. \A q : SamlOf(in, q).clientId = profiles[q].entity
    BY DEF SamlOf
  <2>6. profiles[p].entity = profiles["Standard"].entity
    <3> HIDE DEF profiles, standard, profile
    <3> QED
      BY <1>4, <1>5, <2>4, <2>5 DEF standard
  <2>7. p = "Standard"
    <3> DEFINE read == SamlFromEnvironment(in.saml)
    <3>1. \A q \in DOMAIN profiles :
            q \in Profiles /\ in.env.saml /\ profiles[q] = read[q] /\ read[q].enabled
      BY DEF SamlProfilesOf
    <3>2. SamlAccepted(read)
      BY <1>1, <3>1, <1>2 DEF Generatable
    <3> HIDE DEF read, profiles
    <3>3. SUFFICES ASSUME p = "Saml2Int" PROVE FALSE
      BY <3>1 DEF Profiles
    <3> QED
      BY <1>2, <2>6, <3>1, <3>2, <3>3 DEF SamlAccepted, Profiles
  <2> QED
    BY <2>4, <2>7
<1> HIDE DEF profile, profiles, standard
<1> QED
  BY <1>2, <1>4, <1>5 DEF profile, profiles, standard

\* the generated realm emits for the active test user what its connection
\* profile expects
LEMMA StandardAttributes ==
  ASSUME NEW in, Sound(in), "saml" \in DOMAIN Connection(in).clients
  PROVE  LET conn == Connection(in) IN
         \E a : /\ Authenticated(Realm(in), conn.active.username, conn.password) = {a}
                /\ \A claim \in conn.clients["saml"].claims \ {"realm_roles"} :
                     ValuesOf(Assertion(Realm(in), SamlOf(in, "Standard"), a), claim)
                       = Expected(conn.active)[claim]
<1> DEFINE conn == Connection(in)
<1>1. /\ GenerationOutcome(in) = "generated" /\ Generatable(in)
      /\ UsersMerge(in.users) /\ in.saml \in SamlDocuments
  BY DEF Sound, GenerationOutcome, Generatable
<1>2. PICK a, d \in KnownUsers(in.users) :
        /\ EffectiveUser(in.users, a).enabled = TRUE
        /\ conn.active = TestUser(in, a)
        /\ conn.password = EffectiveUser(in.users, a).password
  BY <1>1, TestUsersOf
<1>3. "Standard" \in DOMAIN SamlProfilesOf(in)
  BY StandardClient
<1> HIDE DEF conn
<1>4. /\ conn.active.username = EffectiveUser(in.users, a).username
      /\ conn.active.expected = ExpectedAttributes(in, a)
  BY <1>2 DEF TestUser
<1>5. Authenticated(Realm(in), conn.active.username, conn.password) = {a}
  BY <1>1, <1>2, <1>4, LoginOf
<1>6. \A claim \in conn.clients["saml"].claims \ {"realm_roles"} :
        ValuesOf(Assertion(Realm(in), SamlOf(in, "Standard"), a), claim)
          = Expected(conn.active)[claim]
  <2>1. ConnectionName("Standard") = "saml"
    BY DEF ConnectionName
  <2>2. \A claim \in conn.clients["saml"].claims \ {"realm_roles"} :
          /\ claim \in DOMAIN conn.active.expected
          /\ ValuesOf(Assertion(Realm(in), SamlOf(in, "Standard"), a), claim)
               = Values(claim, conn.active.expected[claim])
    BY <1>1, <1>3, <1>4, <2>1, AssertionOf DEF conn
  <2> QED
    BY <2>2 DEF Expected
<1> QED
  BY <1>5, <1>6 DEF conn

\* what a passing verdict says of the served realm
LEMMA PassingVerdict ==
  ASSUME NEW r, NEW conn,
         \A c, d \in r.clients : c.clientId = d.clientId => c = d,
         \A u, v \in DOMAIN r.users : r.users[u].username = r.users[v].username => u = v,
         "saml" \in DOMAIN conn.clients, SamlVerdict(r, conn)
  PROVE  LET profile == conn.clients["saml"] IN
         \E c, a :
           /\ c.redirectUris = profile.redirectUris
           /\ \A d : (/\ d \in r.clients
                      /\ d.protocol = "saml" /\ d.clientId = profile.clientId) <=> d = c
           /\ Authenticated(r, conn.active.username, conn.password) = {a}
           /\ \A claim \in profile.claims \ {"realm_roles"} :
                ValuesOf(Assertion(r, c, a), claim) = Expected(conn.active)[claim]
           /\ \A word : Authenticated(r, conn.disabled.username, word) = {}
<1> DEFINE profile == conn.clients["saml"]
<1>1. AdminVerdict(r, conn) /\ StandardVerdict(r, conn)
  BY DEF SamlVerdict
<1>2. PICK c \in ClientsOf(r, profile.clientId) : c.redirectUris = profile.redirectUris
  BY <1>1 DEF AdminVerdict, RedirectsExact
<1>3. c \in r.clients /\ c.clientId = profile.clientId
  BY <1>2 DEF ClientsOf
<1>4. \A d \in ClientsOf(r, profile.clientId) : d = c
  BY <1>3 DEF ClientsOf
<1>5. PICK login \in SamlLogins(r, profile, conn.active.username, conn.password) :
        AssertionAccepted(r, login.client, login.user, profile,
                          conn.active.nameId, Expected(conn.active))
  BY <1>1 DEF StandardVerdict
<1>6. /\ login.client \in ClientsOf(r, profile.clientId)
      /\ login.client.protocol = "saml"
      /\ login.user \in Authenticated(r, conn.active.username, conn.password)
  BY <1>5 DEF SamlLogins, LoginsAt
<1> DEFINE a == login.user
<1>7. login.client = c /\ c.protocol = "saml"
  BY <1>4, <1>6
<1>8. Authenticated(r, conn.active.username, conn.password) = {a}
  <2>1. \A u \in Authenticated(r, conn.active.username, conn.password) :
          u \in DOMAIN r.users /\ r.users[u].username = conn.active.username
    BY DEF Authenticated
  <2> QED
    BY <1>6, <2>1
<1>9. \A claim \in profile.claims \ {"realm_roles"} :
        ValuesOf(Assertion(r, c, a), claim) = Expected(conn.active)[claim]
  BY <1>5, <1>7 DEF AssertionAccepted
<1>10. \A word : Authenticated(r, conn.disabled.username, word) = {}
  <2>1. PICK listed \in Listings(r.users) : TestUsersListed(r, listed, conn)
    BY <1>1 DEF AdminVerdict
  <2>2. listed \subseteq DOMAIN r.users
    BY <2>1 DEF Listings, kSubset
  <2>3. PICK u \in listed : /\ r.users[u].username = conn.disabled.username
                            /\ ~r.users[u].enabled
    BY <2>1 DEF TestUsersListed
  <2> QED
    BY <2>2, <2>3 DEF Authenticated
<1>11. \A d : (/\ d \in r.clients
               /\ d.protocol = "saml" /\ d.clientId = profile.clientId) <=> d = c
  BY <1>3, <1>7
<1> HIDE DEF profile, a
<1> QED
  BY <1>2, <1>8, <1>9, <1>10, <1>11 DEF profile

(* A realm that passes the SAML verifier is, for a service provider, the   *)
(* one the files describe, whatever was edited in the console and however  *)
(* old the served realm is: its client has the generated redirects, no     *)
(* password logs the disabled test user in, and the active one gets the    *)
(* generated attributes (verify_saml_baseline.py, verify_identity.py).     *)
THEOREM PassingRealmsAreGenerated == Spec => []PassingRealmIsGenerated
<1>1. Inputs => PassingRealmIsGenerated
  <2> DEFINE conn == Connection(connectionFile)
             good == Realm(connectionFile)
             profile == conn.clients["saml"]
             Client(r) == CHOOSE c \in r.clients :
                            c.protocol = "saml" /\ c.clientId = profile.clientId
             Active(r) == CHOOSE u \in Authenticated(r, conn.active.username,
                                                     conn.password) : TRUE
             Attributes(r) ==
               [claim \in profile.claims \ {"realm_roles"} |->
                  ValuesOf(Assertion(r, Client(r), Active(r)), claim)]
             standard == SamlOf(connectionFile, "Standard")
             expected == [claim \in profile.claims \ {"realm_roles"} |->
                            Expected(conn.active)[claim]]
  <2> SUFFICES ASSUME Inputs, served # {}, "saml" \in DOMAIN conn.clients,
                      SamlVerdict(ServedRealm, conn)
               PROVE  /\ Client(ServedRealm).redirectUris = Client(good).redirectUris
                      /\ \A word \in 0 .. minted :
                           Authenticated(ServedRealm, conn.disabled.username, word) = {}
                      /\ Attributes(ServedRealm) = Attributes(good)
    BY DEF PassingRealmIsGenerated
  <2>1. Sound(connectionFile)
    BY DEF Inputs
  <2>2. /\ standard.redirectUris = profile.redirectUris
        /\ \A c : (/\ c \in good.clients
                   /\ c.protocol = "saml" /\ c.clientId = profile.clientId)
                     <=> c = standard
    BY <2>1, StandardClient
  <2>3. PICK g : /\ Authenticated(good, conn.active.username, conn.password) = {g}
                 /\ \A claim \in profile.claims \ {"realm_roles"} :
                      ValuesOf(Assertion(good, standard, g), claim)
                        = Expected(conn.active)[claim]
    BY <2>1, StandardAttributes
  <2>4. PICK c, a :
          /\ c.redirectUris = profile.redirectUris
          /\ \A d : (/\ d \in ServedRealm.clients
                     /\ d.protocol = "saml" /\ d.clientId = profile.clientId) <=> d = c
          /\ Authenticated(ServedRealm, conn.active.username, conn.password) = {a}
          /\ \A claim \in profile.claims \ {"realm_roles"} :
               ValuesOf(Assertion(ServedRealm, c, a), claim) = Expected(conn.active)[claim]
          /\ \A word : Authenticated(ServedRealm, conn.disabled.username, word) = {}
    BY ServedApart, PassingVerdict
  <2> HIDE DEF conn, good, standard
  <2>5. Client(good) = standard /\ Client(ServedRealm) = c
    BY <2>2, <2>4
  <2>6. Active(good) = g /\ Active(ServedRealm) = a
    BY <2>3, <2>4
  <2> HIDE DEF Client, Active
  <2>7. Attributes(good) = expected
    BY <2>3, <2>5, <2>6
  <2>8. Attributes(ServedRealm) = expected
    BY <2>4, <2>5, <2>6
  <2> QED
    BY <2>2, <2>4, <2>5, <2>7, <2>8
<1> QED
  BY <1>1, InputsInvariant, PTL
=============================================================================
