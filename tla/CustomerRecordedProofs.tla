------------------------- MODULE CustomerRecordedProofs -------------------------
(***************************************************************************)
(* Proofs about CustomerRecorded, for any handlers, slots, realms and      *)
(* Keycloak sessions and any bounds: what one request after the other      *)
(* keeps, although logins and logouts stay open across other requests and  *)
(* sessions expire, connection files change and the server restarts.       *)
(*                                                                         *)
(* The argument: a session id is dead when it has no session and the       *)
(* browser neither has it nor is about to get it.  While requests do not   *)
(* overlap a dead id stays dead: a callback uses the browser's id or a new *)
(* one.                                                                    *)
(***************************************************************************)
EXTENDS CustomerRecorded, CustomerLabProofs

(* Every session id in use has been generated.                             *)
Known ==
  /\ cookie <= minted
  /\ \A t \in Handlers : job[t].cookie <= minted /\ job[t].reply <= minted
  /\ \A i \in Ids : sessions[i] # NoSession => i <= minted
  /\ \A s \in 1..MaxLogouts :
       logoutTransactions[s] # NoTransaction => logoutTransactions[s].sessionId <= minted
  /\ \A i \in ended : i <= minted

(* The Keycloak sessions of a session, and of a login, have begun.         *)
Issued ==
  /\ \A i \in Ids : sessions[i] # NoSession =>
       \A k \in Kinds : sessions[i].clients[k] # NoSid
                          => provider[sessions[i].clients[k]] # "unborn"
  /\ \A t \in Handlers : pc[t] = "establish" => provider[job[t].sid] # "unborn"

(* The browser neither has the id nor is about to get it.                  *)
Dead(i) ==
  /\ sessions[i] = NoSession
  /\ \A t \in Handlers : pc[t] = "reply" => job[t].reply # i
  /\ (\A t \in Handlers : pc[t] # "reply") => cookie # i

Lives(i, realm) ==
  /\ sessions[i] # NoSession
  /\ sessions[i].realm = realm
  /\ <<"session", i>> \notin expired

Solo == \A t, u \in Handlers : pc[t] # "idle" /\ pc[u] # "idle" => t = u

(* What a handler has read is still so.                                    *)
StillSo(t) ==
  /\ pc[t] \notin {"idle", "reply"} => job[t].cookie = cookie
  /\ pc[t] = "remove" /\ job[t].op = "frontchannel" =>
       /\ job[t].cookie \in Ids
       /\ sessions[job[t].cookie] # NoSession =>
            \E k \in Kinds : sessions[job[t].cookie].clients[k] = job[t].sid
  /\ pc[t] = "store" => Lives(job[t].cookie, job[t].realm)
  /\ pc[t] \in {"admin", "mark"} =>
       (sessions[job[t].cookie] # NoSession =>
          /\ sessions[job[t].cookie].realm = job[t].realm
          /\ sessions[job[t].cookie].username = job[t].user)
  /\ pc[t] = "mark" => \A sid \in UserSessions(t) : provider[sid] # "live"

LogoutsFollowed ==
  \A s \in 1..MaxLogouts :
    logoutTransactions[s] # NoTransaction /\ <<"logout", s>> \notin expired =>
      \/ Dead(logoutTransactions[s].sessionId)
      \/ Lives(logoutTransactions[s].sessionId, logoutTransactions[s].realm)

Alone ==
  /\ Solo
  /\ \A t \in Handlers : StillSo(t)
  /\ \A i \in ended : Dead(i)
  /\ LogoutsFollowed
  /\ TerminatedSessionEnded

RInv ==
  /\ Known
  /\ Issued
  /\ overlapped \in BOOLEAN
  /\ ~overlapped => Alone

LEMMA InitRInv == RecordedInit => RInv
<1> SUFFICES ASSUME RecordedInit PROVE RInv
  OBVIOUS
<1>1. /\ \A t \in Handlers : pc[t] = "idle" /\ job[t].cookie = 0 /\ job[t].reply = 0
      /\ \A i \in Ids : sessions[i] = NoSession
      /\ \A s \in 1..MaxLogouts : logoutTransactions[s] = NoTransaction
      /\ cookie = 0 /\ minted = 0 /\ ended = {} /\ overlapped = FALSE
  BY DEF RecordedInit, Init, NoJob, NoCookie
<1>2. Known /\ Issued
  BY <1>1 DEF Known, Issued
<1>3. Alone
  BY <1>1 DEF Alone, Solo, StillSo, LogoutsFollowed, TerminatedSessionEnded, HeldByItsUser
<1>4. QED
  BY <1>1, <1>2, <1>3 DEF RInv

-----------------------------------------------------------------------------
(* What a step of a handler does to the variables, whatever its action.    *)

LEMMA Types ==
  ASSUME CInv
  PROVE  /\ TypeOK
         /\ minted \in Nat
         /\ \A t \in Handlers : job[t].cookie \in Cookies /\ job[t].reply \in Cookies
         /\ \A i \in Cookies : i \in Nat
         /\ Ids \subseteq Cookies
         /\ NoCookie = 0 /\ NoCookie \in Cookies /\ NoCookie \notin Ids
  BY CustomerAssumption DEF CInv, TypeOK, Job, Cookies, Ids, NoCookie

(* The session a callback ends with.                                       *)
LEMMA EstablishOutcome ==
  ASSUME CInv, NEW t \in Handlers, Establish(t)
  PROVE  \E id \in Ids, next \in Session :
           /\ Reply(t, id)
           /\ next.realm = job[t].realm
           /\ ~next.terminated
           /\ \A k \in Kinds :
                \/ next.clients[k] \in {NoSid, job[t].sid}
                \/ /\ job[t].cookie \in Ids
                   /\ sessions[job[t].cookie] # NoSession
                   /\ next.clients[k] = sessions[job[t].cookie].clients[k]
           /\ sessions'[id] = next
           /\ \A i \in Ids : i # id =>
                sessions'[i] = IF Foreign(t) /\ i = job[t].cookie THEN NoSession
                               ELSE PurgedSessions[i]
           /\ \/ id = minted + 1 /\ minted' = minted + 1
              \/ id = job[t].cookie /\ minted' = minted /\ ~Foreign(t)
<1> DEFINE found == SessionOf(job[t].cookie)
           id    == IF Mints(t) THEN minted + 1 ELSE job[t].cookie
           kept  == IF Foreign(t) THEN [PurgedSessions EXCEPT ![job[t].cookie] = NoSession]
                    ELSE PurgedSessions
           next  == IF found = NoSession \/ Foreign(t) THEN NewSession(t)
                    ELSE Extended(t, found)
<1>1. /\ TypeOK /\ Exchanging(t)
      /\ job[t].sid \in Sids /\ job[t].realm \in Realms
      /\ job[t].kind \in Kinds /\ job[t].cookie \in Cookies
  BY DEF CInv, Establish, Exchanging, Carried, TypeOK, Job
<1>2. id \in Ids
  BY <1>1, MintRoom DEF Mints, Cookies
<1>3. /\ next \in Session
      /\ next.realm = job[t].realm
      /\ ~next.terminated
      /\ \A k \in Kinds :
           \/ next.clients[k] \in {NoSid, job[t].sid}
           \/ /\ job[t].cookie \in Ids
              /\ sessions[job[t].cookie] # NoSession
              /\ next.clients[k] = sessions[job[t].cookie].clients[k]
  <2>1. CASE found = NoSession \/ Foreign(t)
    BY <1>1, <2>1, NewSessionType
  <2>2. CASE ~(found = NoSession \/ Foreign(t))
    <3>1. found \in Session /\ found = sessions[job[t].cookie] /\ job[t].cookie \in Ids
      BY <1>1, <2>2, SessionOfFacts
    <3>2. /\ next.clients = [found.clients EXCEPT ![job[t].kind] = job[t].sid]
          /\ next.realm = found.realm
          /\ next \in Session
          /\ ~next.terminated
      BY <1>1, <2>2, <3>1, ExtendedType
    <3>3. found.realm = job[t].realm
      BY <2>2 DEF Foreign
    <3>4. found.clients \in [Kinds -> Sids \union {NoSid}]
      BY <3>1 DEF Session
    <3>5. found # NoSession
      BY <2>2
    <3> HIDE DEF found, next
    <3>6. QED
      BY <1>1, <3>1, <3>2, <3>3, <3>4, <3>5
  <2>3. QED
    BY <2>1, <2>2
<1>4. kept \in [Ids -> Session \union {NoSession}] /\ PurgedSessions \in [Ids -> Session \union {NoSession}]
  BY <1>1, PurgeFacts
<1>5. \A i \in Ids : kept[i] = IF Foreign(t) /\ i = job[t].cookie THEN NoSession
                               ELSE PurgedSessions[i]
  BY <1>4
<1>6. \/ id = minted + 1 /\ minted' = minted + 1
      \/ id = job[t].cookie /\ minted' = minted /\ ~Foreign(t)
  BY DEF Establish, Mints
<1> HIDE DEF found, id, kept, next
<1>7. sessions' = [kept EXCEPT ![id] = next] /\ Reply(t, id)
  BY DEF Establish, found, id, kept, next
<1>8. sessions'[id] = next /\ \A i \in Ids : i # id => sessions'[i] = kept[i]
  BY <1>2, <1>4, <1>7
<1>9. QED
  BY <1>2, <1>3, <1>5, <1>6, <1>7, <1>8

SessionsShrink == \A i \in Ids : sessions'[i] \in {sessions[i], NoSession}

LEMMA StepShrinksSessions ==
  ASSUME CInv, NEW t \in Handlers, Request(t) \/ Step(t), ~Establish(t), ~Mark(t)
  PROVE  SessionsShrink
<1>0. TypeOK
  BY DEF CInv
<1>1. CASE UNCHANGED sessions
  BY <1>1 DEF SessionsShrink
<1>2. CASE sessions' = PurgedSessions
  BY <1>0, <1>2, PurgeFacts DEF SessionsShrink
<1>3. CASE Remove(t)
  BY <1>0, <1>3 DEF Remove, SessionsShrink
<1>4. CASE Complete(t)
  <2>1. CASE sessions' = [PurgedSessions EXCEPT ![PurgedLogouts[job[t].state].sessionId] = NoSession]
    BY <1>0, <2>1, PurgeFacts DEF SessionsShrink
  <2>2. QED
    BY <1>2, <1>4, <2>1 DEF Complete
<1>5. QED
  BY <1>1, <1>2, <1>3, <1>4
  DEF Request, Step, Receive, Authorize, Take, Exchange, ReadSession, StoreLogout,
      AdminLogout, store

(* A request starts with the browser's cookie.                             *)
LEMMA RequestOutcome ==
  ASSUME CInv, NEW t \in Handlers, Request(t)
  PROVE  /\ pc[t] = "idle"
         /\ pc'[t] \in {"read", "authorize", "take", "complete"}
         /\ job'[t].cookie = cookie
         /\ job'[t].reply = NoCookie
         /\ UNCHANGED <<connections, transactions, logoutTransactions, sessions, minted,
                        expired, ended, cookie, logins, logouts>>
<1>0. /\ TypeOK /\ NoJob \in Job /\ NoJob.cookie = NoCookie /\ NoJob.reply = NoCookie
      /\ t \in DOMAIN pc /\ t \in DOMAIN job
  BY NoJobType DEF CInv, TypeOK, NoJob
<1>1. /\ pc[t] = "idle"
      /\ UNCHANGED <<connections, transactions, logoutTransactions, sessions, minted, expired,
                     ended, cookie, logins, logouts>>
  BY DEF Request, store, browser
<1>2. ASSUME NEW op \in AllOps,
             job' = [job EXCEPT ![t] = [NoJob EXCEPT !.op = op, !.cookie = cookie]],
             Goto(t, "read")
      PROVE  /\ pc'[t] = "read" /\ job'[t].cookie = cookie /\ job'[t].reply = NoCookie
  BY <1>0, <1>2 DEF Goto, Job
<1>3. ASSUME NEW slot \in Slots, NEW kind \in Kinds,
             job' = [job EXCEPT ![t] = [NoJob EXCEPT !.op = "login", !.cookie = cookie,
                                                     !.slot = slot, !.kind = kind]],
             Goto(t, "authorize")
      PROVE  /\ pc'[t] = "authorize" /\ job'[t].cookie = cookie /\ job'[t].reply = NoCookie
  BY <1>0, <1>3 DEF Goto, Job
<1>4. ASSUME NEW state \in 1..Len(logins), NEW kind \in Kinds, NEW realm \in Realms,
             job' = [job EXCEPT ![t] = [NoJob EXCEPT !.op = "callback", !.cookie = cookie,
                                                     !.state = state, !.kind = kind,
                                                     !.realm = realm]],
             Goto(t, "take")
      PROVE  /\ pc'[t] = "take" /\ job'[t].cookie = cookie /\ job'[t].reply = NoCookie
  BY <1>0, <1>4 DEF Goto, Job
<1>5. ASSUME NEW state \in 1..Len(logouts), NEW realm \in Realms,
             job' = [job EXCEPT ![t] = [NoJob EXCEPT !.op = "signedOut", !.cookie = cookie,
                                                     !.state = state, !.realm = realm]],
             Goto(t, "complete")
      PROVE  /\ pc'[t] = "complete" /\ job'[t].cookie = cookie /\ job'[t].reply = NoCookie
  BY <1>0, <1>5 DEF Goto, Job
<1>6. ASSUME NEW sid \in Sids,
             job' = [job EXCEPT ![t] = [NoJob EXCEPT !.op = "frontchannel", !.cookie = cookie,
                                                     !.sid = sid, !.realm = RealmOf[sid]]],
             Goto(t, "read")
      PROVE  /\ pc'[t] = "read" /\ job'[t].cookie = cookie /\ job'[t].reply = NoCookie
  BY <1>0, <1>6 DEF Goto, Job
<1>7. Ops \subseteq AllOps
  BY CustomerAssumption
<1>8. QED
  BY <1>1, <1>2, <1>3, <1>4, <1>5, <1>6, <1>7 DEF Request

(* The ids a handler carries come from the cookie, its answers from the    *)
(* session it ended with.                                                  *)
LEMMA CookieFlow ==
  ASSUME CInv, NEW t \in Handlers, Request(t) \/ Step(t), ~Establish(t)
  PROVE  /\ cookie' \in {cookie, job[t].reply}
         /\ job'[t].cookie \in {NoCookie, cookie, job[t].cookie}
         /\ job'[t].reply \in {NoCookie, job[t].reply}
         /\ minted' = minted
<1>0. TypeOK /\ NoJob \in Job /\ NoJob.cookie = NoCookie /\ NoJob.reply = NoCookie
      /\ job[t] \in Job
  BY NoJobType DEF CInv, TypeOK, NoJob
<1>1. minted' = minted
  BY DEF Request, Step, Receive, Authorize, Take, Exchange, ReadSession, Remove, StoreLogout,
         Complete, AdminLogout, Mark, store
<1>2. cookie' \in {cookie, job[t].reply}
  BY DEF Request, Step, Receive, Authorize, Take, Exchange, ReadSession, Remove, StoreLogout,
         Complete, AdminLogout, Mark, browser
<1>3. CASE Done(t) \/ UNCHANGED job
  BY <1>0, <1>1, <1>2, <1>3 DEF Done, TypeOK
<1>4. CASE Reply(t, NoCookie)
  BY <1>0, <1>1, <1>2, <1>4 DEF Reply, TypeOK, Job
<1>5. CASE Request(t)
  <2>1. job'[t].cookie = cookie /\ job'[t].reply = NoCookie
    BY <1>5, RequestOutcome
  <2>2. QED
    BY <1>1, <1>2, <2>1
<1>6. CASE Exchange(t) \/ ReadSession(t)
  <2>1. (job'[t].cookie = job[t].cookie /\ job'[t].reply = job[t].reply) \/ Done(t)
    <3>1. CASE Exchange(t)
      BY <1>0, <3>1 DEF Exchange, TypeOK, Job
    <3>2. CASE ReadSession(t)
      <4> DEFINE found == SessionOf(job[t].cookie)
      <4>1. CASE UNCHANGED job
        BY <4>1
      <4>2. CASE job' = [job EXCEPT ![t].realm = found.realm, ![t].user = found.username]
        BY <1>0, <4>2 DEF TypeOK, Job
      <4>3. CASE job' = [job EXCEPT ![t].realm = found.realm, ![t].sid = HintOf(found)]
        BY <1>0, <4>3 DEF TypeOK, Job
      <4>4. QED
        BY <3>2, <4>1, <4>2, <4>3, ReadOutcomes
    <3>3. QED
      BY <1>6, <3>1, <3>2
  <2>2. QED
    BY <1>1, <1>2, <1>3, <2>1
<1>7. QED
  BY <1>3, <1>4, <1>5, <1>6
  DEF Step, Receive, Authorize, Take, Remove, StoreLogout, Complete, AdminLogout, Mark,
      ClearCookie

(* Keycloak never gives an ended session back.                             *)
LEMMA ProviderKept ==
  ASSUME CInv, NEW t \in Handlers, Request(t) \/ Step(t), NEW sid \in Sids
  PROVE  /\ provider[sid] = "ended" => provider'[sid] = "ended"
         /\ provider[sid] # "unborn" => provider'[sid] # "unborn"
<1>0. provider \in [Sids -> {"unborn", "live", "ended"}]
  BY DEF CInv, TypeOK
<1>1. CASE UNCHANGED provider
  BY <1>1
<1>2. CASE Request(t)
  BY <1>0, <1>2 DEF Request
<1>3. CASE Exchange(t)
  BY <1>0, <1>3 DEF Exchange
<1>4. CASE AdminLogout(t)
  BY <1>0, <1>4 DEF AdminLogout
<1>5. QED
  BY <1>1, <1>2, <1>3, <1>4
  DEF Step, Receive, Authorize, Take, Establish, ReadSession, Remove, StoreLogout,
      Complete, Mark

-----------------------------------------------------------------------------
(* What holds however many requests overlap.                               *)

LEMMA KnownStep ==
  ASSUME CInv, Known, NEW t \in Handlers, Request(t) \/ Step(t)
  PROVE  Known'
<1>0. TypeOK /\ TypeOK' /\ CInv'
  BY HandlerStep DEF CInv
<1>1. /\ minted \in Nat /\ minted' \in Nat
      /\ \A u \in Handlers : /\ job[u].cookie \in Nat /\ job[u].reply \in Nat
                             /\ job'[u].cookie \in Nat /\ job'[u].reply \in Nat
      /\ cookie \in Nat /\ cookie' \in Nat
  <2>1. \A u \in Handlers : job'[u].cookie \in Cookies /\ job'[u].reply \in Cookies
    BY <1>0 DEF TypeOK, Job
  <2>2. minted' \in Nat /\ cookie' \in Cookies /\ cookie \in Cookies
    BY <1>0, CustomerAssumption DEF TypeOK
  <2>3. QED
    BY <2>1, <2>2, Types
<1>2. \A u \in Handlers : u # t => job'[u] = job[u]
  BY OthersKept
<1>3. CASE Establish(t)
  <2>1. PICK id \in Ids, next \in Session :
          /\ Reply(t, id)
          /\ \A i \in Ids : i # id =>
               sessions'[i] = IF Foreign(t) /\ i = job[t].cookie THEN NoSession
                              ELSE PurgedSessions[i]
          /\ \/ id = minted + 1 /\ minted' = minted + 1
             \/ id = job[t].cookie /\ minted' = minted /\ ~Foreign(t)
    BY <1>3, EstablishOutcome
  <2>2. minted <= minted' /\ id <= minted' /\ id \in Nat
    BY <1>1, <2>1 DEF Known, Ids
  <2>3. job'[t].cookie = job[t].cookie /\ job'[t].reply = id
    BY <1>0, <2>1 DEF Reply, TypeOK, Job
  <2>4. \A u \in Handlers : job'[u].cookie <= minted' /\ job'[u].reply <= minted'
    BY <1>1, <1>2, <2>2, <2>3 DEF Known
  <2>5. \A i \in Ids : sessions'[i] # NoSession => i <= minted'
    BY <1>0, <1>1, <2>1, <2>2, PurgeFacts DEF Known, Ids
  <2>6. \A s \in 1..MaxLogouts :
          logoutTransactions'[s] # NoTransaction => logoutTransactions'[s].sessionId <= minted'
    <3>1. \A s \in 1..MaxLogouts : logoutTransactions'[s] \in {logoutTransactions[s], NoTransaction}
      BY <1>3, StepKeepsLogouts DEF LogoutsKept, Establish, StoreLogout
    <3>2. \A s \in 1..MaxLogouts :
            logoutTransactions[s] # NoTransaction => logoutTransactions[s].sessionId \in Nat
      BY DEF CInv, Holding, Ids
    <3>3. QED
      BY <1>1, <2>2, <3>1, <3>2 DEF Known
  <2>7. cookie' = cookie /\ ended' = ended
    BY <1>3 DEF Establish, browser
  <2>8. \A i \in ended' : i <= minted'
    BY <1>0, <1>1, <2>2, <2>7 DEF Known, TypeOK, Ids
  <2>9. cookie' <= minted'
    BY <1>1, <2>2, <2>7 DEF Known
  <2>10. QED
    BY <2>4, <2>5, <2>6, <2>8, <2>9 DEF Known
<1>4. CASE ~Establish(t)
  <2>1. /\ cookie' \in {cookie, job[t].reply}
        /\ job'[t].cookie \in {NoCookie, cookie, job[t].cookie}
        /\ job'[t].reply \in {NoCookie, job[t].reply}
        /\ minted' = minted
    BY <1>4, CookieFlow
  <2>2. cookie' <= minted' /\ \A u \in Handlers : job'[u].cookie <= minted' /\ job'[u].reply <= minted'
    BY <1>1, <1>2, <2>1 DEF Known, NoCookie
  <2>3. \A i \in Ids : sessions'[i] # NoSession => i <= minted'
    BY <1>4, <2>1, StepKeepsSessions DEF Known, SessionsKept
  <2>4. \A s \in 1..MaxLogouts :
          logoutTransactions'[s] # NoTransaction => logoutTransactions'[s].sessionId <= minted'
    <3>1. CASE StoreLogout(t)
      <4> DEFINE entry == [realm |-> job[t].realm, sessionId |-> job[t].cookie]
      <4>1. entry.sessionId <= minted
        BY DEF Known
      <4>2. logoutTransactions' = [logoutTransactions EXCEPT ![Len(logouts) + 1] = entry]
        BY <3>1 DEF StoreLogout
      <4> HIDE DEF entry
      <4>3. QED
        BY <1>0, <2>1, <4>1, <4>2 DEF Known, TypeOK
    <3>2. CASE ~StoreLogout(t)
      BY <2>1, <3>2, StepKeepsLogouts DEF Known, LogoutsKept
    <3>3. QED
      BY <3>1, <3>2
  <2>5. \A i \in ended' : i <= minted'
    <3>1. CASE Remove(t)
      BY <2>1, <3>1 DEF Remove, Known
    <3>2. CASE Complete(t)
      <4> DEFINE transaction == PurgedLogouts[job[t].state]
      <4>1. job[t].state \in 1..MaxLogouts
        BY <1>0, <3>2 DEF Complete, CInv, Carried, Numbered, TypeOK
      <4>2. transaction # NoTransaction => transaction.sessionId <= minted
        BY <1>0, <4>1, PurgeFacts DEF Known
      <4>3. ended' = ended \/ (transaction # NoTransaction
                               /\ ended' = ended \union {transaction.sessionId})
        BY <3>2 DEF Complete
      <4> HIDE DEF transaction
      <4>4. QED
        BY <2>1, <4>2, <4>3 DEF Known
    <3>3. CASE UNCHANGED ended
      BY <2>1, <3>3 DEF Known
    <3>4. QED
      BY <1>4, <3>1, <3>2, <3>3
      DEF Request, Step, Receive, Authorize, Take, Exchange, ReadSession, StoreLogout,
          AdminLogout, Mark, store
  <2>6. QED
    BY <2>2, <2>3, <2>4, <2>5 DEF Known
<1>5. QED
  BY <1>3, <1>4

LEMMA IssuedStep ==
  ASSUME CInv, Issued, NEW t \in Handlers, Request(t) \/ Step(t)
  PROVE  Issued'
<1>0. TypeOK /\ Carried(t) /\ CInv'
  BY HandlerStep DEF CInv
<1>1. \A i \in Ids : sessions[i] # NoSession => sessions[i] \in Session
  BY <1>0 DEF TypeOK
<1>2. \A i \in Ids : sessions[i] # NoSession =>
        \A k \in Kinds : sessions[i].clients[k] # NoSid => sessions[i].clients[k] \in Sids
  BY <1>1 DEF Session
<1>3. ASSUME NEW i \in Ids, sessions'[i] # NoSession, NEW k \in Kinds,
             sessions'[i].clients[k] # NoSid
      PROVE  provider'[sessions'[i].clients[k]] # "unborn"
  <2>1. CASE sessions[i] # NoSession /\ sessions'[i].clients = sessions[i].clients
    BY <1>2, <1>3, <2>1, ProviderKept DEF Issued
  <2>2. CASE ~Establish(t)
    BY <1>3, <2>1, <2>2, StepKeepsSessions DEF SessionsKept
  <2>3. CASE Establish(t)
    <3>1. PICK id \in Ids, next \in Session :
            /\ \A j \in Kinds :
                 \/ next.clients[j] \in {NoSid, job[t].sid}
                 \/ /\ job[t].cookie \in Ids
                    /\ sessions[job[t].cookie] # NoSession
                    /\ next.clients[j] = sessions[job[t].cookie].clients[j]
            /\ sessions'[id] = next
            /\ \A j \in Ids : j # id =>
                 sessions'[j] = IF Foreign(t) /\ j = job[t].cookie THEN NoSession
                                ELSE PurgedSessions[j]
      BY <2>3, EstablishOutcome
    <3>2. CASE i # id
      BY <1>0, <1>3, <2>1, <3>1, <3>2, PurgeFacts
    <3>3. CASE i = id
      <4>1. provider[job[t].sid] # "unborn" /\ job[t].sid \in Sids
        BY <1>0, <2>3 DEF Issued, Establish, Carried
      <4>2. CASE next.clients[k] = job[t].sid
        BY <3>1, <3>3, <4>1, <4>2, ProviderKept
      <4>3. CASE /\ job[t].cookie \in Ids
                 /\ sessions[job[t].cookie] # NoSession
                 /\ next.clients[k] = sessions[job[t].cookie].clients[k]
        BY <1>2, <1>3, <3>1, <3>3, <4>3, ProviderKept DEF Issued
      <4>4. QED
        BY <1>3, <3>1, <3>3, <4>2, <4>3
    <3>4. QED
      BY <3>2, <3>3
  <2>4. QED
    BY <2>2, <2>3
<1>4. ASSUME NEW u \in Handlers, pc'[u] = "establish"
      PROVE  provider'[job'[u].sid] # "unborn"
  <2>1. CASE pc[u] = "establish" /\ job'[u].sid = job[u].sid
    <3>1. job[u].sid \in Sids
      BY <2>1 DEF CInv, Carried
    <3>2. QED
      BY <2>1, <3>1, ProviderKept DEF Issued
  <2>2. CASE u # t
    BY <1>4, <2>1, <2>2, OthersKept
  <2>3. CASE u = t
    <3>1. CASE Exchange(t)
      <4>1. PICK sid \in Sids : /\ provider' = [provider EXCEPT ![sid] = "live"]
                                /\ job' = [job EXCEPT ![t].sid = sid]
        BY <1>0, <1>4, <2>3, <3>1 DEF Exchange, Done, Goto, TypeOK
      <4>2. job'[t].sid = sid
        BY <1>0, <4>1 DEF TypeOK, Job
      <4>3. QED
        BY <1>0, <2>3, <4>1, <4>2 DEF TypeOK
    <3>2. CASE Request(t)
      BY <1>4, <2>3, <3>2, RequestOutcome
    <3>3. CASE ReadSession(t)
      BY <1>0, <1>4, <2>3, <3>3, ReadOutcomes DEF Done, Goto, TypeOK
    <3>4. CASE \/ Receive(t) \/ Authorize(t) \/ Take(t) \/ Establish(t) \/ Remove(t)
               \/ StoreLogout(t) \/ Complete(t) \/ AdminLogout(t) \/ Mark(t)
      BY <1>0, <1>4, <2>3, <3>4
      DEF Receive, Authorize, Take, Establish, Remove, StoreLogout, Complete, AdminLogout, Mark,
          Done, Reply, Goto, TypeOK
    <3>5. QED
      BY <3>1, <3>2, <3>3, <3>4 DEF Step
  <2>4. QED
    BY <2>2, <2>3
<1>5. QED
  BY <1>3, <1>4 DEF Issued

-----------------------------------------------------------------------------
(* What holds while requests come one at a time.                           *)

LEMMA SoloActor ==
  ASSUME CInv, Solo, NEW t \in Handlers, Request(t) \/ Step(t), ~Overlap(pc')
  PROVE  /\ \A u \in Handlers : u # t => pc[u] = "idle" /\ pc'[u] = "idle"
         /\ Solo'
<1>1. Solo'
  BY DEF Overlap, Solo
<1>2. CASE Request(t)
  <2>1. pc'[t] # "idle"
    BY <1>2, RequestOutcome
  <2>2. QED
    BY <1>1, <2>1, OthersKept DEF Solo
<1>3. CASE Step(t)
  <2>1. pc[t] # "idle"
    BY <1>3 DEF Step, Receive, Authorize, Take, Exchange, Establish, ReadSession, Remove,
                StoreLogout, Complete, AdminLogout, Mark
  <2>2. QED
    BY <1>1, <2>1, OthersKept DEF Solo
<1>4. QED
  BY <1>2, <1>3

(* Where a step leaves its handler: an answer other than a callback's      *)
(* clears the cookie, and a handler that goes on keeps the cookie it has.  *)
LEMMA StepOutcome ==
  ASSUME CInv, NEW t \in Handlers, Step(t)
  PROVE  /\ pc'[t] = "reply" /\ ~Establish(t) => job'[t].reply = NoCookie
         /\ Receive(t) => pc[t] = "reply" /\ pc'[t] = "idle" /\ cookie' = job[t].reply
         /\ ~Receive(t) => pc[t] # "reply" /\ cookie' = cookie
         /\ pc'[t] \notin {"idle", "reply"} =>
              pc[t] \notin {"idle", "reply"} /\ job'[t].cookie = job[t].cookie
         /\ expired' \subseteq expired
         /\ pc'[t] \in {"remove", "store"} => ReadSession(t)
         /\ pc'[t] = "admin" => ReadSession(t)
         /\ pc'[t] = "mark" => AdminLogout(t)
<1>0. /\ TypeOK /\ t \in DOMAIN pc /\ t \in DOMAIN job /\ job[t] \in Job
      /\ NoJob \in Job
  BY NoJobType DEF CInv, TypeOK
<1>1. CASE Receive(t)
  BY <1>0, <1>1 DEF Receive, Done, Goto, store
<1>2. CASE Authorize(t) \/ StoreLogout(t) \/ Mark(t)
  BY <1>0, <1>2 DEF Authorize, StoreLogout, Mark, Done, Goto, browser, Receive
<1>3. CASE Take(t)
  BY <1>0, <1>3 DEF Take, Done, Goto, browser, Receive
<1>4. CASE Exchange(t)
  <2>1. CASE Done(t)
    BY <1>0, <1>4, <2>1 DEF Exchange, Done, Goto, browser, store, Receive
  <2>2. CASE ~Done(t)
    <3>1. PICK sid \in Sids : job' = [job EXCEPT ![t].sid = sid] /\ Goto(t, "establish")
      BY <1>4, <2>2 DEF Exchange
    <3>2. job'[t].cookie = job[t].cookie /\ pc'[t] = "establish"
      BY <1>0, <3>1 DEF Job, Goto
    <3>3. QED
      BY <1>0, <1>4, <3>2 DEF Exchange, browser, store, Receive
  <2>3. QED
    BY <2>1, <2>2
<1>5. CASE Establish(t)
  BY <1>0, <1>5 DEF Establish, Reply, Goto, browser, Receive
<1>6. CASE ReadSession(t)
  <2> DEFINE found == SessionOf(job[t].cookie)
  <2>1. /\ pc[t] = "read" /\ expired' \subseteq expired /\ cookie' = cookie
    BY <1>6 DEF ReadSession, browser
  <2>2. CASE Done(t)
    BY <1>0, <1>6, <2>1, <2>2 DEF Done, Goto, Receive
  <2>3. CASE Goto(t, "remove") /\ UNCHANGED job
    BY <1>0, <1>6, <2>1, <2>3 DEF Goto, Receive
  <2>4. CASE /\ Goto(t, "admin")
             /\ job' = [job EXCEPT ![t].realm = found.realm, ![t].user = found.username]
    <3>1. job'[t].cookie = job[t].cookie /\ pc'[t] = "admin"
      BY <1>0, <2>4 DEF Goto, Job
    <3>2. QED
      BY <1>6, <2>1, <3>1 DEF Receive
  <2>5. CASE /\ Goto(t, "store")
             /\ job' = [job EXCEPT ![t].realm = found.realm, ![t].sid = HintOf(found)]
    <3>1. job'[t].cookie = job[t].cookie /\ pc'[t] = "store"
      BY <1>0, <2>5 DEF Goto, Job
    <3>2. QED
      BY <1>6, <2>1, <3>1 DEF Receive
  <2>6. QED
    BY <1>6, <2>2, <2>3, <2>4, <2>5, ReadOutcomes
<1>7. CASE Remove(t)
  <2>1. job'[t].reply = NoCookie /\ pc'[t] = "reply"
    BY <1>0, <1>7 DEF Remove, Reply, Goto, ClearCookie, Job
  <2>2. QED
    BY <1>7, <2>1 DEF Remove, browser, Receive
<1>8. CASE Complete(t)
  <2>1. Done(t) \/ Reply(t, NoCookie)
    BY <1>8 DEF Complete, ClearCookie
  <2>2. pc'[t] = "idle" \/ (pc'[t] = "reply" /\ job'[t].reply = NoCookie)
    BY <1>0, <2>1 DEF Done, Reply, Goto, Job
  <2>3. QED
    BY <1>8, <2>2 DEF Complete, browser, Receive
<1>9. CASE AdminLogout(t)
  BY <1>0, <1>9 DEF AdminLogout, Done, Goto, browser, store, Receive
<1>10. QED
  BY <1>1, <1>2, <1>3, <1>4, <1>5, <1>6, <1>7, <1>8, <1>9 DEF Step

LEMMA PurgeKeepsYoung ==
  ASSUME TypeOK, NEW i \in Ids
  PROVE  /\ <<"session", i>> \notin expired => PurgedSessions[i] = sessions[i]
         /\ PurgedSessions[i] # NoSession => <<"session", i>> \notin expired
  BY DEF PurgedSessions, Purged, TypeOK

(* A dead id stays dead.                                                   *)
LEMMA DeadKept ==
  ASSUME CInv, Known, Alone, NEW t \in Handlers, Request(t) \/ Step(t), ~Overlap(pc'),
         NEW i \in Ids, i <= minted, Dead(i)
  PROVE  Dead(i)'
<1>0. /\ TypeOK /\ i \in Nat /\ minted \in Nat /\ i # NoCookie
      /\ StillSo(t)
      /\ \A u \in Handlers : u # t => pc[u] = "idle" /\ pc'[u] = "idle"
  BY Types, SoloActor DEF Alone
<1>1. CASE Request(t)
  BY <1>0, <1>1, RequestOutcome DEF Dead
<1>2. CASE Step(t) /\ Receive(t)
  <2>1. sessions' = sessions
    BY <1>2 DEF Receive, store
  <2>2. QED
    BY <1>0, <1>2, <2>1, StepOutcome DEF Dead
<1>3. CASE Step(t) /\ Establish(t)
  <2>1. PICK id \in Ids, next \in Session :
          /\ Reply(t, id)
          /\ \A j \in Ids : j # id =>
               sessions'[j] = IF Foreign(t) /\ j = job[t].cookie THEN NoSession
                              ELSE PurgedSessions[j]
          /\ \/ id = minted + 1 /\ minted' = minted + 1
             \/ id = job[t].cookie /\ minted' = minted /\ ~Foreign(t)
    BY <1>3, EstablishOutcome
  <2>2. pc[t] = "establish" /\ cookie # i /\ job[t].cookie = cookie
    BY <1>0, <1>3 DEF Establish, StillSo, Dead
  <2>3. id # i
    BY <1>0, <2>1, <2>2
  <2>4. sessions'[i] = NoSession
    BY <1>0, <2>1, <2>3, PurgeFacts DEF Dead
  <2>5. pc'[t] = "reply" /\ job'[t].reply = id
    BY <1>0, <2>1 DEF Reply, Goto, TypeOK, Job
  <2>6. QED
    BY <1>0, <2>3, <2>4, <2>5 DEF Dead
<1>4. CASE Step(t) /\ ~Receive(t) /\ ~Establish(t)
  <2>1. sessions'[i] = NoSession
    BY <1>4, StepKeepsSessions DEF SessionsKept, Dead
  <2>2. /\ pc[t] # "reply" /\ cookie' = cookie
        /\ pc'[t] = "reply" => job'[t].reply = NoCookie
    BY <1>4, StepOutcome
  <2>3. cookie # i
    BY <1>0, <2>2 DEF Dead
  <2>4. QED
    BY <1>0, <2>1, <2>2, <2>3 DEF Dead
<1>5. QED
  BY <1>1, <1>2, <1>3, <1>4

(* A session that is removed when a cookie is cleared is dead.             *)
LEMMA Removed ==
  ASSUME CInv, Solo, NEW t \in Handlers, Step(t), ~Establish(t), ~Overlap(pc'),
         NEW i \in Ids, sessions'[i] = NoSession, pc'[t] = "reply"
  PROVE  Dead(i)'
<1>1. job'[t].reply = NoCookie /\ i # NoCookie
  BY StepOutcome, Types
<1>2. \A u \in Handlers : u # t => pc'[u] = "idle"
  BY SoloActor
<1>3. QED
  BY <1>1, <1>2 DEF Dead

(* A young session goes on as one of its realm or is dead.                 *)
LEMMA LivesKept ==
  ASSUME CInv, Known, Alone, NEW t \in Handlers, Request(t) \/ Step(t), ~Overlap(pc'),
         NEW i \in Ids, NEW realm \in Realms, Lives(i, realm)
  PROVE  Lives(i, realm)' \/ Dead(i)'
<1>0. /\ TypeOK /\ i \in Nat /\ minted \in Nat /\ i # NoCookie /\ i <= minted
      /\ StillSo(t) /\ Solo
      /\ PurgedSessions[i] = sessions[i]
      /\ \A u \in Handlers : u # t => pc[u] = "idle" /\ pc'[u] = "idle"
  BY Types, SoloActor, PurgeKeepsYoung DEF Alone, Known, Lives
<1>1. CASE Request(t)
  BY <1>1, RequestOutcome DEF Lives
<1>2. CASE Step(t) /\ Establish(t)
  <2>1. PICK id \in Ids, next \in Session :
          /\ Reply(t, id)
          /\ next.realm = job[t].realm
          /\ sessions'[id] = next
          /\ \A j \in Ids : j # id =>
               sessions'[j] = IF Foreign(t) /\ j = job[t].cookie THEN NoSession
                              ELSE PurgedSessions[j]
          /\ \/ id = minted + 1 /\ minted' = minted + 1
             \/ id = job[t].cookie /\ minted' = minted /\ ~Foreign(t)
    BY <1>2, EstablishOutcome
  <2>2. expired' = {}
    BY <1>2 DEF Establish
  <2>3. CASE i = id
    <3>1. id = job[t].cookie /\ ~Foreign(t)
      BY <1>0, <2>1, <2>3
    <3>2. SessionOf(job[t].cookie) = sessions[i]
      BY <1>0, <2>3, <3>1 DEF SessionOf
    <3>3. sessions[i].realm = job[t].realm
      BY <3>1, <3>2 DEF Foreign, Lives
    <3>4. next # NoSession
      BY <2>1, CustomerAssumption
    <3>5. QED
      BY <2>1, <2>2, <2>3, <3>3, <3>4 DEF Lives
  <2>4. CASE i # id /\ ~(Foreign(t) /\ i = job[t].cookie)
    BY <1>0, <2>1, <2>2, <2>4 DEF Lives
  <2>5. CASE i # id /\ Foreign(t) /\ i = job[t].cookie
    <3>1. pc'[t] = "reply" /\ job'[t].reply = id
      BY <1>0, <2>1 DEF Reply, Goto, TypeOK, Job
    <3>2. QED
      BY <1>0, <2>1, <2>5, <3>1 DEF Dead
  <2>6. QED
    BY <2>3, <2>4, <2>5
<1>3. CASE Step(t) /\ ~Establish(t)
  <2>1. expired' \subseteq expired
    BY <1>3, StepOutcome
  <2>2. CASE sessions'[i] # NoSession
    BY <1>3, <2>1, <2>2, StepKeepsSessions DEF SessionsKept, Lives
  <2>3. CASE sessions'[i] = NoSession
    <3>1. CASE pc'[t] = "reply"
      BY <1>0, <1>3, <2>3, <3>1, Removed
    <3>2. CASE UNCHANGED sessions \/ sessions' = PurgedSessions
      BY <1>0, <2>3, <3>2 DEF Lives
    <3>3. CASE Mark(t)
      <4>1. sessions'[i] = sessions[i] \/ sessions'[i] = [sessions[i] EXCEPT !.terminated = TRUE]
        BY <1>0, <3>3 DEF Mark, TypeOK
      <4>2. sessions[i] \in Session
        BY <1>0 DEF TypeOK, Lives
      <4>3. [sessions[i] EXCEPT !.terminated = TRUE] \in Session
        BY <4>2 DEF Session
      <4>4. QED
        BY <2>3, <4>1, <4>2, <4>3, CustomerAssumption
    <3>4. CASE Remove(t)
      BY <1>0, <3>1, <3>4 DEF Remove, Reply, Goto, TypeOK
    <3>5. CASE Complete(t)
      BY <1>0, <3>1, <3>2, <3>5 DEF Complete, Reply, Goto, TypeOK
    <3>6. QED
      BY <1>3, <3>2, <3>3, <3>4, <3>5
      DEF Step, Receive, Authorize, Take, Exchange, ReadSession, StoreLogout, AdminLogout, store
  <2>4. QED
    BY <2>2, <2>3
<1>4. QED
  BY <1>1, <1>2, <1>3

(* What a handler has read stays so until it acts on it: nobody else runs. *)
LEMMA StillSoStep ==
  ASSUME CInv, Alone, NEW t \in Handlers, Request(t) \/ Step(t), ~Overlap(pc')
  PROVE  \A u \in Handlers : StillSo(u)'
<1>0. /\ TypeOK /\ StillSo(t) /\ t \in DOMAIN pc /\ t \in DOMAIN job /\ job[t] \in Job
      /\ \A u \in Handlers : u # t => pc'[u] = "idle"
  BY SoloActor DEF Alone, CInv, TypeOK
<1>1. CASE Request(t)
  BY <1>0, <1>1, RequestOutcome DEF StillSo
<1>2. CASE Step(t)
  <2>1. pc'[t] \notin {"idle", "reply"} => job'[t].cookie = cookie'
    BY <1>0, <1>2, StepOutcome DEF StillSo
  <2>2. CASE pc'[t] \notin {"remove", "store", "admin", "mark"}
    BY <1>0, <2>1, <2>2 DEF StillSo
  <2>3. CASE pc'[t] = "mark"
    <3>1. AdminLogout(t)
      BY <1>2, <2>3, StepOutcome
    <3>2. pc[t] = "admin" /\ UNCHANGED <<sessions, job>>
      BY <1>0, <2>3, <3>1 DEF AdminLogout, Done, Goto, store
    <3>3. provider' = [sid \in Sids |->
                         IF sid \in UserSessions(t) /\ provider[sid] = "live"
                         THEN "ended" ELSE provider[sid]]
      BY <1>0, <2>3, <3>1 DEF AdminLogout, Done, Goto
    <3>4. (\A sid \in UserSessions(t) : provider[sid] # "live")'
      BY <3>2, <3>3 DEF UserSessions
    <3>5. QED
      BY <1>0, <2>1, <2>3, <3>2, <3>4 DEF StillSo
  <2>4. CASE pc'[t] \in {"remove", "store", "admin"}
    <3> DEFINE found == SessionOf(job[t].cookie)
    <3>1. ReadSession(t) /\ ~Done(t)
      BY <1>0, <1>2, <2>4, StepOutcome DEF Done, Goto
    <3>2. SessionsKept /\ SessionsShrink /\ expired' \subseteq expired
      BY <1>2, <3>1, StepKeepsSessions, StepShrinksSessions, StepOutcome
      DEF ReadSession, Establish, Mark
    <3>3. found # NoSession =>
            /\ job[t].cookie \in Ids
            /\ found = sessions[job[t].cookie]
            /\ found = PurgedSessions[job[t].cookie]
            /\ <<"session", job[t].cookie>> \notin expired
      <4>1. job[t].cookie \in Cookies
        BY <1>0 DEF Job
      <4>2. found # NoSession => job[t].cookie \in Ids /\ found = sessions[job[t].cookie]
        BY <1>0, <4>1, SessionOfFacts
      <4>3. job[t].cookie \in Ids => found = PurgedSessions[job[t].cookie]
        BY DEF SessionOf, Ids, NoCookie
      <4> HIDE DEF found
      <4>4. QED
        BY <1>0, <4>2, <4>3, PurgeKeepsYoung
    <3>4. sessions' \in {sessions, PurgedSessions}
      BY <3>1 DEF ReadSession
    <3>5. CASE pc'[t] = "remove"
      <4>1. /\ UNCHANGED job
            /\ job[t].op = "frontchannel" => found # NoSession /\ Names(t, found)
        BY <1>0, <3>1, <3>5, ReadOutcomes DEF Goto
      <4>2. job[t].op = "frontchannel" =>
              \E k \in Kinds : sessions[job[t].cookie].clients[k] = job[t].sid
        BY <3>3, <4>1 DEF Names
      <4> HIDE DEF found
      <4>3. QED
        BY <1>0, <2>1, <3>2, <3>3, <3>5, <4>1, <4>2 DEF StillSo, SessionsShrink
    <3>6. CASE pc'[t] = "store"
      <4>1. /\ found # NoSession
            /\ job' = [job EXCEPT ![t].realm = found.realm, ![t].sid = HintOf(found)]
        BY <1>0, <3>1, <3>6, ReadOutcomes DEF Goto
      <4>2. job'[t].realm = found.realm /\ job'[t].cookie = job[t].cookie
        BY <1>0, <4>1 DEF Job
      <4> HIDE DEF found
      <4>3. Lives(job[t].cookie, job[t].realm)'
        BY <3>2, <3>3, <3>4, <4>1, <4>2 DEF Lives
      <4>4. QED
        BY <1>0, <2>1, <3>6, <4>3 DEF StillSo, Lives
    <3>7. CASE pc'[t] = "admin"
      <4>1. /\ found # NoSession
            /\ job' = [job EXCEPT ![t].realm = found.realm, ![t].user = found.username]
        BY <1>0, <3>1, <3>7, ReadOutcomes DEF Goto
      <4>2. /\ job'[t].realm = found.realm /\ job'[t].cookie = job[t].cookie
            /\ job'[t].user = found.username
        BY <1>0, <4>1 DEF Job
      <4> HIDE DEF found
      <4>3. QED
        BY <1>0, <2>1, <3>2, <3>3, <3>7, <4>1, <4>2 DEF StillSo, SessionsKept
    <3>8. QED
      BY <2>4, <3>5, <3>6, <3>7
  <2>5. QED
    BY <2>2, <2>3, <2>4
<1>3. QED
  BY <1>1, <1>2

(* What a logout removes is dead, and stays so.                            *)
LEMMA EndedDeadStep ==
  ASSUME CInv, Known, Alone, NEW t \in Handlers, Request(t) \/ Step(t), ~Overlap(pc')
  PROVE  \A i \in ended' : Dead(i)'
<1>0. TypeOK /\ Solo /\ Carried(t) /\ ended \subseteq Ids
  BY DEF CInv, Alone, TypeOK
<1>1. \A i \in ended : Dead(i)'
  BY <1>0, DeadKept DEF Alone, Known
<1>2. CASE UNCHANGED ended
  BY <1>1, <1>2
<1>3. CASE Remove(t)
  <2>1. ASSUME NEW i \in ended', i \notin ended
        PROVE  Dead(i)'
    <3>1. i = job[t].cookie /\ i # NoCookie
      BY <1>3, <2>1 DEF Remove
    <3>2. i \in Ids
      BY <1>0, <3>1, Types DEF Cookies
    <3>3. sessions'[i] = NoSession /\ pc'[t] = "reply"
      BY <1>0, <1>3, <3>1, <3>2 DEF Remove, Reply, Goto, TypeOK
    <3>4. QED
      BY <1>0, <1>3, <3>2, <3>3, Removed DEF Step, Remove, Establish
  <2>2. QED
    BY <1>1, <2>1
<1>4. CASE Complete(t)
  <2>1. ASSUME NEW i \in ended', i \notin ended
        PROVE  Dead(i)'
    <3> DEFINE transaction == PurgedLogouts[job[t].state]
    <3>1. /\ transaction # NoTransaction /\ i = transaction.sessionId
          /\ sessions' = [PurgedSessions EXCEPT ![transaction.sessionId] = NoSession]
          /\ Reply(t, ClearCookie(t))
      BY <1>4, <2>1 DEF Complete
    <3>2. job[t].state \in 1..MaxLogouts
      <4>1. job[t].state \in 1..Len(logouts) /\ Len(logouts) <= MaxLogouts
        BY <1>0, <1>4 DEF Complete, CInv, Carried, Numbered
      <4>2. Len(logouts) \in Nat
        BY <1>0 DEF TypeOK
      <4> HIDE DEF transaction
      <4>3. QED
        BY <4>1, <4>2, CustomerAssumption
    <3>3. transaction = logoutTransactions[job[t].state]
      BY <1>0, <3>1, <3>2, PurgeFacts
    <3>4. i \in Ids
      BY <3>1, <3>2, <3>3 DEF CInv, Holding
    <3> HIDE DEF transaction
    <3>5. sessions'[i] = NoSession /\ pc'[t] = "reply"
      BY <1>0, <3>1, <3>4, PurgeFacts DEF Reply, Goto, TypeOK
    <3>6. QED
      BY <1>0, <1>4, <3>4, <3>5, Removed DEF Step, Complete, Establish
  <2>2. QED
    BY <1>1, <2>1
<1>5. QED
  BY <1>2, <1>3, <1>4
  DEF Request, Step, Receive, Authorize, Take, Exchange, Establish, ReadSession, StoreLogout,
      AdminLogout, Mark, store

(* A logout state outside its lifetime does not survive a purge.           *)
LEMMA LogoutsPurged ==
  ASSUME CInv, NEW t \in Handlers, Request(t) \/ Step(t), ~StoreLogout(t),
         NEW s \in 1..MaxLogouts, logoutTransactions'[s] # NoTransaction,
         <<"logout", s>> \notin expired'
  PROVE  /\ logoutTransactions'[s] = logoutTransactions[s]
         /\ <<"logout", s>> \notin expired
<1>0. TypeOK
  BY DEF CInv
<1>1. logoutTransactions'[s] = logoutTransactions[s]
  BY StepKeepsLogouts DEF LogoutsKept
<1>2. CASE UNCHANGED expired
  BY <1>1, <1>2
<1>3. CASE logoutTransactions'[s] = PurgedLogouts[s]
  BY <1>0, <1>1, <1>3 DEF PurgedLogouts, Purged, TypeOK
<1>4. CASE Complete(t)
  BY <1>0, <1>3, <1>4, PurgeFacts DEF Complete
<1>5. QED
  BY <1>2, <1>3, <1>4
  DEF Request, Step, Receive, Authorize, Take, Exchange, Establish, ReadSession, Remove,
      AdminLogout, Mark, store

LEMMA LogoutsFollowedStep ==
  ASSUME CInv, Known, Alone, NEW t \in Handlers, Request(t) \/ Step(t), ~Overlap(pc')
  PROVE  LogoutsFollowed'
<1> SUFFICES ASSUME NEW s \in 1..MaxLogouts, logoutTransactions'[s] # NoTransaction,
                    <<"logout", s>> \notin expired'
             PROVE  \/ Dead(logoutTransactions[s].sessionId)'
                    \/ Lives(logoutTransactions[s].sessionId, logoutTransactions[s].realm)'
  BY DEF LogoutsFollowed
<1>0. TypeOK /\ StillSo(t) /\ Carried(t)
  BY DEF CInv, Alone
<1>1. ASSUME logoutTransactions'[s] = logoutTransactions[s], <<"logout", s>> \notin expired
      PROVE  \/ Dead(logoutTransactions[s].sessionId)'
             \/ Lives(logoutTransactions[s].sessionId, logoutTransactions[s].realm)'
  <2>1. PICK entry \in LogoutTransaction : logoutTransactions[s] = entry
    BY <1>0, <1>1 DEF TypeOK
  <2>2. /\ entry.sessionId \in Ids /\ entry.sessionId <= minted /\ entry.realm \in Realms
        /\ Dead(entry.sessionId) \/ Lives(entry.sessionId, entry.realm)
    BY <1>1, <2>1 DEF CInv, Holding, Known, Alone, LogoutsFollowed, LogoutTransaction
  <2>3. Dead(entry.sessionId)' \/ Lives(entry.sessionId, entry.realm)'
    BY <2>2, DeadKept, LivesKept
  <2>4. QED
    BY <1>1, <2>1, <2>3 DEF Dead, Lives
<1>2. CASE StoreLogout(t)
  <2> DEFINE entry == [realm |-> job[t].realm, sessionId |-> job[t].cookie]
  <2>1. /\ logoutTransactions' = [logoutTransactions EXCEPT ![Len(logouts) + 1] = entry]
        /\ UNCHANGED expired /\ pc[t] = "store"
    BY <1>2 DEF StoreLogout
  <2>2. /\ job[t].cookie \in Ids /\ job[t].realm \in Realms
        /\ Lives(job[t].cookie, job[t].realm)
    BY <1>0, <2>1 DEF Carried, StillSo
  <2>3. CASE logoutTransactions'[s] = entry
    <3>1. sessions' = sessions
      BY <1>2 DEF StoreLogout
    <3>2. /\ logoutTransactions'[s].sessionId = job[t].cookie
          /\ logoutTransactions'[s].realm = job[t].realm
      BY <2>3
    <3>3. QED
      BY <2>1, <2>2, <3>1, <3>2 DEF Lives
  <2>4. CASE s # Len(logouts) + 1
    BY <1>0, <1>1, <2>1, <2>4 DEF TypeOK
  <2> HIDE DEF entry
  <2>5. QED
    BY <1>0, <2>1, <2>3, <2>4 DEF TypeOK
<1>3. CASE ~StoreLogout(t)
  BY <1>1, <1>3, LogoutsPurged
<1>4. QED
  BY <1>2, <1>3

(* A session is marked while the Keycloak sessions of its user that had    *)
(* begun in its realm have ended; a new login clears the mark.             *)
LEMMA TerminatedStep ==
  ASSUME CInv, Issued, Alone, NEW t \in Handlers, Request(t) \/ Step(t)
  PROVE  TerminatedSessionEnded'
<1> SUFFICES ASSUME NEW i \in Ids, sessions'[i] # NoSession, sessions'[i].terminated,
                    NEW k \in Kinds, sessions'[i].clients[k] # NoSid,
                    UserOf[sessions'[i].clients[k]] = sessions'[i].username
             PROVE  provider'[sessions'[i].clients[k]] = "ended"
  BY DEF TerminatedSessionEnded, HeldByItsUser
<1>0. TypeOK /\ StillSo(t) /\ TerminatedSessionEnded
  BY DEF CInv, Alone
<1>1. sessions[i] # NoSession => sessions[i].clients[k] \in Sids \union {NoSid}
  BY <1>0 DEF TypeOK, Session
<1>2. CASE sessions'[i] = sessions[i]
  BY <1>0, <1>1, <1>2, ProviderKept DEF TerminatedSessionEnded, HeldByItsUser
<1>3. CASE Establish(t)
  <2>1. PICK id \in Ids, next \in Session :
          /\ ~next.terminated
          /\ sessions'[id] = next
          /\ \A j \in Ids : j # id =>
               sessions'[j] = IF Foreign(t) /\ j = job[t].cookie THEN NoSession
                              ELSE PurgedSessions[j]
    BY <1>3, EstablishOutcome
  <2>2. i # id
    BY <2>1
  <2>3. QED
    BY <1>0, <1>2, <2>1, <2>2, PurgeFacts
<1>4. CASE Mark(t)
  <2>1. CASE i # job[t].cookie
    BY <1>0, <1>2, <1>4, <2>1 DEF Mark, TypeOK
  <2>2. CASE i = job[t].cookie
    <3>1. /\ sessions[i] # NoSession
          /\ sessions'[i].clients = sessions[i].clients
          /\ sessions'[i].username = sessions[i].username
      BY <1>4, StepKeepsSessions DEF SessionsKept, Mark, Establish
    <3>2. sessions[i].clients[k] \in Sids /\ sessions[i].clients[k] # NoSid
      BY <1>1, <3>1
    <3>3. sessions[i].clients[k] \in UserSessions(t)
      BY <1>0, <1>4, <2>2, <3>1, <3>2
      DEF CInv, SessionBoundToIssuer, StillSo, Mark, UserSessions
    <3>4. provider[sessions[i].clients[k]] \notin {"live", "unborn"}
      BY <1>0, <1>4, <3>1, <3>2, <3>3 DEF StillSo, Mark, Issued
    <3>5. provider' = provider
      BY <1>4 DEF Mark
    <3>6. QED
      BY <1>0, <3>1, <3>2, <3>4, <3>5 DEF TypeOK
  <2>3. QED
    BY <2>1, <2>2
<1>5. CASE ~Establish(t) /\ ~Mark(t)
  BY <1>2, <1>5, StepShrinksSessions DEF SessionsShrink
<1>6. QED
  BY <1>3, <1>4, <1>5

LEMMA AloneStep ==
  ASSUME CInv, Known, Issued, Alone, NEW t \in Handlers, Request(t) \/ Step(t), ~Overlap(pc')
  PROVE  Alone'
<1>1. Solo'
  BY SoloActor DEF Alone
<1>2. QED
  BY <1>1, StillSoStep, EndedDeadStep, LogoutsFollowedStep, TerminatedStep DEF Alone

(* Time touches no session that a handler or a logout state counts on, a   *)
(* rewritten connection none, and a restart leaves none.                   *)
LEMMA EnvironmentRecorded ==
  ASSUME CInv, RInv, Expire \/ Reconfigure \/ Restart,
         overlapped' = (overlapped \/ Overlap(pc'))
  PROVE  RInv'
<1>0. TypeOK /\ minted \in Nat /\ NoCookie = 0 /\ NoJob.cookie = 0 /\ NoJob.reply = 0
  BY Types DEF NoJob
<1>1. CASE Restart
  <2>1. /\ \A t \in Handlers : pc'[t] = "idle" /\ job'[t].cookie = 0 /\ job'[t].reply = 0
        /\ \A i \in Ids : sessions'[i] = NoSession
        /\ \A s \in 1..MaxLogouts : logoutTransactions'[s] = NoTransaction
        /\ cookie' = cookie /\ minted' = minted /\ ended' = {}
    BY <1>0, <1>1 DEF Restart, browser
  <2>2. Known' /\ Issued'
    BY <1>0, <2>1 DEF RInv, Known, Issued
  <2>3. Alone'
    BY <2>1 DEF Alone, Solo, StillSo, LogoutsFollowed, TerminatedSessionEnded, HeldByItsUser
  <2>4. QED
    BY <2>2, <2>3 DEF RInv
<1>2. CASE Reconfigure
  <2>1. UNCHANGED <<store, browser, provider, pc, job>>
    BY <1>2 DEF Reconfigure
  <2>2. Known' /\ Issued' /\ overlapped' \in BOOLEAN
    BY <2>1 DEF RInv, Known, Issued, store, browser
  <2>3. Alone => Alone'
    BY <2>1 DEF Alone, Solo, StillSo, UserSessions, Lives, Dead, LogoutsFollowed,
                TerminatedSessionEnded, HeldByItsUser,
                store, browser
  <2>4. QED
    BY <2>2, <2>3 DEF RInv
<1>3. CASE Expire
  <2>1. PICK entry \in Entries \ expired :
          /\ entry[1] = "session" => ~Touched(entry[2])
          /\ expired' = expired \union {entry}
    BY <1>3 DEF Expire
  <2>2. UNCHANGED <<transactions, logoutTransactions, sessions, minted, ended, browser,
                    provider, pc, job>>
    BY <1>3 DEF Expire
  <2>3. Known' /\ Issued' /\ overlapped' \in BOOLEAN
    BY <2>2 DEF RInv, Known, Issued, browser
  <2>4. ASSUME NEW i \in Ids, Touched(i), <<"session", i>> \notin expired
        PROVE  <<"session", i>> \notin expired'
    <3>1. entry # <<"session", i>>
      BY <2>1, <2>4
    <3>2. QED
      BY <2>1, <2>4, <3>1
  <2>5. ASSUME Alone PROVE Alone'
    <3>1. Solo' /\ TerminatedSessionEnded' /\ \A i \in ended' : Dead(i)'
      BY <2>2, <2>5 DEF Alone, Solo, TerminatedSessionEnded, HeldByItsUser, Dead, browser
    <3>2. ASSUME NEW t \in Handlers PROVE StillSo(t)'
      <4>1. CASE pc[t] = "store"
        <5>1. job[t].cookie \in Ids /\ Touched(job[t].cookie)
          BY <4>1 DEF CInv, Carried, Touched
        <5>2. QED
          BY <2>2, <2>4, <2>5, <4>1, <5>1 DEF Alone, StillSo, UserSessions, Lives, browser
      <4>2. CASE pc[t] # "store"
        BY <2>2, <2>5, <4>2 DEF Alone, StillSo, UserSessions, browser
      <4>3. QED
        BY <4>1, <4>2
    <3>3. ASSUME NEW s \in 1..MaxLogouts, logoutTransactions[s] # NoTransaction,
                 <<"logout", s>> \notin expired'
          PROVE  \/ Dead(logoutTransactions[s].sessionId)'
                 \/ Lives(logoutTransactions[s].sessionId, logoutTransactions[s].realm)'
      <4>1. <<"logout", s>> \notin expired
        BY <2>1, <3>3
      <4>2. /\ logoutTransactions[s].sessionId \in Ids
            /\ Touched(logoutTransactions[s].sessionId)
        BY <3>3, <4>1 DEF CInv, Holding, Touched
      <4>3. CASE Dead(logoutTransactions[s].sessionId)
        BY <2>2, <4>3 DEF Dead, browser
      <4>4. CASE Lives(logoutTransactions[s].sessionId, logoutTransactions[s].realm)
        BY <2>2, <2>4, <4>2, <4>4 DEF Lives, browser
      <4>5. QED
        BY <2>5, <3>3, <4>1, <4>3, <4>4 DEF Alone, LogoutsFollowed
    <3>4. LogoutsFollowed'
      BY <2>2, <3>3 DEF LogoutsFollowed
    <3>5. QED
      BY <3>1, <3>2, <3>4 DEF Alone
  <2>6. QED
    BY <2>2, <2>3, <2>5 DEF RInv
<1>4. QED
  BY <1>1, <1>2, <1>3

LEMMA RInvInductive ==
  ASSUME CInv, RInv, [RecordedNext]_recordedVars
  PROVE  RInv'
<1>1. CASE UNCHANGED recordedVars
  <2>1. UNCHANGED <<store, browser, provider, pc, job, overlapped>>
    BY <1>1 DEF recordedVars, vars
  <2>2. Known' /\ Issued' /\ overlapped' \in BOOLEAN
    BY <2>1 DEF RInv, Known, Issued, store, browser
  <2>3. Alone => Alone'
    BY <2>1 DEF Alone, Solo, StillSo, UserSessions, Lives, Dead, LogoutsFollowed,
                TerminatedSessionEnded, HeldByItsUser,
                store, browser
  <2>4. QED
    BY <2>1, <2>2, <2>3 DEF RInv
<1>2. ASSUME NEW t \in Handlers, Request(t) \/ Step(t), RecordedNext
      PROVE  RInv'
  <2>1. Known' /\ Issued'
    BY <1>2, KnownStep, IssuedStep DEF RInv
  <2>2. overlapped' = (overlapped \/ Overlap(pc'))
    BY <1>2 DEF RecordedNext
  <2>3. ~overlapped' => Alone'
    BY <1>2, <2>2, AloneStep DEF RInv
  <2>4. overlapped' \in BOOLEAN
    BY <2>2 DEF RInv
  <2>5. QED
    BY <2>1, <2>3, <2>4 DEF RInv
<1>3. QED
  BY <1>1, <1>2, EnvironmentRecorded DEF RecordedNext, Next

LEMMA RInvHolds == RecordedSpec => [](CInv /\ RInv)
<1>1. RecordedInit => CInv /\ RInv
  BY InitCInv, InitRInv DEF RecordedInit
<1>2. [RecordedNext]_recordedVars => [Next]_vars
  BY DEF RecordedNext, recordedVars
<1>3. CInv /\ RInv /\ [RecordedNext]_recordedVars => CInv' /\ RInv'
  BY <1>2, CInvInductive, RInvInductive
<1>4. QED
  BY <1>1, <1>3, PTL DEF RecordedSpec

-----------------------------------------------------------------------------
(* The results.                                                            *)

(* While requests come one at a time no callback brings a session back     *)
(* that a logout removed, although its state was sent before the logout.   *)
THEOREM LoggedOutForGood == RecordedSpec => []LogoutIsFinalAlone
<1>1. CInv /\ RInv => LogoutIsFinalAlone
  BY DEF RInv, Alone, Dead, LogoutIsFinalAlone, LogoutIsFinal
<1>2. QED
  BY <1>1, RInvHolds, PTL

(* While requests come one at a time the Keycloak sessions that a session  *)
(* shown as terminated holds of the user it names, the one of its latest   *)
(* login, have ended, whatever the browser logs into later.                *)
THEOREM TerminationShownIsTrue == RecordedSpec => []TerminatedSessionEndedAlone
<1>1. CInv /\ RInv => TerminatedSessionEndedAlone
  BY DEF RInv, Alone, TerminatedSessionEndedAlone
<1>2. QED
  BY <1>1, RInvHolds, PTL

(* While requests come one at a time the session a Front-Channel Logout    *)
(* removes holds the Keycloak session it names.                            *)
THEOREM FrontChannelRemovesNamed == RecordedSpec => FrontChannelVerifiedAlone
<1>1. RInv /\ [RecordedNext]_recordedVars
        => [~overlapped' => FrontChannelVerified]_recordedVars
  <2> SUFFICES ASSUME RInv, RecordedNext, ~overlapped',
                      NEW t \in Handlers, Remove(t), job[t].op = "frontchannel",
                      sessions[job[t].cookie] # NoSession
               PROVE  \E k \in Kinds : sessions[job[t].cookie].clients[k] = job[t].sid
    BY DEF FrontChannelVerified
  <2>1. ~overlapped
    BY DEF RecordedNext
  <2>2. StillSo(t)
    BY <2>1 DEF RInv, Alone
  <2>3. QED
    BY <2>2 DEF StillSo, Remove
<1>2. QED
  BY <1>1, RInvHolds, PTL DEF RecordedSpec, FrontChannelVerifiedAlone

(* While requests come one at a time the RP-logout callback of a realm     *)
(* removes no session of another realm.                                    *)
THEOREM RpLogoutKeepsOtherRealms == RecordedSpec => RpLogoutOfRealmAlone
<1>1. CInv /\ RInv /\ [RecordedNext]_recordedVars
        => [~overlapped' => RpLogoutOfRealm]_recordedVars
  <2> SUFFICES ASSUME CInv, RInv, RecordedNext, ~overlapped',
                      NEW t \in Handlers, Complete(t),
                      NEW i \in Ids, PurgedSessions[i] # NoSession, sessions'[i] = NoSession
               PROVE  sessions[i].realm = job[t].realm
    BY DEF RpLogoutOfRealm
  <2> DEFINE state == job[t].state
             transaction == PurgedLogouts[state]
  <2>1. TypeOK /\ LogoutsFollowed
    BY DEF CInv, RInv, RecordedNext, Alone
  <2>2. state \in 1..Len(logouts) /\ Len(logouts) <= MaxLogouts /\ Len(logouts) \in Nat
        /\ pc[t] = "complete"
    BY <2>1 DEF CInv, Carried, Numbered, Complete, TypeOK
  <2>3. state \in 1..MaxLogouts
    BY <2>2, CustomerAssumption
  <2>4. /\ transaction # NoTransaction /\ i = transaction.sessionId
        /\ transaction.realm = job[t].realm
    <3>1. sessions' = PurgedSessions
          \/ (transaction # NoTransaction /\ transaction.realm = job[t].realm
              /\ sessions' = [PurgedSessions EXCEPT ![transaction.sessionId] = NoSession])
      BY DEF Complete
    <3>2. PurgedSessions \in [Ids -> Session \union {NoSession}]
      BY <2>1, PurgeFacts
    <3> HIDE DEF transaction
    <3>3. QED
      BY <3>1, <3>2
  <2>5. transaction = logoutTransactions[state] /\ <<"logout", state>> \notin expired
    BY <2>1, <2>3, <2>4 DEF PurgedLogouts, Purged, TypeOK
  <2>6. sessions[i] # NoSession
    BY <2>1, PurgeFacts
  <2>7. sessions[i].realm = transaction.realm
    BY <2>1, <2>3, <2>4, <2>5, <2>6 DEF LogoutsFollowed, Dead, Lives
  <2>8. QED
    BY <2>4, <2>7
<1>2. QED
  BY <1>1, RInvHolds, PTL DEF RecordedSpec, RpLogoutOfRealmAlone
=============================================================================
