--------------------------- MODULE CustomerLabProofs ---------------------------
(***************************************************************************)
(* Proofs about CustomerLab, for any handlers, slots, realms and Keycloak  *)
(* sessions, any assignment of sessions to realms and any bounds.          *)
(*                                                                         *)
(* The argument: a state is owed a callback while it is stored or a        *)
(* handler exchanges its code; each state is owed to at most one handler,  *)
(* and a session id is generated only by a callback that ends such a debt. *)
(***************************************************************************)
EXTENDS CustomerLab, FiniteSetTheorems, SequenceTheorems, TLAPS

Reading == {"state", "localLogout", "frontchannel", "rpLogout", "terminate"}

(* What a handler carries from one of its steps to the next.               *)
Carried(t) ==
  /\ pc[t] = "read" => job[t].op \in Reading
  /\ pc[t] \in {"store", "admin", "mark"} => job[t].cookie \in Ids
  /\ pc[t] \in {"take", "exchange", "establish"} =>
       job[t].state \in 1..Len(logins) /\ job[t].realm \in Realms
  /\ pc[t] = "establish" => job[t].sid \in Sids /\ RealmOf[job[t].sid] = job[t].realm
  /\ pc[t] = "store" => job[t].realm \in Realms /\ job[t].sid \in Sids
  /\ pc[t] = "complete" => job[t].state \in 1..Len(logouts)

(* The states sent to Keycloak are the first ones of their table.          *)
Numbered ==
  /\ Len(logins) <= MaxLogins
  /\ Len(logouts) <= MaxLogouts
  /\ \A s \in 1..MaxLogins : transactions[s] # NoTransaction => s <= Len(logins)

(* A logout was begun in a session, and a session holds some login.        *)
Holding ==
  /\ \A s \in 1..MaxLogouts :
       logoutTransactions[s] # NoTransaction => logoutTransactions[s].sessionId \in Ids
  /\ \A i \in Ids : sessions[i] # NoSession =>
       \E k \in Kinds : sessions[i].clients[k] # NoSid

(* The states that a callback may still turn into a session.               *)
Owed ==
       {s \in 1..MaxLogins : transactions[s] # NoTransaction}
  \union {s \in 1..MaxLogins : \E t \in Handlers : Exchanging(t) /\ job[t].state = s}

(* Every generated session id was paid for with a state of its own.        *)
Paid == minted + Cardinality(Owed) <= Len(logins)

CInv ==
  /\ TypeOK
  /\ \A t \in Handlers : Carried(t)
  /\ Numbered
  /\ Holding
  /\ Paid
  /\ OneTimeState
  /\ SessionBoundToIssuer

-----------------------------------------------------------------------------
(* The values the actions put together have their types.                   *)

LEMMA NoJobType == NoJob \in Job
  BY CustomerAssumption DEF NoJob, Job, Cookies, Kinds, NoCookie

(* _purge keeps an entry or drops it.                                      *)
LEMMA PurgeFacts ==
  ASSUME TypeOK
  PROVE  /\ PurgedLogins \in [1..MaxLogins -> Transaction \union {NoTransaction}]
         /\ PurgedLogouts \in [1..MaxLogouts -> LogoutTransaction \union {NoTransaction}]
         /\ PurgedSessions \in [Ids -> Session \union {NoSession}]
         /\ \A s \in 1..MaxLogins : PurgedLogins[s] \in {transactions[s], NoTransaction}
         /\ \A s \in 1..MaxLogouts :
              PurgedLogouts[s] \in {logoutTransactions[s], NoTransaction}
         /\ \A i \in Ids : PurgedSessions[i] \in {sessions[i], NoSession}
  BY DEF TypeOK, PurgedLogins, PurgedLogouts, PurgedSessions, Purged

LEMMA SessionOfFacts ==
  ASSUME TypeOK, NEW id \in Cookies, SessionOf(id) # NoSession
  PROVE  id \in Ids /\ SessionOf(id) = sessions[id] /\ SessionOf(id) \in Session
  BY PurgeFacts DEF SessionOf, TypeOK, Cookies

(* A session with one more login is a session.                             *)
LEMMA ExtendedType ==
  ASSUME TypeOK, NEW t \in Handlers, NEW session \in Session, job[t].sid \in Sids
  PROVE  /\ Extended(t, session) \in Session
         /\ Extended(t, session).realm = session.realm
         /\ Extended(t, session).clients =
              [session.clients EXCEPT ![job[t].kind] = job[t].sid]
         /\ Extended(t, session).username = UserOf[job[t].sid]
         /\ ~Extended(t, session).terminated
<1>1. /\ job[t].kind \in Kinds /\ UserOf[job[t].sid] \in Users
      /\ session.clients \in [Kinds -> Sids \union {NoSid}]
      /\ session.realm \in Realms
  BY CustomerAssumption DEF Session, TypeOK, Job
<1>2. [session.clients EXCEPT ![job[t].kind] = job[t].sid] \in [Kinds -> Sids \union {NoSid}]
  BY <1>1
<1>3. DOMAIN session = {"realm", "username", "clients", "terminated"}
  BY DEF Session
<1>4. /\ Extended(t, session).realm = session.realm
      /\ Extended(t, session).username = UserOf[job[t].sid]
      /\ ~Extended(t, session).terminated
  BY <1>3 DEF Extended
<1>5. Extended(t, session).clients = [session.clients EXCEPT ![job[t].kind] = job[t].sid]
  BY <1>3 DEF Extended
<1>6. Extended(t, session) \in Session
  BY <1>1, <1>2 DEF Extended, Session
<1>7. QED
  BY <1>4, <1>5, <1>6

LEMMA NewSessionType ==
  ASSUME TypeOK, NEW t \in Handlers, job[t].sid \in Sids, job[t].realm \in Realms
  PROVE  /\ NewSession(t) \in Session
         /\ NewSession(t).realm = job[t].realm
         /\ NewSession(t).clients = [[k \in Kinds |-> NoSid] EXCEPT ![job[t].kind] = job[t].sid]
         /\ NewSession(t).username = UserOf[job[t].sid]
         /\ ~NewSession(t).terminated
<1>1. job[t].kind \in Kinds /\ UserOf[job[t].sid] \in Users
  BY CustomerAssumption DEF TypeOK, Job
<1>2. [[k \in Kinds |-> NoSid] EXCEPT ![job[t].kind] = job[t].sid] \in [Kinds -> Sids \union {NoSid}]
  BY <1>1
<1>3. QED
  BY <1>1, <1>2 DEF NewSession, Session

LEMMA HintFacts ==
  ASSUME NEW session \in Session, \E k \in Kinds : session.clients[k] # NoSid
  PROVE  HintOf(session) \in Sids
  BY DEF HintOf, Session, Kinds

LEMMA InitCInv == Init => CInv
<1> SUFFICES ASSUME Init PROVE CInv
  OBVIOUS
<1> USE CustomerAssumption
<1>1. TypeOK
  BY NoJobType DEF Init, TypeOK, Labels, Cookies, NoCookie
<1>2. \A t \in Handlers : Carried(t)
  BY DEF Init, Carried
<1>3. Numbered
  BY DEF Init, Numbered
<1>4. Holding
  BY DEF Init, Holding
<1>5. Paid
  <2>1. Owed = {}
    BY DEF Init, Owed, Exchanging
  <2>2. QED
    BY <2>1, FS_EmptySet DEF Init, Paid
<1>6. OneTimeState /\ SessionBoundToIssuer
  BY DEF Init, OneTimeState, SessionBoundToIssuer, Exchanging
<1>7. QED
  BY <1>1, <1>2, <1>3, <1>4, <1>5, <1>6 DEF CInv

-----------------------------------------------------------------------------
(* Type correctness, action by action.                                     *)

HandlersOK == pc \in [Handlers -> Labels] /\ job \in [Handlers -> Job]

LEMMA DoneType ==
  ASSUME HandlersOK, NEW t \in Handlers, Done(t)
  PROVE  HandlersOK'
  BY NoJobType DEF HandlersOK, Done, Goto, Labels

LEMMA GotoType ==
  ASSUME HandlersOK, NEW t \in Handlers, NEW label \in Labels, Goto(t, label),
         UNCHANGED job
  PROVE  HandlersOK'
  BY DEF HandlersOK, Goto

LEMMA ReplyType ==
  ASSUME HandlersOK, NEW t \in Handlers, NEW id \in Cookies, Reply(t, id)
  PROVE  HandlersOK'
<1>1. job' \in [Handlers -> Job]
  BY DEF HandlersOK, Reply, Job
<1>2. pc' \in [Handlers -> Labels]
  BY DEF HandlersOK, Reply, Goto, Labels
<1>3. QED
  BY <1>1, <1>2 DEF HandlersOK

LEMMA WithRealmType ==
  ASSUME NEW jobs \in [Handlers -> Job], NEW t \in Handlers, NEW realm \in Realms
  PROVE  [jobs EXCEPT ![t].realm = realm] \in [Handlers -> Job]
  BY DEF Job

LEMMA WithSidType ==
  ASSUME NEW jobs \in [Handlers -> Job], NEW t \in Handlers, NEW sid \in Sids
  PROVE  [jobs EXCEPT ![t].sid = sid] \in [Handlers -> Job]
  BY DEF Job

LEMMA WithUserType ==
  ASSUME NEW jobs \in [Handlers -> Job], NEW t \in Handlers, NEW user \in Users
  PROVE  [jobs EXCEPT ![t].user = user] \in [Handlers -> Job]
  BY DEF Job

LEMMA RequestType ==
  ASSUME CInv, NEW t \in Handlers, Request(t)
  PROVE  TypeOK'
<1> USE CustomerAssumption
<1>0. TypeOK /\ Numbered
  BY DEF CInv
<1>1. /\ requests' \in 0..MaxRequests
      /\ UNCHANGED <<connections, store, browser, expiries, changes>>
  <2>1. requests \in 0..MaxRequests
    BY <1>0 DEF TypeOK
  <2>2. /\ requests < MaxRequests
        /\ requests' = requests + 1
        /\ UNCHANGED <<connections, store, browser, expiries, changes>>
    BY Zenon DEF Request
  <2>3. QED
    BY <2>1, <2>2
<1>2. ASSUME NEW j \in Job, job' = [job EXCEPT ![t] = j],
             NEW label \in Labels, Goto(t, label),
             provider' \in [Sids -> {"unborn", "live", "ended"}]
      PROVE  TypeOK'
  BY <1>0, <1>1, <1>2 DEF TypeOK, Goto, store, browser
<1>3. /\ NoJob \in Job
      /\ provider \in [Sids -> {"unborn", "live", "ended"}]
      /\ cookie \in Cookies
  BY <1>0, NoJobType DEF TypeOK
<1>4. CASE \E op \in Ops \intersect {"state", "localLogout", "rpLogout", "terminate"} :
             /\ job' = [job EXCEPT ![t] = [NoJob EXCEPT !.op = op, !.cookie = cookie]]
             /\ Goto(t, "read")
             /\ UNCHANGED provider
  <2>1. PICK op \in AllOps : /\ job' = [job EXCEPT ![t] = [NoJob EXCEPT !.op = op, !.cookie = cookie]]
                          /\ Goto(t, "read")
                          /\ UNCHANGED provider
    BY <1>4
  <2>2. [NoJob EXCEPT !.op = op, !.cookie = cookie] \in Job
    BY <1>3 DEF Job
  <2>3. QED
    BY <1>2, <1>3, <2>1, <2>2 DEF Labels
<1>5. CASE \E slot \in Slots, kind \in Kinds :
             /\ job' = [job EXCEPT ![t] = [NoJob EXCEPT !.op = "login", !.cookie = cookie,
                                                        !.slot = slot, !.kind = kind]]
             /\ Goto(t, "authorize")
             /\ UNCHANGED provider
  <2>1. PICK slot \in Slots, kind \in Kinds :
          /\ job' = [job EXCEPT ![t] = [NoJob EXCEPT !.op = "login", !.cookie = cookie,
                                                     !.slot = slot, !.kind = kind]]
          /\ Goto(t, "authorize")
          /\ UNCHANGED provider
    BY <1>5
  <2>2. [NoJob EXCEPT !.op = "login", !.cookie = cookie, !.slot = slot, !.kind = kind] \in Job
    BY <1>3 DEF Job, AllOps
  <2>3. QED
    BY <1>2, <1>3, <2>1, <2>2 DEF Labels
<1>6. CASE \E state \in 1..Len(logins), kind \in Kinds, realm \in Realms :
             /\ job' = [job EXCEPT ![t] = [NoJob EXCEPT !.op = "callback", !.cookie = cookie,
                                                        !.state = state, !.kind = kind,
                                                        !.realm = realm]]
             /\ Goto(t, "take")
             /\ UNCHANGED provider
  <2>1. PICK state \in 1..Len(logins), kind \in Kinds, realm \in Realms :
          /\ job' = [job EXCEPT ![t] = [NoJob EXCEPT !.op = "callback", !.cookie = cookie,
                                                     !.state = state, !.kind = kind,
                                                     !.realm = realm]]
          /\ Goto(t, "take")
          /\ UNCHANGED provider
    BY <1>6
  <2>2. state \in 0..(MaxLogins + MaxLogouts)
    <3>1. logins \in Seq([realm: Realms, kind: Kinds]) /\ Len(logins) <= MaxLogins
      BY <1>0 DEF TypeOK, Numbered
    <3>2. QED
      BY <3>1
  <2>3. [NoJob EXCEPT !.op = "callback", !.cookie = cookie, !.state = state,
                      !.kind = kind, !.realm = realm] \in Job
    BY <1>3, <2>2 DEF Job, AllOps
  <2>4. QED
    BY <1>2, <1>3, <2>1, <2>3 DEF Labels
<1>7. CASE \E state \in 1..Len(logouts), realm \in Realms :
             /\ job' = [job EXCEPT ![t] = [NoJob EXCEPT !.op = "signedOut", !.cookie = cookie,
                                                        !.state = state, !.realm = realm]]
             /\ provider' = [provider EXCEPT ![logouts[state].sid] = "ended"]
             /\ Goto(t, "complete")
  <2>1. PICK state \in 1..Len(logouts), realm \in Realms :
          /\ job' = [job EXCEPT ![t] = [NoJob EXCEPT !.op = "signedOut", !.cookie = cookie,
                                                     !.state = state, !.realm = realm]]
          /\ provider' = [provider EXCEPT ![logouts[state].sid] = "ended"]
          /\ Goto(t, "complete")
    BY <1>7
  <2>2. state \in 0..(MaxLogins + MaxLogouts)
    <3>1. logouts \in Seq([realm: Realms, sid: Sids]) /\ Len(logouts) <= MaxLogouts
      BY <1>0 DEF TypeOK, Numbered
    <3>2. QED
      BY <3>1
  <2>3. [NoJob EXCEPT !.op = "signedOut", !.cookie = cookie, !.state = state,
                      !.realm = realm] \in Job
    BY <1>3, <2>2 DEF Job, AllOps
  <2>4. provider' \in [Sids -> {"unborn", "live", "ended"}]
    BY <1>3, <2>1
  <2>5. QED
    BY <1>2, <2>1, <2>3, <2>4 DEF Labels
<1>8. CASE \E sid \in Sids :
             /\ job' = [job EXCEPT ![t] = [NoJob EXCEPT !.op = "frontchannel",
                                                        !.cookie = cookie, !.sid = sid,
                                                        !.realm = RealmOf[sid]]]
             /\ Goto(t, "read")
             /\ UNCHANGED provider
  <2>1. PICK sid \in Sids :
          /\ job' = [job EXCEPT ![t] = [NoJob EXCEPT !.op = "frontchannel",
                                                     !.cookie = cookie, !.sid = sid,
                                                     !.realm = RealmOf[sid]]]
          /\ Goto(t, "read")
          /\ UNCHANGED provider
    BY <1>8
  <2>2. [NoJob EXCEPT !.op = "frontchannel", !.cookie = cookie, !.sid = sid,
                      !.realm = RealmOf[sid]] \in Job
    BY <1>3 DEF Job, AllOps
  <2>3. QED
    BY <1>2, <1>3, <2>1, <2>2 DEF Labels
<1>9. QED
  BY <1>4, <1>5, <1>6, <1>7, <1>8 DEF Request

LEMMA OwedFinite == IsFiniteSet(Owed)
<1>1. Owed \subseteq 1..MaxLogins
  BY DEF Owed
<1>2. QED
  <2>1. IsFiniteSet(1..MaxLogins)
    BY FS_Interval, CustomerAssumption
  <2>2. QED
    BY <1>1, <2>1, FS_Subset

(* A callback that is about to establish its session can still mint an id. *)
LEMMA MintRoom ==
  ASSUME CInv, NEW t \in Handlers, Exchanging(t)
  PROVE  /\ job[t].state \in Owed
         /\ minted + 1 \in Ids
<1> USE CustomerAssumption
<1>1. job[t].state \in 1..Len(logins) /\ Len(logins) \in Nat /\ Len(logins) <= MaxLogins
  BY DEF CInv, Carried, Exchanging, Numbered, TypeOK
<1>2. job[t].state \in Owed
  BY <1>1 DEF Owed
<1>3. Cardinality(Owed) \in Nat /\ Cardinality(Owed) # 0
  BY <1>2, OwedFinite, FS_CardinalityType, FS_EmptySet
<1>4. minted \in Nat /\ minted + Cardinality(Owed) <= Len(logins)
  BY DEF CInv, TypeOK, Paid
<1>5. QED
  BY <1>1, <1>2, <1>3, <1>4 DEF Ids

(* What a handler does next with the session it read.                      *)
LEMMA ReadOutcomes ==
  ASSUME CInv, NEW t \in Handlers, ReadSession(t)
  PROVE  LET found == SessionOf(job[t].cookie) IN
         \/ Done(t)
         \/ /\ job[t].op = "localLogout" \/ (job[t].op = "frontchannel" /\ found # NoSession
                                             /\ Names(t, found))
            /\ Goto(t, "remove")
            /\ UNCHANGED job
         \/ /\ found # NoSession
            /\ Goto(t, "store")
            /\ job' = [job EXCEPT ![t].realm = found.realm, ![t].sid = HintOf(found)]
         \/ /\ found # NoSession
            /\ Goto(t, "admin")
            /\ job' = [job EXCEPT ![t].realm = found.realm, ![t].user = found.username]
<1> DEFINE found == SessionOf(job[t].cookie)
<1>1. job[t].op \in Reading
  BY DEF ReadSession, CInv, Carried
<1>2. CASE job[t].op = "state"
  BY <1>2 DEF ReadSession
<1>3. CASE job[t].op = "localLogout"
  BY <1>3 DEF ReadSession
<1>4. CASE job[t].op = "frontchannel"
  <2>1. CASE HasProfile(job[t].realm) /\ found # NoSession /\ Names(t, found)
    BY <1>4, <2>1 DEF ReadSession
  <2>2. CASE ~(HasProfile(job[t].realm) /\ found # NoSession /\ Names(t, found))
    BY <1>4, <2>2 DEF ReadSession
  <2>3. QED
    BY <2>1, <2>2
<1>5. CASE job[t].op = "rpLogout"
  <2>1. CASE found # NoSession /\ HasProfile(found.realm)
    BY <1>5, <2>1 DEF ReadSession
  <2>2. CASE ~(found # NoSession /\ HasProfile(found.realm))
    BY <1>5, <2>2 DEF ReadSession
  <2>3. QED
    BY <2>1, <2>2
<1>6. CASE job[t].op = "terminate"
  <2>1. CASE found # NoSession
    BY <1>6, <2>1 DEF ReadSession
  <2>2. CASE found = NoSession
    BY <1>6, <2>2 DEF ReadSession
  <2>3. QED
    BY <2>1, <2>2
<1>7. QED
  BY <1>1, <1>2, <1>3, <1>4, <1>5, <1>6 DEF Reading

(* What a handler keeps of the session it read.                            *)
LEMMA ReadFacts ==
  ASSUME CInv, NEW t \in Handlers, SessionOf(job[t].cookie) # NoSession
  PROVE  /\ job[t].cookie \in Ids
         /\ SessionOf(job[t].cookie).realm \in Realms
         /\ SessionOf(job[t].cookie).username \in Users
         /\ HintOf(SessionOf(job[t].cookie)) \in Sids
<1> DEFINE found == SessionOf(job[t].cookie)
<1>1. TypeOK /\ job[t].cookie \in Cookies
  BY DEF CInv, TypeOK, Job
<1>2. job[t].cookie \in Ids /\ found = sessions[job[t].cookie] /\ found \in Session
  BY <1>1, SessionOfFacts
<1>3. \E k \in Kinds : found.clients[k] # NoSid
  BY <1>2 DEF CInv, Holding
<1>4. found.realm \in Realms /\ found.username \in Users
  BY <1>2 DEF Session
<1>5. HintOf(found) \in Sids
  BY <1>2, <1>3, HintFacts
<1>6. QED
  BY <1>2, <1>4, <1>5

LEMMA StepType ==
  ASSUME CInv, NEW t \in Handlers, Step(t)
  PROVE  TypeOK'
<1> USE CustomerAssumption DEF counters, browser, store
<1>0. TypeOK /\ HandlersOK /\ Carried(t)
  BY DEF CInv, TypeOK, HandlersOK
<1>1. CASE Receive(t)
  <2>1. job[t].reply \in Cookies
    BY <1>0 DEF TypeOK, Job
  <2>2. HandlersOK'
    BY <1>0, <1>1, DoneType DEF Receive
  <2>3. QED
    BY <1>0, <1>1, <2>1, <2>2 DEF Receive, TypeOK, HandlersOK
<1>2. CASE Authorize(t)
  <2>1. HandlersOK'
    BY <1>0, <1>2, DoneType DEF Authorize
  <2> DEFINE realm == connections[job[t].slot]
             state == Len(logins) + 1
             entry == [realm |-> realm, kind |-> job[t].kind, sessionId |-> job[t].cookie]
  <2>2. realm \in Realms \union {NoRealm} /\ job[t].kind \in Kinds /\ job[t].cookie \in Cookies
    BY <1>0 DEF TypeOK, Job
  <2>3. CASE realm = NoRealm
    BY <1>0, <1>2, <2>1, <2>3 DEF Authorize, TypeOK, HandlersOK
  <2>4. CASE realm # NoRealm
    <3>1. entry \in Transaction /\ [realm |-> realm, kind |-> job[t].kind] \in [realm: Realms, kind: Kinds]
      BY <2>2, <2>4 DEF Transaction
    <3> HIDE DEF entry, realm
    <3>2. /\ transactions' = [PurgedLogins EXCEPT ![state] = entry]
          /\ logoutTransactions' = PurgedLogouts
          /\ sessions' = PurgedSessions
          /\ expired' = {}
          /\ logins' = Append(logins, [realm |-> realm, kind |-> job[t].kind])
      BY <1>2, <2>4 DEF Authorize, entry, realm
    <3>3. transactions' \in [1..MaxLogins -> Transaction \union {NoTransaction}]
      BY <1>0, <3>1, <3>2, PurgeFacts
    <3>4. logins' \in Seq([realm: Realms, kind: Kinds])
      BY <1>0, <3>1, <3>2, AppendProperties DEF TypeOK
    <3>5. QED
      BY <1>0, <1>2, <2>1, <3>2, <3>3, <3>4, PurgeFacts DEF Authorize, TypeOK, HandlersOK
  <2>5. QED
    BY <2>3, <2>4
<1>3. CASE Take(t)
  <2>1. HandlersOK'
    BY <1>0, <1>3, DoneType, GotoType DEF Take, Labels
  <2>2. transactions' \in [1..MaxLogins -> Transaction \union {NoTransaction}]
    BY <1>0, <1>3, PurgeFacts DEF Take, PopState
  <2>3. QED
    BY <1>0, <1>3, <2>1, <2>2, PurgeFacts DEF Take, TypeOK, HandlersOK
<1>4. CASE Exchange(t)
  <2>1. HandlersOK' /\ provider' \in [Sids -> {"unborn", "live", "ended"}]
    <3>1. CASE Done(t) /\ UNCHANGED provider
      BY <1>0, <3>1, DoneType DEF TypeOK
    <3>2. CASE \E sid \in Sids : /\ provider' = [provider EXCEPT ![sid] = "live"]
                                 /\ job' = [job EXCEPT ![t].sid = sid]
                                 /\ Goto(t, "establish")
      <4>1. PICK sid \in Sids : /\ provider' = [provider EXCEPT ![sid] = "live"]
                                /\ job' = [job EXCEPT ![t].sid = sid]
                                /\ Goto(t, "establish")
        BY <3>2
      <4>2. job' \in [Handlers -> Job]
        BY <1>0, <4>1 DEF HandlersOK, Job
      <4>3. pc' \in [Handlers -> Labels]
        BY <1>0, <4>1 DEF HandlersOK, Goto, Labels
      <4>4. provider' \in [Sids -> {"unborn", "live", "ended"}]
        BY <1>0, <4>1 DEF TypeOK
      <4>5. QED
        BY <4>2, <4>3, <4>4 DEF HandlersOK
    <3>3. QED
      BY <1>4, <3>1, <3>2 DEF Exchange
  <2>2. QED
    BY <1>0, <1>4, <2>1 DEF Exchange, TypeOK, HandlersOK
<1>5. CASE Establish(t)
  <2> DEFINE found == SessionOf(job[t].cookie)
             id    == IF Mints(t) THEN minted + 1 ELSE job[t].cookie
             kept  == IF Foreign(t) THEN [PurgedSessions EXCEPT ![job[t].cookie] = NoSession]
                      ELSE PurgedSessions
             next  == IF found = NoSession \/ Foreign(t) THEN NewSession(t)
                      ELSE Extended(t, found)
  <2>1. Exchanging(t) /\ job[t].sid \in Sids /\ job[t].realm \in Realms /\ job[t].cookie \in Cookies
    BY <1>0, <1>5 DEF Establish, Exchanging, Carried, TypeOK, Job
  <2>2. id \in Ids
    BY <2>1, MintRoom DEF Mints, Cookies
  <2>3. next \in Session
    BY <1>0, <2>1, SessionOfFacts, NewSessionType, ExtendedType
  <2>4. kept \in [Ids -> Session \union {NoSession}]
    BY <1>0, PurgeFacts
  <2> HIDE DEF found, id, kept, next
  <2>5. /\ minted' = IF Mints(t) THEN minted + 1 ELSE minted
        /\ sessions' = [kept EXCEPT ![id] = next]
        /\ Reply(t, id)
    BY <1>5 DEF Establish, found, id, kept, next
  <2>6. sessions' \in [Ids -> Session \union {NoSession}]
    BY <2>3, <2>4, <2>5
  <2>7. minted' \in 0..MaxLogins
    BY <1>0, <2>1, <2>5, MintRoom DEF TypeOK, Ids
  <2>8. HandlersOK'
    BY <1>0, <2>2, <2>5, ReplyType DEF Cookies
  <2>9. QED
    BY <1>0, <1>5, <2>6, <2>7, <2>8, PurgeFacts DEF Establish, TypeOK, HandlersOK
<1>6. CASE ReadSession(t)
  <2>1. HandlersOK'
    <3> DEFINE found == SessionOf(job[t].cookie)
    <3>1. CASE Done(t)
      BY <1>0, <3>1, DoneType
    <3>2. CASE UNCHANGED job /\ Goto(t, "remove")
      BY <1>0, <3>2, GotoType DEF Labels
    <3>3. CASE /\ found # NoSession
               /\ Goto(t, "store")
               /\ job' = [job EXCEPT ![t].realm = found.realm, ![t].sid = HintOf(found)]
      <4>1. [job EXCEPT ![t].realm = found.realm] \in [Handlers -> Job]
        BY <1>0, <3>3, ReadFacts, WithRealmType DEF HandlersOK
      <4>2. job' \in [Handlers -> Job]
        BY <3>3, <4>1, ReadFacts, WithSidType
      <4>3. pc' \in [Handlers -> Labels]
        BY <1>0, <3>3 DEF HandlersOK, Goto, Labels
      <4>4. QED
        BY <4>2, <4>3 DEF HandlersOK
    <3>4. CASE /\ found # NoSession
               /\ Goto(t, "admin")
               /\ job' = [job EXCEPT ![t].realm = found.realm, ![t].user = found.username]
      <4>1. [job EXCEPT ![t].realm = found.realm] \in [Handlers -> Job]
        BY <1>0, <3>4, ReadFacts, WithRealmType DEF HandlersOK
      <4>2. job' \in [Handlers -> Job]
        BY <3>4, <4>1, ReadFacts, WithUserType
      <4>3. pc' \in [Handlers -> Labels]
        BY <1>0, <3>4 DEF HandlersOK, Goto, Labels
      <4>4. QED
        BY <4>2, <4>3 DEF HandlersOK
    <3>5. QED
      BY <1>6, <3>1, <3>2, <3>3, <3>4, ReadOutcomes
  <2>2. QED
    BY <1>0, <1>6, <2>1, PurgeFacts DEF ReadSession, TypeOK, HandlersOK
<1>7. CASE Remove(t)
  <2>1. HandlersOK'
    BY <1>0, <1>7, ReplyType DEF Remove, ClearCookie, Cookies
  <2>2. job[t].cookie \in Cookies
    BY <1>0 DEF TypeOK, Job
  <2>3. ended' \subseteq Ids /\ sessions' \in [Ids -> Session \union {NoSession}]
    BY <1>0, <1>7, <2>2 DEF Remove, TypeOK, Cookies
  <2>4. QED
    BY <1>0, <1>7, <2>1, <2>3 DEF Remove, TypeOK, HandlersOK
<1>8. CASE StoreLogout(t)
  <2>1. HandlersOK'
    BY <1>0, <1>8, DoneType DEF StoreLogout
  <2> DEFINE entry == [realm |-> job[t].realm, sessionId |-> job[t].cookie]
             sent  == [realm |-> job[t].realm, sid |-> job[t].sid]
  <2>2. entry \in LogoutTransaction /\ sent \in [realm: Realms, sid: Sids]
    BY <1>0, <1>8 DEF StoreLogout, Carried, LogoutTransaction, Cookies
  <2> HIDE DEF entry, sent
  <2>3. /\ logoutTransactions' = [logoutTransactions EXCEPT ![Len(logouts) + 1] = entry]
        /\ logouts' = Append(logouts, sent)
    BY <1>8 DEF StoreLogout, entry, sent
  <2>4. logoutTransactions' \in [1..MaxLogouts -> LogoutTransaction \union {NoTransaction}]
    BY <1>0, <2>2, <2>3 DEF TypeOK
  <2>5. logouts' \in Seq([realm: Realms, sid: Sids])
    BY <1>0, <2>2, <2>3, AppendProperties DEF TypeOK
  <2>6. QED
    BY <1>0, <1>8, <2>1, <2>4, <2>5 DEF StoreLogout, TypeOK, HandlersOK
<1>9. CASE Complete(t)
  <2> DEFINE transaction == PurgedLogouts[job[t].state]
  <2>1. job[t].state \in 1..MaxLogouts
    BY <1>0, <1>9 DEF Complete, Carried, CInv, Numbered, TypeOK
  <2>2. transaction # NoTransaction => transaction.sessionId \in Ids
    BY <1>0, <2>1, PurgeFacts DEF CInv, Holding
  <2>3. HandlersOK'
    BY <1>0, <1>9, DoneType, ReplyType DEF Complete, ClearCookie, Cookies
  <2>4. ended' \subseteq Ids /\ sessions' \in [Ids -> Session \union {NoSession}]
    <3> DEFINE refused == \/ transaction = NoTransaction
                          \/ transaction.realm # job[t].realm
                          \/ /\ transaction.sessionId # job[t].cookie
                             /\ SessionOf(job[t].cookie) # NoSession
    <3>1. CASE refused
      <4>1. sessions' = PurgedSessions /\ UNCHANGED ended
        BY <1>9, <3>1 DEF Complete
      <4>2. QED
        BY <1>0, <4>1, PurgeFacts DEF TypeOK
    <3>2. CASE ~refused
      <4>1. /\ sessions' = [PurgedSessions EXCEPT ![transaction.sessionId] = NoSession]
            /\ ended' = ended \union {transaction.sessionId}
        BY <1>9, <3>2 DEF Complete
      <4>2. transaction.sessionId \in Ids
        BY <2>2, <3>2
      <4> HIDE DEF transaction
      <4>3. QED
        BY <1>0, <4>1, <4>2, PurgeFacts DEF TypeOK
    <3>3. QED
      BY <3>1, <3>2
  <2>5. logoutTransactions' \in [1..MaxLogouts -> LogoutTransaction \union {NoTransaction}]
    BY <1>0, <1>9, PurgeFacts DEF Complete
  <2>6. QED
    BY <1>0, <1>9, <2>3, <2>4, <2>5, PurgeFacts DEF Complete, TypeOK, HandlersOK
<1>10. CASE AdminLogout(t)
  <2>1. HandlersOK'
    BY <1>0, <1>10, DoneType, GotoType DEF AdminLogout, Labels
  <2>2. provider' \in [Sids -> {"unborn", "live", "ended"}]
    BY <1>0, <1>10 DEF AdminLogout, TypeOK
  <2>3. QED
    BY <1>0, <1>10, <2>1, <2>2 DEF AdminLogout, TypeOK, HandlersOK
<1>11. CASE Mark(t)
  <2>1. HandlersOK'
    BY <1>0, <1>11, DoneType DEF Mark
  <2>2. sessions' \in [Ids -> Session \union {NoSession}]
    <3>1. job[t].cookie \in Ids
      BY <1>0, <1>11 DEF Mark, Carried
    <3>2. CASE sessions[job[t].cookie] = NoSession
      BY <1>0, <1>11, <3>2 DEF Mark, TypeOK
    <3>3. CASE sessions[job[t].cookie] # NoSession
      <4>1. sessions[job[t].cookie] \in Session
        BY <1>0, <3>1, <3>3 DEF TypeOK
      <4>2. [sessions[job[t].cookie] EXCEPT !.terminated = TRUE] \in Session
        BY <4>1 DEF Session
      <4>3. sessions' = [sessions EXCEPT ![job[t].cookie] =
                           [sessions[job[t].cookie] EXCEPT !.terminated = TRUE]]
        BY <1>11, <3>3 DEF Mark
      <4>4. QED
        BY <1>0, <3>1, <4>2, <4>3 DEF TypeOK
    <3>4. QED
      BY <3>2, <3>3
  <2>3. QED
    BY <1>0, <1>11, <2>1, <2>2 DEF Mark, TypeOK, HandlersOK
<1>12. QED
  BY <1>1, <1>2, <1>3, <1>4, <1>5, <1>6, <1>7, <1>8, <1>9, <1>10, <1>11 DEF Step

LEMMA RestartType ==
  ASSUME TypeOK, Restart
  PROVE  TypeOK'
<1>1. changes' \in 0..MaxChanges
  BY CustomerAssumption DEF Restart, Changing, TypeOK
<1>2. pc' \in [Handlers -> Labels] /\ job' \in [Handlers -> Job]
  BY NoJobType DEF Restart, Labels
<1>3. QED
  BY <1>1, <1>2 DEF Restart, TypeOK, browser

LEMMA ExpireType ==
  ASSUME TypeOK, Expire
  PROVE  TypeOK'
<1> USE CustomerAssumption
<1>1. Entries \subseteq {"login", "logout", "session"} \X (1..(MaxLogins + MaxLogouts))
  <2>1. /\ 1..MaxLogins \subseteq 1..(MaxLogins + MaxLogouts)
        /\ 1..MaxLogouts \subseteq 1..(MaxLogins + MaxLogouts)
        /\ Ids = 1..MaxLogins
    BY DEF Ids
  <2>2. QED
    BY <2>1 DEF Entries
<1>2. expired' \subseteq {"login", "logout", "session"} \X (1..(MaxLogins + MaxLogouts))
  <2>1. PICK entry \in Entries : expired' = expired \union {entry}
    BY DEF Expire
  <2>2. QED
    BY <1>1, <2>1 DEF TypeOK
<1>3. expiries' \in 0..MaxExpiries
  <2>1. expiries \in 0..MaxExpiries
    BY DEF TypeOK
  <2>2. QED
    BY <2>1 DEF Expire
<1>4. QED
  BY <1>2, <1>3 DEF Expire, TypeOK, browser

LEMMA ReconfigureType ==
  ASSUME TypeOK, Reconfigure
  PROVE  TypeOK'
<1>1. changes' \in 0..MaxChanges
  BY CustomerAssumption DEF Reconfigure, Changing, TypeOK
<1>2. connections' \in [Slots -> Realms \union {NoRealm}]
  BY DEF Reconfigure, TypeOK
<1>3. QED
  BY <1>1, <1>2 DEF Reconfigure, TypeOK, browser, store

-----------------------------------------------------------------------------
(* What a step leaves alone.                                               *)

(* A handler moves no other handler.                                       *)
LEMMA OthersKept ==
  ASSUME CInv, NEW t \in Handlers, Request(t) \/ Step(t),
         NEW u \in Handlers, u # t
  PROVE  pc'[u] = pc[u] /\ job'[u] = job[u]
<1> USE DEF CInv, TypeOK, Goto, Done, Reply
<1>1. CASE Request(t)
  BY <1>1 DEF Request
<1>2. CASE Step(t)
  <2>1. CASE Receive(t)
    BY <2>1 DEF Receive
  <2>2. CASE Authorize(t)
    BY <2>2 DEF Authorize
  <2>3. CASE Take(t)
    BY <2>3 DEF Take
  <2>4. CASE Exchange(t)
    BY <2>4 DEF Exchange
  <2>5. CASE Establish(t)
    BY <2>5 DEF Establish
  <2>6. CASE ReadSession(t)
    <3> DEFINE found == SessionOf(job[t].cookie)
               realm == found.realm
               name  == found.username
               hint  == HintOf(found)
    <3>1. \/ UNCHANGED job \/ job' = [job EXCEPT ![t] = NoJob]
          \/ job' = [job EXCEPT ![t].realm = realm, ![t].sid = hint]
          \/ job' = [job EXCEPT ![t].realm = realm, ![t].user = name]
      BY <2>6, ReadOutcomes
    <3>2. \E label \in Labels : Goto(t, label)
      BY <2>6, ReadOutcomes DEF Labels
    <3> HIDE DEF found, realm, name, hint
    <3>3. QED
      BY <3>1, <3>2
  <2>7. CASE Remove(t)
    BY <2>7 DEF Remove
  <2>8. CASE StoreLogout(t)
    BY <2>8 DEF StoreLogout
  <2>9. CASE Complete(t)
    BY <2>9 DEF Complete
  <2>10. CASE AdminLogout(t)
    BY <2>10 DEF AdminLogout
  <2>11. CASE Mark(t)
    BY <2>11 DEF Mark
  <2>12. QED
    BY <1>2, <2>1, <2>2, <2>3, <2>4, <2>5, <2>6, <2>7, <2>8, <2>9, <2>10, <2>11 DEF Step
<1>3. QED
  BY <1>1, <1>2

(* The redirects sent to Keycloak are only appended to.                    *)
LogsKept ==
  /\ Len(logins) <= Len(logins')
  /\ Len(logouts) <= Len(logouts')
  /\ \A s \in 1..Len(logins) : logins'[s] = logins[s]
  /\ \A s \in 1..Len(logouts) : logouts'[s] = logouts[s]

LEMMA NextKeepsLogs ==
  ASSUME CInv, Next
  PROVE  LogsKept
<1>0. /\ TypeOK
      /\ logins \in Seq([realm: Realms, kind: Kinds])
      /\ logouts \in Seq([realm: Realms, sid: Sids])
      /\ Len(logins) \in Nat
      /\ Len(logouts) \in Nat
  BY DEF CInv, TypeOK
<1>1. CASE UNCHANGED <<logins, logouts>>
  BY <1>0, <1>1 DEF LogsKept
<1>2. ASSUME NEW t \in Handlers, Authorize(t)
      PROVE  LogsKept
  <2> DEFINE realm == connections[job[t].slot]
             entry == [realm |-> realm, kind |-> job[t].kind]
  <2>1. CASE realm = NoRealm
    BY <1>1, <1>2, <2>1 DEF Authorize
  <2>2. CASE realm # NoRealm
    <3>1. entry \in [realm: Realms, kind: Kinds]
      BY <1>0, <2>2 DEF TypeOK, Job
    <3>2. logins' = Append(logins, entry) /\ UNCHANGED logouts
      BY <1>2, <2>2 DEF Authorize
    <3> HIDE DEF entry
    <3>3. QED
      BY <1>0, <3>1, <3>2, AppendProperties DEF LogsKept
  <2>3. QED
    BY <2>1, <2>2
<1>3. ASSUME NEW t \in Handlers, StoreLogout(t)
      PROVE  LogsKept
  <2> DEFINE entry == [realm |-> job[t].realm, sid |-> job[t].sid]
  <2>1. entry \in [realm: Realms, sid: Sids]
    BY <1>3 DEF StoreLogout, CInv, Carried
  <2>2. logouts' = Append(logouts, entry) /\ UNCHANGED logins
    BY <1>3 DEF StoreLogout
  <2> HIDE DEF entry
  <2>3. QED
    BY <1>0, <2>1, <2>2, AppendProperties DEF LogsKept
<1>4. QED
  BY <1>1, <1>2, <1>3
  DEF Next, Request, Step, Receive, Take, Exchange, Establish, ReadSession, Remove,
      Complete, AdminLogout, Mark, Expire, Reconfigure, Restart, browser

(* Apart from begin_authorization no step stores a state, and apart from   *)
(* the taking of a state no handler starts to exchange one.                *)
StatesKept == \A s \in 1..MaxLogins : transactions'[s] \in {transactions[s], NoTransaction}

ExchangesKept ==
  \A u \in Handlers : Exchanging(u)' => Exchanging(u) /\ job'[u].state = job[u].state

(* Apart from the end of a callback no step fills a session.               *)
SessionsKept ==
  \A i \in Ids : sessions'[i] # NoSession =>
    /\ sessions[i] # NoSession
    /\ sessions'[i].realm = sessions[i].realm
    /\ sessions'[i].username = sessions[i].username
    /\ sessions'[i].clients = sessions[i].clients

(* Apart from begin_rp_logout no step stores a logout state.               *)
LogoutsKept ==
  \A s \in 1..MaxLogouts :
    logoutTransactions'[s] \in {logoutTransactions[s], NoTransaction}

LEMMA StepKeepsStates ==
  ASSUME CInv, NEW t \in Handlers, Request(t) \/ Step(t), ~Authorize(t)
  PROVE  StatesKept
<1>0. TypeOK
  BY DEF CInv
<1>1. CASE UNCHANGED transactions
  BY <1>1 DEF StatesKept
<1>2. CASE transactions' = PurgedLogins
  BY <1>0, <1>2, PurgeFacts DEF StatesKept
<1>3. CASE Take(t)
  BY <1>0, <1>3, PurgeFacts DEF Take, PopState, StatesKept
<1>4. QED
  BY <1>1, <1>2, <1>3
  DEF Request, Step, Receive, Exchange, Establish, ReadSession, Remove, StoreLogout,
      Complete, AdminLogout, Mark, store

LEMMA StepKeepsSessions ==
  ASSUME CInv, NEW t \in Handlers, Request(t) \/ Step(t), ~Establish(t)
  PROVE  SessionsKept
<1>0. TypeOK
  BY DEF CInv
<1>1. CASE UNCHANGED sessions
  BY <1>1 DEF SessionsKept
<1>2. CASE sessions' = PurgedSessions
  BY <1>0, <1>2, PurgeFacts DEF SessionsKept
<1>3. CASE Remove(t)
  BY <1>0, <1>3 DEF Remove, SessionsKept
<1>4. CASE Complete(t)
  <2>1. CASE sessions' = [PurgedSessions EXCEPT ![PurgedLogouts[job[t].state].sessionId] = NoSession]
    BY <1>0, <2>1, PurgeFacts DEF SessionsKept
  <2>2. QED
    BY <1>2, <1>4, <2>1 DEF Complete
<1>5. CASE Mark(t)
  <2>1. CASE sessions' = [sessions EXCEPT ![job[t].cookie].terminated = TRUE]
             /\ sessions[job[t].cookie] # NoSession
    <3>1. job[t].cookie \in Ids
      BY <1>5 DEF Mark, CInv, Carried
    <3>2. sessions \in [Ids -> Session \union {NoSession}] /\ sessions[job[t].cookie] \in Session
      BY <1>0, <2>1, <3>1 DEF TypeOK
    <3>3. QED
      BY <2>1, <3>1, <3>2 DEF SessionsKept, Session
  <2>2. QED
    BY <1>1, <1>5, <2>1 DEF Mark
<1>6. QED
  BY <1>1, <1>2, <1>3, <1>4, <1>5
  DEF Request, Step, Receive, Authorize, Take, Exchange, ReadSession, StoreLogout,
      AdminLogout, store

LEMMA StepKeepsLogouts ==
  ASSUME CInv, NEW t \in Handlers, Request(t) \/ Step(t), ~StoreLogout(t)
  PROVE  LogoutsKept
<1>0. TypeOK
  BY DEF CInv
<1>1. CASE UNCHANGED logoutTransactions
  BY <1>1 DEF LogoutsKept
<1>2. CASE logoutTransactions' = PurgedLogouts
  BY <1>0, <1>2, PurgeFacts DEF LogoutsKept
<1>3. CASE Complete(t)
  BY <1>0, <1>3, PurgeFacts DEF Complete, LogoutsKept
<1>4. QED
  BY <1>1, <1>2, <1>3
  DEF Request, Step, Receive, Authorize, Take, Exchange, Establish, ReadSession, Remove,
      AdminLogout, Mark, store

LEMMA StepKeepsExchanges ==
  ASSUME CInv, NEW t \in Handlers, Request(t) \/ Step(t), ~Take(t)
  PROVE  ExchangesKept
<1>1. ASSUME NEW u \in Handlers, u # t
      PROVE  Exchanging(u)' => Exchanging(u) /\ job'[u].state = job[u].state
  BY <1>1, OthersKept DEF Exchanging
<1>2. Exchanging(t)' => Exchanging(t) /\ job'[t].state = job[t].state
  <2> USE DEF Exchanging, Done, Goto, Reply, TypeOK, CInv
  <2>1. CASE Exchange(t)
    BY <2>1 DEF Exchange, Job
  <2>2. CASE ReadSession(t)
    BY <2>2, ReadOutcomes
  <2>3. CASE Request(t)
    BY <2>3 DEF Request
  <2>4. CASE \/ Receive(t) \/ Authorize(t) \/ Establish(t) \/ Remove(t) \/ StoreLogout(t)
             \/ Complete(t) \/ AdminLogout(t) \/ Mark(t)
    BY <2>4 DEF Receive, Authorize, Establish, Remove, StoreLogout, Complete, AdminLogout, Mark
  <2>5. QED
    BY <2>1, <2>2, <2>3, <2>4 DEF Step
<1>3. QED
  BY <1>1, <1>2 DEF ExchangesKept

-----------------------------------------------------------------------------
(* The parts of the invariant, one after the other.                        *)

LEMMA CarriedStep ==
  ASSUME CInv, NEW t \in Handlers, Request(t) \/ Step(t)
  PROVE  \A u \in Handlers : Carried(u)'
<1> USE CustomerAssumption
<1>0. /\ TypeOK
      /\ Carried(t)
      /\ LogsKept
      /\ Len(logins) \in Nat /\ Len(logins') \in Nat
      /\ Len(logouts) \in Nat /\ Len(logouts') \in Nat
  <2>1. TypeOK'
    BY RequestType, StepType
  <2>2. TypeOK /\ Carried(t) /\ LogsKept
    BY NextKeepsLogs DEF CInv, Next
  <2>3. QED
    BY <2>1, <2>2 DEF TypeOK
<1>1. ASSUME NEW u \in Handlers, u # t
      PROVE  Carried(u)'
  <2>1. Carried(u) /\ pc'[u] = pc[u] /\ job'[u] = job[u]
    BY <1>1, OthersKept DEF CInv
  <2>2. QED
    BY <1>0, <2>1 DEF Carried, LogsKept
<1>2. Carried(t)'
  <2>1. CASE pc'[t] \in {"idle", "reply", "authorize", "remove"}
    BY <2>1 DEF Carried
  <2>2. CASE Request(t)
    <3>1. CASE pc'[t] = "read"
      <4>1. \/ \E op \in Reading : job' = [job EXCEPT ![t] = [NoJob EXCEPT !.op = op, !.cookie = cookie]]
            \/ \E sid \in Sids :
                 job' = [job EXCEPT ![t] = [NoJob EXCEPT !.op = "frontchannel", !.cookie = cookie,
                                                         !.sid = sid, !.realm = RealmOf[sid]]]
        BY <1>0, <2>2, <3>1 DEF Request, Goto, TypeOK, Reading
      <4>2. job'[t].op \in Reading
        <5>1. ASSUME NEW op \in Reading,
                     job' = [job EXCEPT ![t] = [NoJob EXCEPT !.op = op, !.cookie = cookie]]
              PROVE  job'[t].op \in Reading
          BY <1>0, <5>1 DEF TypeOK, NoJob
        <5>2. ASSUME NEW sid \in Sids,
                     job' = [job EXCEPT ![t] = [NoJob EXCEPT !.op = "frontchannel",
                                                             !.cookie = cookie, !.sid = sid,
                                                             !.realm = RealmOf[sid]]]
              PROVE  job'[t].op \in Reading
          BY <1>0, <5>2 DEF TypeOK, NoJob, Reading
        <5>3. QED
          BY <4>1, <5>1, <5>2
      <4>3. QED
        BY <3>1, <4>2 DEF Carried
    <3>2. CASE pc'[t] = "take"
      <4>1. PICK state \in 1..Len(logins), kind \in Kinds, realm \in Realms :
              /\ job' = [job EXCEPT ![t] = [NoJob EXCEPT !.op = "callback", !.cookie = cookie,
                                                         !.state = state, !.kind = kind,
                                                         !.realm = realm]]
              /\ UNCHANGED <<store, browser>>
        BY <1>0, <2>2, <3>2 DEF Request, Goto, TypeOK
      <4>2. job'[t].state = state /\ job'[t].realm = realm
        BY <1>0, <4>1 DEF TypeOK, NoJob
      <4>3. QED
        BY <3>2, <4>1, <4>2 DEF Carried, browser
    <3>3. CASE pc'[t] = "complete"
      <4>1. PICK state \in 1..Len(logouts), realm \in Realms :
              /\ job' = [job EXCEPT ![t] = [NoJob EXCEPT !.op = "signedOut", !.cookie = cookie,
                                                         !.state = state, !.realm = realm]]
              /\ UNCHANGED <<store, browser>>
        BY <1>0, <2>2, <3>3 DEF Request, Goto, TypeOK
      <4>2. job'[t].state = state
        BY <1>0, <4>1 DEF TypeOK, NoJob
      <4>3. QED
        BY <3>3, <4>1, <4>2 DEF Carried, browser
    <3>4. pc'[t] \in {"read", "authorize", "take", "complete"}
      BY <1>0, <2>2 DEF Request, Goto, TypeOK
    <3>5. QED
      BY <2>1, <3>1, <3>2, <3>3, <3>4
  <2>3. CASE Take(t)
    <3>1. CASE Done(t)
      BY <1>0, <2>1, <3>1 DEF Done, Goto, TypeOK
    <3>2. CASE Goto(t, "exchange") /\ UNCHANGED job
      BY <1>0, <2>3, <3>2 DEF Take, Goto, TypeOK, Carried, browser
    <3>3. QED
      BY <2>3, <3>1, <3>2 DEF Take
  <2>4. CASE Exchange(t)
    <3>1. CASE Done(t)
      BY <1>0, <2>1, <3>1 DEF Done, Goto, TypeOK
    <3>2. CASE \E sid \in Sids : /\ RealmOf[sid] = job[t].realm
                                 /\ job' = [job EXCEPT ![t].sid = sid]
                                 /\ Goto(t, "establish")
      BY <1>0, <2>4, <3>2 DEF Exchange, Goto, TypeOK, Job, Carried, browser
    <3>3. QED
      BY <2>4, <3>1, <3>2 DEF Exchange
  <2>5. CASE ReadSession(t)
    <3> DEFINE found == SessionOf(job[t].cookie)
    <3>1. CASE Done(t) \/ Goto(t, "remove")
      BY <1>0, <2>1, <3>1 DEF Done, Goto, TypeOK
    <3>2. CASE /\ found # NoSession
               /\ Goto(t, "store")
               /\ job' = [job EXCEPT ![t].realm = found.realm, ![t].sid = HintOf(found)]
      <4>1. pc'[t] = "store"
        BY <1>0, <3>2 DEF Goto, TypeOK
      <4>2. job'[t].cookie = job[t].cookie /\ job'[t].realm = found.realm /\ job'[t].sid = HintOf(found)
        BY <1>0, <3>2 DEF TypeOK, Job
      <4>3. QED
        BY <3>2, <4>1, <4>2, ReadFacts DEF Carried
    <3>3. CASE /\ found # NoSession
               /\ Goto(t, "admin")
               /\ job' = [job EXCEPT ![t].realm = found.realm, ![t].user = found.username]
      <4>1. pc'[t] = "admin"
        BY <1>0, <3>3 DEF Goto, TypeOK
      <4>2. job'[t].cookie = job[t].cookie
        BY <1>0, <3>3 DEF TypeOK, Job
      <4>3. QED
        BY <3>3, <4>1, <4>2, ReadFacts DEF Carried
    <3>4. QED
      BY <2>5, <3>1, <3>2, <3>3, ReadOutcomes
  <2>6. CASE AdminLogout(t)
    <3>1. CASE Done(t)
      BY <1>0, <2>1, <3>1 DEF Done, Goto, TypeOK
    <3>2. CASE Goto(t, "mark") /\ UNCHANGED job
      BY <1>0, <2>6, <3>2 DEF AdminLogout, Goto, TypeOK, Carried
    <3>3. QED
      BY <2>6, <3>1, <3>2 DEF AdminLogout
  <2>7. CASE \/ Receive(t) \/ Authorize(t) \/ Establish(t) \/ Remove(t) \/ StoreLogout(t)
             \/ Complete(t) \/ Mark(t)
    <3>1. pc'[t] \in {"idle", "reply"}
      BY <1>0, <2>7 DEF Receive, Authorize, Establish, Remove, StoreLogout, Complete, Mark,
                        Done, Reply, Goto, TypeOK
    <3>2. QED
      BY <2>1, <3>1
  <2>8. QED
    BY <2>2, <2>3, <2>4, <2>5, <2>6, <2>7 DEF Step
<1>3. QED
  BY <1>1, <1>2

LEMMA NumberedStep ==
  ASSUME CInv, NEW t \in Handlers, Request(t) \/ Step(t)
  PROVE  Numbered'
<1>0. TypeOK /\ Numbered /\ LogsKept /\ TypeOK'
  BY NextKeepsLogs, RequestType, StepType DEF CInv, Next
<1>1. /\ Len(logins) \in Nat /\ Len(logins') \in Nat
      /\ Len(logouts) \in Nat /\ Len(logouts') \in Nat
  BY <1>0 DEF TypeOK
<1>2. CASE Authorize(t) /\ connections[job[t].slot] # NoRealm
  <2> DEFINE entry == [realm |-> connections[job[t].slot], kind |-> job[t].kind]
             stored == [realm |-> connections[job[t].slot], kind |-> job[t].kind,
                        sessionId |-> job[t].cookie]
  <2>1. entry \in [realm: Realms, kind: Kinds]
    BY <1>0, <1>2 DEF TypeOK, Job
  <2> HIDE DEF entry, stored
  <2>2. /\ logins' = Append(logins, entry) /\ UNCHANGED logouts
        /\ Len(logins) + 1 <= MaxLogins
        /\ transactions' = [PurgedLogins EXCEPT ![Len(logins) + 1] = stored]
    BY <1>2 DEF Authorize, entry, stored
  <2>3. Len(logins') = Len(logins) + 1
    BY <1>0, <2>1, <2>2, AppendProperties DEF TypeOK
  <2>4. \A s \in 1..MaxLogins : transactions'[s] # NoTransaction => s <= Len(logins')
    BY <1>0, <1>1, <2>2, <2>3, PurgeFacts DEF Numbered
  <2>5. QED
    BY <1>0, <2>2, <2>3, <2>4 DEF Numbered
<1>3. CASE StoreLogout(t)
  <2>1. Len(logouts') = Len(logouts) + 1
    <3> DEFINE entry == [realm |-> job[t].realm, sid |-> job[t].sid]
    <3>1. entry \in [realm: Realms, sid: Sids]
      BY <1>3 DEF StoreLogout, CInv, Carried
    <3>2. logouts' = Append(logouts, entry)
      BY <1>3 DEF StoreLogout
    <3> HIDE DEF entry
    <3>3. QED
      BY <1>0, <3>1, <3>2, AppendProperties DEF TypeOK
  <2>2. QED
    BY <1>0, <1>3, <2>1 DEF StoreLogout, Numbered
<1>4. CASE UNCHANGED <<logins, logouts>> /\ ~Authorize(t)
  <2>1. StatesKept
    BY <1>4, StepKeepsStates
  <2>2. QED
    BY <1>0, <1>4, <2>1 DEF Numbered, StatesKept
<1>5. CASE Authorize(t) /\ connections[job[t].slot] = NoRealm
  BY <1>0, <1>5 DEF Authorize, Numbered
<1>6. QED
  BY <1>2, <1>3, <1>4, <1>5
  DEF Request, Step, Receive, Take, Exchange, Establish, ReadSession, Remove,
      Complete, AdminLogout, Mark, browser

LEMMA HoldingStep ==
  ASSUME CInv, NEW t \in Handlers, Request(t) \/ Step(t)
  PROVE  Holding'
<1>0. TypeOK /\ Carried(t) /\ Holding
  BY DEF CInv
<1>1. \A s \in 1..MaxLogouts :
        logoutTransactions'[s] # NoTransaction => logoutTransactions'[s].sessionId \in Ids
  <2>1. CASE StoreLogout(t)
    <3> DEFINE entry == [realm |-> job[t].realm, sessionId |-> job[t].cookie]
    <3>1. entry.sessionId \in Ids
      BY <1>0, <2>1 DEF StoreLogout, Carried
    <3>2. logoutTransactions' = [logoutTransactions EXCEPT ![Len(logouts) + 1] = entry]
      BY <2>1 DEF StoreLogout
    <3> HIDE DEF entry
    <3>3. QED
      BY <1>0, <3>1, <3>2 DEF Holding, TypeOK
  <2>2. CASE ~StoreLogout(t)
    BY <1>0, <2>2, StepKeepsLogouts DEF Holding, LogoutsKept
  <2>3. QED
    BY <2>1, <2>2
<1>2. \A i \in Ids : sessions'[i] # NoSession => \E k \in Kinds : sessions'[i].clients[k] # NoSid
  <2>1. CASE Establish(t)
    <3> DEFINE found == SessionOf(job[t].cookie)
               id    == IF Mints(t) THEN minted + 1 ELSE job[t].cookie
               kept  == IF Foreign(t) THEN [PurgedSessions EXCEPT ![job[t].cookie] = NoSession]
                        ELSE PurgedSessions
               next  == IF found = NoSession \/ Foreign(t) THEN NewSession(t)
                        ELSE Extended(t, found)
    <3>1. /\ job[t].sid \in Sids /\ job[t].realm \in Realms
          /\ job[t].kind \in Kinds /\ job[t].cookie \in Cookies
      BY <1>0, <2>1 DEF Establish, Carried, TypeOK, Job
    <3>2. next.clients[job[t].kind] # NoSid
      <4>1. CASE found = NoSession \/ Foreign(t)
        BY <1>0, <3>1, <4>1, NewSessionType, CustomerAssumption
      <4>2. CASE ~(found = NoSession \/ Foreign(t))
        <5>1. found \in Session
          BY <1>0, <3>1, <4>2, SessionOfFacts
        <5>2. next.clients = [found.clients EXCEPT ![job[t].kind] = job[t].sid]
          BY <1>0, <3>1, <4>2, <5>1, ExtendedType
        <5>3. found.clients \in [Kinds -> Sids \union {NoSid}]
          BY <5>1 DEF Session
        <5> HIDE DEF found, next
        <5>4. QED
          BY <3>1, <5>2, <5>3, CustomerAssumption
      <4>3. QED
        BY <4>1, <4>2
    <3>3. \A i \in Ids : kept[i] \in {sessions[i], NoSession}
      BY <1>0, <3>1, PurgeFacts
    <3>4. DOMAIN kept = Ids
      BY <1>0, PurgeFacts
    <3> HIDE DEF found, id, kept, next
    <3>5. sessions' = [kept EXCEPT ![id] = next]
      BY <2>1 DEF Establish, found, id, kept, next
    <3>6. QED
      BY <1>0, <3>1, <3>2, <3>3, <3>4, <3>5 DEF Holding
  <2>2. CASE ~Establish(t)
    BY <1>0, <2>2, StepKeepsSessions DEF Holding, SessionsKept
  <2>3. QED
    BY <2>1, <2>2
<1>3. QED
  BY <1>1, <1>2 DEF Holding

LEMMA BoundStep ==
  ASSUME CInv, NEW t \in Handlers, Request(t) \/ Step(t)
  PROVE  SessionBoundToIssuer'
<1>0. TypeOK /\ Carried(t) /\ SessionBoundToIssuer
  BY DEF CInv
<1>1. CASE Establish(t)
  <2> DEFINE found == SessionOf(job[t].cookie)
             id    == IF Mints(t) THEN minted + 1 ELSE job[t].cookie
             kept  == IF Foreign(t) THEN [PurgedSessions EXCEPT ![job[t].cookie] = NoSession]
                      ELSE PurgedSessions
             next  == IF found = NoSession \/ Foreign(t) THEN NewSession(t)
                      ELSE Extended(t, found)
  <2>1. /\ job[t].sid \in Sids /\ job[t].realm \in Realms
        /\ job[t].kind \in Kinds /\ job[t].cookie \in Cookies
        /\ RealmOf[job[t].sid] = job[t].realm
    BY <1>0, <1>1 DEF Establish, Carried, TypeOK, Job
  <2>2. \A k \in Kinds : next.clients[k] # NoSid => RealmOf[next.clients[k]] = next.realm
    <3>1. CASE found = NoSession \/ Foreign(t)
      BY <1>0, <2>1, <3>1, NewSessionType
    <3>2. CASE ~(found = NoSession \/ Foreign(t))
      <4>1. found \in Session /\ found = sessions[job[t].cookie] /\ job[t].cookie \in Ids
        BY <1>0, <2>1, <3>2, SessionOfFacts
      <4>2. /\ next.clients = [found.clients EXCEPT ![job[t].kind] = job[t].sid]
            /\ next.realm = found.realm
        BY <1>0, <2>1, <3>2, <4>1, ExtendedType
      <4>3. found.realm = job[t].realm
        BY <3>2 DEF Foreign
      <4>4. /\ found.clients \in [Kinds -> Sids \union {NoSid}]
            /\ \A k \in Kinds : found.clients[k] # NoSid => RealmOf[found.clients[k]] = found.realm
        BY <1>0, <3>2, <4>1 DEF Session, SessionBoundToIssuer
      <4> HIDE DEF found, next
      <4>5. QED
        BY <2>1, <4>2, <4>3, <4>4
    <3>3. QED
      BY <3>1, <3>2
  <2>3. \A i \in Ids : kept[i] \in {sessions[i], NoSession}
    BY <1>0, <2>1, PurgeFacts
  <2>4. DOMAIN kept = Ids
    BY <1>0, PurgeFacts
  <2> HIDE DEF found, id, kept, next
  <2>5. sessions' = [kept EXCEPT ![id] = next]
    BY <1>1 DEF Establish, found, id, kept, next
  <2>6. QED
    BY <1>0, <2>2, <2>3, <2>4, <2>5 DEF SessionBoundToIssuer
<1>2. CASE ~Establish(t)
  BY <1>0, <1>2, StepKeepsSessions DEF SessionBoundToIssuer, SessionsKept
<1>3. QED
  BY <1>1, <1>2

LEMMA StateInRange ==
  ASSUME CInv, NEW t \in Handlers, pc[t] \in {"take", "exchange", "establish"}
  PROVE  job[t].state \in 1..MaxLogins /\ job[t].state \in 1..Len(logins)
<1>1. Len(logins) \in Nat /\ Len(logins) <= MaxLogins /\ MaxLogins \in Nat
  BY CustomerAssumption DEF CInv, Numbered, TypeOK
<1>2. job[t].state \in 1..Len(logins)
  BY DEF CInv, Carried
<1>3. QED
  BY <1>1, <1>2

(* Debts only fall where no state is stored and none is taken up anew, so  *)
(* the invariant survives as long as no id is generated.                   *)
LEMMA OwedShrinks ==
  ASSUME CInv, StatesKept, ExchangesKept, TypeOK'
  PROVE  Owed' \subseteq Owed /\ OneTimeState'
<1>1. Owed' \subseteq Owed
  BY DEF StatesKept, ExchangesKept, Owed
<1>2. ASSUME NEW u \in Handlers, Exchanging(u)'
      PROVE  /\ transactions'[job'[u].state] = NoTransaction
             /\ \A v \in Handlers : Exchanging(v)' /\ job'[v].state = job'[u].state => v = u
  <2>1. Exchanging(u) /\ job'[u].state = job[u].state
    BY <1>2 DEF ExchangesKept
  <2>2. job[u].state \in 1..MaxLogins
    BY <2>1, StateInRange DEF Exchanging
  <2>3. transactions[job[u].state] = NoTransaction
    BY <2>1 DEF CInv, OneTimeState
  <2>4. ASSUME NEW v \in Handlers, Exchanging(v)', job'[v].state = job'[u].state
        PROVE  v = u
    BY <2>1, <2>4 DEF CInv, OneTimeState, ExchangesKept
  <2>5. QED
    BY <2>1, <2>2, <2>3, <2>4 DEF StatesKept
<1>3. QED
  BY <1>1, <1>2 DEF OneTimeState

LEMMA PaidKept ==
  ASSUME CInv, LogsKept, TypeOK', Owed' \subseteq Owed, UNCHANGED minted
  PROVE  Paid'
<1>1. Cardinality(Owed') <= Cardinality(Owed) /\ Cardinality(Owed) \in Nat
      /\ Cardinality(Owed') \in Nat
  BY OwedFinite, FS_Subset, FS_CardinalityType
<1>2. minted \in Nat /\ Len(logins) \in Nat /\ Len(logins') \in Nat
  BY DEF CInv, TypeOK
<1>3. QED
  BY <1>1, <1>2 DEF CInv, LogsKept, Paid

LEMMA AuthorizeStep ==
  ASSUME CInv, NEW t \in Handlers, Authorize(t)
  PROVE  OneTimeState' /\ Paid'
<1>0. TypeOK /\ TypeOK' /\ LogsKept /\ ExchangesKept
  BY StepType, NextKeepsLogs, StepKeepsExchanges DEF CInv, Next, Step, Authorize, Take
<1>1. CASE connections[job[t].slot] = NoRealm
  <2>1. StatesKept /\ UNCHANGED minted
    BY <1>0, <1>1 DEF Authorize, StatesKept
  <2>2. QED
    BY <1>0, <2>1, OwedShrinks, PaidKept
<1>2. CASE connections[job[t].slot] # NoRealm
  <2> DEFINE new   == Len(logins) + 1
             sent  == [realm |-> connections[job[t].slot], kind |-> job[t].kind]
             entry == [realm |-> connections[job[t].slot], kind |-> job[t].kind,
                       sessionId |-> job[t].cookie]
  <2>1. /\ transactions' = [PurgedLogins EXCEPT ![new] = entry]
        /\ logins' = Append(logins, sent)
        /\ UNCHANGED minted
    BY <1>2 DEF Authorize
  <2>2. sent \in [realm: Realms, kind: Kinds]
    BY <1>0, <1>2 DEF TypeOK, Job
  <2> HIDE DEF sent, entry
  <2>3. Len(logins') = Len(logins) + 1 /\ Len(logins) \in Nat
    BY <1>0, <2>1, <2>2, AppendProperties DEF TypeOK
  <2>4. \A s \in 1..MaxLogins : s # new => transactions'[s] \in {transactions[s], NoTransaction}
    BY <1>0, <2>1, PurgeFacts
  <2>5. Owed' \subseteq Owed \union {new}
    BY <1>0, <2>4 DEF Owed, ExchangesKept
  <2>6. Paid'
    <3>1. /\ Cardinality(Owed \union {new}) <= Cardinality(Owed) + 1
          /\ IsFiniteSet(Owed \union {new})
          /\ Cardinality(Owed) \in Nat
          /\ Cardinality(Owed \union {new}) \in Nat
      BY OwedFinite, FS_AddElement, FS_CardinalityType
    <3>2. Cardinality(Owed') <= Cardinality(Owed \union {new}) /\ Cardinality(Owed') \in Nat
      BY <2>5, <3>1, FS_Subset, FS_CardinalityType
    <3>3. minted \in Nat /\ minted + Cardinality(Owed) <= Len(logins)
      BY <1>0 DEF CInv, TypeOK, Paid
    <3>4. QED
      BY <2>1, <2>3, <3>1, <3>2, <3>3 DEF Paid
  <2>7. ASSUME NEW u \in Handlers, Exchanging(u)'
        PROVE  /\ transactions'[job'[u].state] = NoTransaction
               /\ \A v \in Handlers : Exchanging(v)' /\ job'[v].state = job'[u].state => v = u
    <3>1. Exchanging(u) /\ job'[u].state = job[u].state
      BY <1>0, <2>7 DEF ExchangesKept
    <3>2. /\ job[u].state \in 1..MaxLogins
          /\ job[u].state # new
      BY <2>3, <3>1, StateInRange DEF Exchanging
    <3>3. transactions[job[u].state] = NoTransaction
      BY <3>1 DEF CInv, OneTimeState
    <3>4. ASSUME NEW v \in Handlers, Exchanging(v)', job'[v].state = job'[u].state
          PROVE  v = u
      BY <1>0, <3>1, <3>4 DEF CInv, OneTimeState, ExchangesKept
    <3>5. QED
      BY <2>4, <3>1, <3>2, <3>3, <3>4
  <2>8. QED
    BY <2>6, <2>7 DEF OneTimeState
<1>3. QED
  BY <1>1, <1>2

(* Taking a state turns a stored state into one that is exchanged.         *)
LEMMA TakeStep ==
  ASSUME CInv, NEW t \in Handlers, Take(t)
  PROVE  OneTimeState' /\ Paid'
<1>0. TypeOK /\ TypeOK' /\ LogsKept /\ StatesKept /\ UNCHANGED minted
  BY StepType, NextKeepsLogs, StepKeepsStates DEF CInv, Next, Step, Take, Authorize
<1>1. ASSUME NEW u \in Handlers, u # t
      PROVE  Exchanging(u)' => Exchanging(u) /\ job'[u].state = job[u].state
  BY <1>1, OthersKept DEF Exchanging, Step
<1>2. CASE Done(t)
  <2>1. ExchangesKept
    BY <1>0, <1>1, <1>2 DEF ExchangesKept, Exchanging, Done, Goto, TypeOK
  <2>2. QED
    BY <1>0, <2>1, OwedShrinks, PaidKept
<1>3. CASE ~Done(t)
  <2> DEFINE state == job[t].state
  <2>1. /\ PurgedLogins[state] # NoTransaction
        /\ job' = job
        /\ transactions' = [PurgedLogins EXCEPT ![state] = NoTransaction]
    BY <1>3 DEF Take, PopState
  <2>2. state \in 1..MaxLogins
    BY StateInRange DEF Take
  <2>3. transactions[state] # NoTransaction /\ transactions'[state] = NoTransaction
    BY <1>0, <2>1, <2>2, PurgeFacts
  <2>4. Owed' \subseteq Owed
    <3>1. ASSUME NEW s \in 1..MaxLogins, NEW u \in Handlers, Exchanging(u)', job'[u].state = s
          PROVE  s \in Owed
      <4>1. CASE u = t
        BY <2>1, <2>2, <2>3, <3>1, <4>1 DEF Owed
      <4>2. CASE u # t
        BY <1>1, <3>1, <4>2 DEF Owed
      <4>3. QED
        BY <4>1, <4>2
    <3>2. QED
      BY <1>0, <3>1 DEF StatesKept, Owed
  <2>5. ASSUME NEW u \in Handlers, Exchanging(u)'
        PROVE  transactions'[job'[u].state] = NoTransaction
    <3>1. CASE u = t
      BY <2>1, <2>3, <3>1
    <3>2. CASE u # t
      <4>1. Exchanging(u) /\ job'[u].state = job[u].state
        BY <1>1, <2>5, <3>2
      <4>2. job[u].state \in 1..MaxLogins /\ transactions[job[u].state] = NoTransaction
        BY <4>1, StateInRange DEF CInv, OneTimeState, Exchanging
      <4>3. QED
        BY <1>0, <4>1, <4>2 DEF StatesKept
    <3>3. QED
      BY <3>1, <3>2
  <2>6. ASSUME NEW u \in Handlers, NEW v \in Handlers, Exchanging(u)', Exchanging(v)',
               job'[v].state = job'[u].state
        PROVE  v = u
    <3>1. CASE u # t /\ v # t
      BY <1>1, <2>6, <3>1 DEF CInv, OneTimeState
    <3>2. ASSUME NEW w \in Handlers, w # t, Exchanging(w)'
          PROVE  job'[w].state # state
      <4>1. Exchanging(w) /\ job'[w].state = job[w].state
        BY <1>1, <3>2
      <4>2. transactions[job[w].state] = NoTransaction
        BY <4>1 DEF CInv, OneTimeState
      <4>3. QED
        BY <2>3, <4>1, <4>2
    <3>3. job'[t].state = state
      BY <2>1
    <3>4. QED
      BY <2>6, <3>1, <3>2, <3>3
  <2>7. OneTimeState'
    BY <2>5, <2>6 DEF OneTimeState
  <2>8. QED
    BY <1>0, <2>4, <2>7, PaidKept
<1>4. QED
  BY <1>2, <1>3

(* The end of a callback pays for the id it may generate.                  *)
LEMMA EstablishStep ==
  ASSUME CInv, NEW t \in Handlers, Establish(t)
  PROVE  OneTimeState' /\ Paid'
<1>0. TypeOK /\ TypeOK' /\ LogsKept /\ StatesKept /\ ExchangesKept
  BY StepType, NextKeepsLogs, StepKeepsStates, StepKeepsExchanges
  DEF CInv, Next, Step, Establish, Take, Authorize
<1>1. Owed' \subseteq Owed /\ OneTimeState'
  BY <1>0, OwedShrinks
<1>2. Exchanging(t) /\ ~Exchanging(t)'
  BY <1>0 DEF Establish, Exchanging, Reply, Goto, TypeOK
<1>3. job[t].state \in Owed /\ job[t].state \in 1..MaxLogins
  BY <1>2, MintRoom, StateInRange DEF Exchanging
<1>4. job[t].state \notin Owed'
  <2>1. transactions'[job[t].state] = NoTransaction
    BY <1>0, <1>2, <1>3 DEF CInv, OneTimeState, StatesKept
  <2>2. ASSUME NEW u \in Handlers, Exchanging(u)'
        PROVE  job'[u].state # job[t].state
    BY <1>0, <1>2, <2>2 DEF ExchangesKept, CInv, OneTimeState
  <2>3. QED
    BY <2>1, <2>2 DEF Owed
<1>5. Owed' \subseteq Owed \ {job[t].state}
  BY <1>1, <1>4
<1>6. /\ IsFiniteSet(Owed \ {job[t].state})
      /\ Cardinality(Owed \ {job[t].state}) = Cardinality(Owed) - 1
      /\ Cardinality(Owed) \in Nat
  BY <1>3, OwedFinite, FS_RemoveElement, FS_CardinalityType
<1>7. Cardinality(Owed') <= Cardinality(Owed) - 1 /\ Cardinality(Owed') \in Nat
  BY <1>5, <1>6, FS_Subset, FS_CardinalityType
<1>8. minted' \in {minted, minted + 1}
  BY DEF Establish
<1>9. minted \in Nat /\ Len(logins) \in Nat /\ Len(logins') \in Nat
  BY <1>0 DEF TypeOK
<1>10. Paid'
  BY <1>0, <1>6, <1>7, <1>8, <1>9 DEF CInv, Paid, LogsKept
<1>11. QED
  BY <1>1, <1>10

LEMMA HandlerStep ==
  ASSUME CInv, NEW t \in Handlers, Request(t) \/ Step(t)
  PROVE  CInv'
<1>1. TypeOK' /\ LogsKept
  BY RequestType, StepType, NextKeepsLogs DEF Next
<1>2. OneTimeState' /\ Paid'
  <2>1. CASE Authorize(t)
    BY <2>1, AuthorizeStep
  <2>2. CASE Take(t)
    BY <2>2, TakeStep
  <2>3. CASE Establish(t)
    BY <2>3, EstablishStep
  <2>4. CASE ~(Authorize(t) \/ Take(t) \/ Establish(t))
    <3>1. UNCHANGED minted
      BY <2>4 DEF Request, Step, Receive, Exchange, ReadSession, Remove, StoreLogout,
                  Complete, AdminLogout, Mark, store
    <3>2. StatesKept /\ ExchangesKept
      BY <2>4, StepKeepsStates, StepKeepsExchanges
    <3>3. QED
      BY <1>1, <3>1, <3>2, OwedShrinks, PaidKept
  <2>5. QED
    BY <2>1, <2>2, <2>3, <2>4
<1>3. QED
  BY <1>1, <1>2, CarriedStep, NumberedStep, HoldingStep, BoundStep DEF CInv

LEMMA EnvironmentStep ==
  ASSUME CInv, Expire \/ Reconfigure \/ Restart
  PROVE  CInv'
<1>1. TypeOK'
  BY ExpireType, ReconfigureType, RestartType DEF CInv
<1>2. CASE Expire \/ Reconfigure
  <2>1. UNCHANGED <<transactions, logoutTransactions, sessions, minted, logins, logouts, pc, job>>
    BY <1>2 DEF Expire, Reconfigure, store, browser
  <2>2. Owed' = Owed
    BY <2>1 DEF Owed, Exchanging
  <2>3. QED
    BY <1>1, <2>1, <2>2
    DEF CInv, Carried, Numbered, Holding, Paid, OneTimeState, SessionBoundToIssuer, Exchanging
<1>3. CASE Restart
  <2>1. /\ \A s \in 1..MaxLogins : transactions'[s] = NoTransaction
        /\ \A s \in 1..MaxLogouts : logoutTransactions'[s] = NoTransaction
        /\ \A i \in Ids : sessions'[i] = NoSession
        /\ \A t \in Handlers : pc'[t] = "idle"
        /\ UNCHANGED <<minted, logins, logouts>>
    BY <1>3 DEF Restart, browser
  <2>2. Owed' = {}
    BY <2>1 DEF Owed, Exchanging
  <2>3. Paid'
    <3>1. /\ Cardinality(Owed) \in Nat /\ minted \in Nat /\ Len(logins) \in Nat
          /\ minted + Cardinality(Owed) <= Len(logins)
      BY OwedFinite, FS_CardinalityType DEF CInv, TypeOK, Paid
    <3>2. Cardinality(Owed') = 0
      BY <2>2, FS_EmptySet
    <3>3. QED
      BY <2>1, <3>1, <3>2 DEF Paid
  <2>4. Numbered' /\ Holding' /\ SessionBoundToIssuer'
    BY <2>1 DEF CInv, Numbered, Holding, SessionBoundToIssuer
  <2>5. OneTimeState' /\ \A t \in Handlers : Carried(t)'
    BY <2>1 DEF OneTimeState, Carried, Exchanging
  <2>6. QED
    BY <1>1, <2>3, <2>4, <2>5 DEF CInv
<1>4. QED
  BY <1>2, <1>3

LEMMA CInvInductive ==
  ASSUME CInv, [Next]_vars
  PROVE  CInv'
<1>1. CASE Next
  BY <1>1, HandlerStep, EnvironmentStep DEF Next
<1>2. CASE UNCHANGED vars
  <2>1. UNCHANGED <<connections, transactions, logoutTransactions, sessions, minted, expired, ended,
                    cookie, logins, logouts, provider, pc, job, requests, expiries, changes>>
    BY <1>2 DEF vars, store, browser, counters
  <2>2. TypeOK' /\ Owed' = Owed
    BY <2>1 DEF CInv, TypeOK, Owed, Exchanging
  <2>3. QED
    BY <2>1, <2>2
    DEF CInv, Carried, Numbered, Holding, Paid, OneTimeState, SessionBoundToIssuer, Exchanging
<1>3. QED
  BY <1>1, <1>2

LEMMA CInvHolds == Spec => []CInv
  BY InitCInv, CInvInductive, PTL DEF Spec

-----------------------------------------------------------------------------
(* Every reachable state is well typed: in particular an RP logout always  *)
(* names a Keycloak session of the session it ends, and the server never   *)
(* generates more session ids than authorizations were begun.              *)
THEOREM TypeCorrect == Spec => []TypeOK
<1>1. CInv => TypeOK
  BY DEF CInv
<1>2. QED
  BY <1>1, CInvHolds, PTL

(* server.py:473-480: whatever callbacks, purges and restarts overlap, a   *)
(* state leads to one token exchange at most.                              *)
THEOREM StateWorksOnce == Spec => []OneTimeState
<1>1. CInv => OneTimeState
  BY DEF CInv
<1>2. QED
  BY <1>1, CInvHolds, PTL

(* server.py:557-591: whatever logins of both realms share a cookie, a     *)
(* session holds tokens of its own issuer only.                            *)
THEOREM IssuersNeverMix == Spec => []SessionBoundToIssuer
<1>1. CInv => SessionBoundToIssuer
  BY DEF CInv
<1>2. QED
  BY <1>1, CInvHolds, PTL
=============================================================================
