------------------------------ MODULE CustomerLab ------------------------------
(***************************************************************************)
(* The synthetic customer site, customer/server.py: an OIDC relying party  *)
(* that keeps its browser sessions, its authorization states and its       *)
(* logout states in memory, each behind one lock, and calls Keycloak       *)
(* between its locked sections.                                            *)
(*                                                                         *)
(* One browser talks to it over several requests at a time (tabs, frames). *)
(* A request carries the cookie of the moment it is sent and its answer    *)
(* sets the cookie when it arrives.  Keycloak is the environment: it       *)
(* redirects an authorization back with a code of one of its sessions, and *)
(* a session it has ended gives no more tokens.  A realm stands for its    *)
(* issuer.  Wording, evidence events, cookie modes, PKCE and the claims    *)
(* other than issuer and session are left out; a request they would refuse *)
(* is one whose exchange fails.                                            *)
(***************************************************************************)
EXTENDS Naturals, Sequences, FiniteSets

CONSTANTS
  Handlers,     \* request threads of the server
  Slots,        \* labA, labB
  Realms,       \* realms the slots are applied under
  Sids,         \* Keycloak sessions
  RealmOf,      \* the realm of each Keycloak session
  Users,        \* usernames
  UserOf,       \* the username of each Keycloak session
  Applied,      \* the realm of each slot at the start
  Ops,          \* the operations the browser calls in this instance
  MaxLogins,    \* bound: authorizations begun
  MaxLogouts,   \* bound: RP-initiated logouts begun
  MaxRequests,  \* bound: requests in a behaviour
  MaxExpiries,  \* bound: entries that outlive their lifetime
  MaxChanges,   \* bound: connection files rewritten, and server restarts
  NoRealm, NoSid, NoSession, NoTransaction

NoCookie == 0
Kinds    == {"customer", "probe"}
Ids      == 1..MaxLogins
Cookies  == Ids \union {NoCookie}
Session  == [realm: Realms, username: Users, clients: [Kinds -> Sids \union {NoSid}],
             terminated: BOOLEAN]
Transaction       == [realm: Realms, kind: Kinds, sessionId: Cookies]
LogoutTransaction == [realm: Realms, sessionId: Cookies]
AllOps == {"state", "login", "callback", "localLogout", "rpLogout", "signedOut",
           "frontchannel", "terminate"}

ASSUME CustomerAssumption ==
  /\ Slots # {}
  /\ RealmOf \in [Sids -> Realms]
  /\ Users # {} /\ UserOf \in [Sids -> Users]
  /\ Applied \in [Slots -> Realms \union {NoRealm}]
  /\ Ops \subseteq AllOps
  /\ MaxLogins \in Nat /\ MaxLogouts \in Nat /\ MaxRequests \in Nat
  /\ MaxExpiries \in Nat /\ MaxChanges \in Nat
  /\ NoRealm \notin Realms
  /\ NoSid \notin Sids
  /\ NoSession \notin Session
  /\ NoTransaction \notin Transaction \union LogoutTransaction

VARIABLES
  connections,        \* scenarios/<slot>/connection.json: its realm, or NoRealm
  transactions,       \* _transactions, by state
  logoutTransactions, \* _logout_transactions, by state
  sessions,           \* _sessions, by id
  minted,             \* session ids generated
  expired,            \* entries older than their lifetime and not yet purged
  ended,              \* session ids a logout removed, since the server started
  cookie,             \* the browser's northlake_customer_session
  logins,             \* the authorization redirects sent, by state
  logouts,            \* the logout redirects sent, by state
  provider,           \* Keycloak's sessions: unborn, live or ended
  pc, job,
  requests, expiries, changes

store    == <<transactions, logoutTransactions, sessions, minted, expired, ended>>
browser  == <<cookie, logins, logouts>>
counters == <<requests, expiries, changes>>
vars     == <<connections, store, browser, provider, pc, job, counters>>

NoJob == [op |-> "none", cookie |-> NoCookie, slot |-> CHOOSE s \in Slots : TRUE,
          kind |-> CHOOSE k \in Kinds : TRUE, state |-> 0, sid |-> NoSid,
          realm |-> NoRealm, user |-> CHOOSE u \in Users : TRUE, reply |-> NoCookie]
Job == [op: AllOps \union {"none"}, cookie: Cookies, slot: Slots, kind: Kinds,
        state: 0..(MaxLogins + MaxLogouts), sid: Sids \union {NoSid},
        realm: Realms \union {NoRealm}, user: Users, reply: Cookies]
Labels == {"idle", "read", "authorize", "take", "exchange", "establish", "remove",
           "store", "complete", "admin", "mark", "reply"}

Goto(t, label) == pc' = [pc EXCEPT ![t] = label]
Done(t) == Goto(t, "idle") /\ job' = [job EXCEPT ![t] = NoJob]
Reply(t, value) == Goto(t, "reply") /\ job' = [job EXCEPT ![t].reply = value]

Init ==
  /\ connections = Applied
  /\ transactions = [s \in 1..MaxLogins |-> NoTransaction]
  /\ logoutTransactions = [s \in 1..MaxLogouts |-> NoTransaction]
  /\ sessions = [i \in Ids |-> NoSession]
  /\ minted = 0 /\ expired = {} /\ ended = {}
  /\ cookie = NoCookie /\ logins = <<>> /\ logouts = <<>>
  /\ provider = [sid \in Sids |-> "unborn"]
  /\ pc = [t \in Handlers |-> "idle"]
  /\ job = [t \in Handlers |-> NoJob]
  /\ requests = 0 /\ expiries = 0 /\ changes = 0

(* profile(realm=...): exactly one applied slot has the realm.             *)
HasProfile(realm) == Cardinality({s \in Slots : connections[s] = realm}) = 1

(* _purge drops what has outlived its lifetime.                            *)
Purged(kind, table, none) ==
  [x \in DOMAIN table |-> IF <<kind, x>> \in expired THEN none ELSE table[x]]

PurgedLogins   == Purged("login", transactions, NoTransaction)
PurgedLogouts  == Purged("logout", logoutTransactions, NoTransaction)
PurgedSessions == Purged("session", sessions, NoSession)

SessionOf(id) == IF id = NoCookie THEN NoSession ELSE PurgedSessions[id]

-----------------------------------------------------------------------------
(* The browser sends a request; one that would read no session and has no  *)
(* cookie is left out.  Keycloak redirects an authorization or a logout    *)
(* back, perhaps more than once, and has ended its session before it sends *)
(* the browser to the logout callback.  The path of a callback names a     *)
(* realm and a client, not always the ones of the state that comes with    *)
(* it.  A Front-Channel Logout frame names a session of its realm;         *)
(* SameSite=Lax may keep the cookie from it.                               *)
Request(t) ==
  /\ pc[t] = "idle"
  /\ requests < MaxRequests
  /\ requests' = requests + 1
  /\ \/ \E op \in Ops \intersect {"state", "localLogout", "rpLogout", "terminate"} :
          /\ cookie # NoCookie \/ op = "localLogout"
          /\ job' = [job EXCEPT ![t] = [NoJob EXCEPT !.op = op, !.cookie = cookie]]
          /\ Goto(t, "read")
          /\ UNCHANGED provider
     \/ \E slot \in Slots, kind \in Kinds :
          /\ "login" \in Ops
          /\ job' = [job EXCEPT ![t] = [NoJob EXCEPT !.op = "login", !.cookie = cookie,
                                                     !.slot = slot, !.kind = kind]]
          /\ Goto(t, "authorize")
          /\ UNCHANGED provider
     \/ \E state \in 1..Len(logins), kind \in Kinds, realm \in Realms :
          /\ "callback" \in Ops
          /\ job' = [job EXCEPT ![t] = [NoJob EXCEPT !.op = "callback", !.cookie = cookie,
                                                     !.state = state, !.kind = kind,
                                                     !.realm = realm]]
          /\ Goto(t, "take")
          /\ UNCHANGED provider
     \/ \E state \in 1..Len(logouts), realm \in Realms :
          /\ "signedOut" \in Ops
          /\ job' = [job EXCEPT ![t] = [NoJob EXCEPT !.op = "signedOut", !.cookie = cookie,
                                                     !.state = state, !.realm = realm]]
          /\ provider' = [provider EXCEPT ![logouts[state].sid] = "ended"]
          /\ Goto(t, "complete")
     \/ \E sid \in Sids :
          /\ "frontchannel" \in Ops
          /\ cookie # NoCookie
          /\ provider[sid] # "unborn"
          /\ job' = [job EXCEPT ![t] = [NoJob EXCEPT !.op = "frontchannel", !.cookie = cookie,
                                                     !.sid = sid, !.realm = RealmOf[sid]]]
          /\ Goto(t, "read")
          /\ UNCHANGED provider
  /\ UNCHANGED <<connections, store, browser, expiries, changes>>

(* The answer reaches the browser with its Set-Cookie.                     *)
Receive(t) ==
  /\ pc[t] = "reply"
  /\ cookie' = job[t].reply
  /\ Done(t)
  /\ UNCHANGED <<connections, store, logins, logouts, provider, counters>>

-----------------------------------------------------------------------------
(* begin_authorization: the profile of the slot, then the new state.       *)
Authorize(t) ==
  /\ pc[t] = "authorize"
  /\ LET realm == connections[job[t].slot]
         state == Len(logins) + 1
     IN IF realm = NoRealm
        THEN UNCHANGED <<transactions, logoutTransactions, sessions, expired, logins>>
        ELSE /\ state <= MaxLogins
             /\ transactions' = [PurgedLogins EXCEPT ![state] =
                                   [realm |-> realm, kind |-> job[t].kind,
                                    sessionId |-> job[t].cookie]]
             /\ logoutTransactions' = PurgedLogouts
             /\ sessions' = PurgedSessions
             /\ expired' = {}
             /\ logins' = Append(logins, [realm |-> realm, kind |-> job[t].kind])
  /\ Done(t)
  /\ UNCHANGED <<connections, minted, ended, cookie, logouts, provider, counters>>

(* Mutant: the state stays until its lifetime ends.                        *)
LeaveState(t) == PurgedLogins

(* complete_authorization pops the state first, so that it works once.     *)
PopState(t) == [PurgedLogins EXCEPT ![job[t].state] = NoTransaction]

(* The callback must be the one of the state's realm and client, and a     *)
(* state begun in an RP session needs that session's cookie.               *)
Take(t) ==
  /\ pc[t] = "take"
  /\ LET transaction == PurgedLogins[job[t].state]
     IN IF /\ transaction # NoTransaction
           /\ transaction.realm = job[t].realm /\ transaction.kind = job[t].kind
           /\ transaction.sessionId \in {NoCookie, job[t].cookie}
        THEN Goto(t, "exchange") /\ UNCHANGED job
        ELSE Done(t)
  /\ transactions' = PopState(t)
  /\ logoutTransactions' = PurgedLogouts
  /\ sessions' = PurgedSessions
  /\ expired' = {}
  /\ UNCHANGED <<connections, minted, ended, browser, provider, counters>>

(* The realm's profile, the token exchange, the ID token and UserInfo,     *)
(* all outside the lock.                                                   *)
Exchange(t) ==
  /\ pc[t] = "exchange"
  /\ \/ /\ HasProfile(job[t].realm)
        /\ \E sid \in Sids :
             /\ RealmOf[sid] = job[t].realm
             /\ provider[sid] # "ended"
             /\ provider' = [provider EXCEPT ![sid] = "live"]
             /\ job' = [job EXCEPT ![t].sid = sid]
        /\ Goto(t, "establish")
     \/ Done(t) /\ UNCHANGED provider
  /\ UNCHANGED <<connections, store, browser, counters>>

NewSession(t) ==
  [realm |-> job[t].realm, username |-> UserOf[job[t].sid], terminated |-> FALSE,
   clients |-> [[k \in Kinds |-> NoSid] EXCEPT ![job[t].kind] = job[t].sid]]

(* Mutant: a new login leaves providerTerminationRequested as it was.      *)
ExtendedUnreset(t, session) ==
  [session EXCEPT !.username = UserOf[job[t].sid], !.clients[job[t].kind] = job[t].sid]

(* The session takes the name of its latest login, whoever that is, and    *)
(* keeps what it holds of the other client.                                *)
Extended(t, session) ==
  [session EXCEPT !.username = UserOf[job[t].sid], !.clients[job[t].kind] = job[t].sid,
                  !.terminated = FALSE]

(* Mutant: the issuer of the cookie's session is not compared.             *)
NeverForeign(t) == FALSE

Foreign(t) ==
  LET found == SessionOf(job[t].cookie) IN found # NoSession /\ found.realm # job[t].realm

(* Mutant: a session that replaces another issuer's takes over its id.     *)
MintsWithoutCookie(t) == job[t].cookie = NoCookie

Mints(t) == job[t].cookie = NoCookie \/ Foreign(t)

(* Under the lock: the cookie's session is extended when it is of this     *)
(* issuer; another issuer's is dropped for a session with a new id; an id  *)
(* whose session is gone gets a new session.                               *)
Establish(t) ==
  /\ pc[t] = "establish"
  /\ LET found == SessionOf(job[t].cookie)
         id    == IF Mints(t) THEN minted + 1 ELSE job[t].cookie
         kept  == IF Foreign(t) THEN [PurgedSessions EXCEPT ![job[t].cookie] = NoSession]
                  ELSE PurgedSessions
     IN /\ minted' = IF Mints(t) THEN minted + 1 ELSE minted
        /\ sessions' = [kept EXCEPT ![id] = IF found = NoSession \/ Foreign(t)
                                            THEN NewSession(t) ELSE Extended(t, found)]
        /\ Reply(t, id)
  /\ transactions' = PurgedLogins
  /\ logoutTransactions' = PurgedLogouts
  /\ expired' = {}
  /\ UNCHANGED <<connections, ended, browser, provider, counters>>

-----------------------------------------------------------------------------
(* Mutant: any Keycloak session of the realm ends the RP session.          *)
NamesOfRealm(t, session) == session.realm = job[t].realm

(* The Front-Channel Logout names a Keycloak session of the RP session.    *)
Names(t, session) ==
  /\ session.realm = job[t].realm
  /\ \E k \in Kinds : session.clients[k] = job[t].sid

(* Mutant: the logout hint is always the customer client's ID token.       *)
HintOfCustomer(session) == session.clients["customer"]

HintOf(session) ==
  IF session.clients["customer"] # NoSid THEN session.clients["customer"]
  ELSE session.clients["probe"]

(* session() purges and returns the session of the cookie; what a handler  *)
(* reads of it decides what it does next.  The state page ends here.  (The *)
(* code reads the name it logs out one call later, which is another name   *)
(* only if a login overlaps; no property says who is logged out then.)     *)
ReadSession(t) ==
  /\ pc[t] = "read"
  /\ LET found == SessionOf(job[t].cookie)
         goOn(next) == Goto(t, next) /\ UNCHANGED job
     IN CASE job[t].op = "state" -> Done(t)
          [] job[t].op = "localLogout" -> goOn("remove")
          [] job[t].op = "frontchannel" ->
               IF HasProfile(job[t].realm) /\ found # NoSession /\ Names(t, found)
               THEN goOn("remove") ELSE Done(t)
          [] job[t].op = "rpLogout" ->
               IF found # NoSession /\ HasProfile(found.realm)
               THEN /\ Goto(t, "store")
                    /\ job' = [job EXCEPT ![t].realm = found.realm, ![t].sid = HintOf(found)]
               ELSE Done(t)
          [] job[t].op = "terminate" ->
               IF found # NoSession
               THEN /\ Goto(t, "admin")
                    /\ job' = [job EXCEPT ![t].realm = found.realm, ![t].user = found.username]
               ELSE Done(t)
  /\ IF job[t].cookie = NoCookie \/ (job[t].op = "frontchannel" /\ ~HasProfile(job[t].realm))
     THEN UNCHANGED <<transactions, logoutTransactions, sessions, expired>>
     ELSE /\ transactions' = PurgedLogins
          /\ logoutTransactions' = PurgedLogouts
          /\ sessions' = PurgedSessions
          /\ expired' = {}
  /\ UNCHANGED <<connections, minted, ended, browser, provider, counters>>

(* Mutant: a logout answers without clearing the browser's cookie.         *)
KeepCookie(t) == job[t].cookie

ClearCookie(t) == NoCookie

(* local_logout and a verified frontchannel_logout pop the cookie's id.    *)
Remove(t) ==
  /\ pc[t] = "remove"
  /\ LET id == {job[t].cookie} \ {NoCookie}
     IN /\ sessions' = [i \in Ids |-> IF i \in id THEN NoSession ELSE sessions[i]]
        /\ ended' = ended \union id
  /\ Reply(t, ClearCookie(t))
  /\ UNCHANGED <<connections, transactions, logoutTransactions, minted, expired, browser,
                 provider, counters>>

(* begin_rp_logout stores its state and redirects to Keycloak.             *)
StoreLogout(t) ==
  /\ pc[t] = "store"
  /\ LET state == Len(logouts) + 1
     IN /\ state <= MaxLogouts
        /\ logoutTransactions' = [logoutTransactions EXCEPT ![state] =
                                    [realm |-> job[t].realm, sessionId |-> job[t].cookie]]
        /\ logouts' = Append(logouts, [realm |-> job[t].realm, sid |-> job[t].sid])
  /\ Done(t)
  /\ UNCHANGED <<connections, transactions, sessions, minted, expired, ended, cookie, logins,
                 provider, counters>>

(* complete_rp_logout pops the state, refuses another realm's callback and *)
(* a browser that is in another live session, and pops the session that    *)
(* began the logout.                                                       *)
Complete(t) ==
  /\ pc[t] = "complete"
  /\ LET transaction == PurgedLogouts[job[t].state]
         refused     == \/ transaction = NoTransaction
                        \/ transaction.realm # job[t].realm
                        \/ /\ transaction.sessionId # job[t].cookie
                           /\ SessionOf(job[t].cookie) # NoSession
     IN IF refused
        THEN sessions' = PurgedSessions /\ UNCHANGED ended /\ Done(t)
        ELSE /\ sessions' = [PurgedSessions EXCEPT ![transaction.sessionId] = NoSession]
             /\ ended' = ended \union {transaction.sessionId}
             /\ Reply(t, ClearCookie(t))
  /\ transactions' = PurgedLogins
  /\ logoutTransactions' = [PurgedLogouts EXCEPT ![job[t].state] = NoTransaction]
  /\ expired' = {}
  /\ UNCHANGED <<connections, minted, browser, provider, counters>>

(* The Keycloak sessions of the one user that the session names.           *)
UserSessions(t) == {sid \in Sids : RealmOf[sid] = job[t].realm /\ UserOf[sid] = job[t].user}

(* provider_terminate: the administrator logs the user of the latest login *)
(* out of the realm, and nobody else who logged in under the session id; a *)
(* call that fails may have done so.                                       *)
AdminLogout(t) ==
  /\ pc[t] = "admin"
  /\ LET loggedOut == [sid \in Sids |->
                         IF sid \in UserSessions(t) /\ provider[sid] = "live"
                         THEN "ended" ELSE provider[sid]]
     IN \/ provider' = loggedOut /\ Goto(t, "mark") /\ UNCHANGED job
        \/ provider' \in {provider, loggedOut} /\ Done(t)
  /\ UNCHANGED <<connections, store, browser, counters>>

(* Whatever session has the id by now is marked.                           *)
Mark(t) ==
  /\ pc[t] = "mark"
  /\ sessions' = IF sessions[job[t].cookie] = NoSession THEN sessions
                 ELSE [sessions EXCEPT ![job[t].cookie].terminated = TRUE]
  /\ Done(t)
  /\ UNCHANGED <<connections, transactions, logoutTransactions, minted, expired, ended,
                 browser, provider, counters>>

-----------------------------------------------------------------------------
(* The environment: time, the configuration service and the container.     *)

Entries ==
       {<<"login", s>> : s \in {s \in 1..MaxLogins : transactions[s] # NoTransaction}}
  \union {<<"logout", s>> : s \in {s \in 1..MaxLogouts : logoutTransactions[s] # NoTransaction}}
  \union {<<"session", i>> : i \in {i \in Ids : sessions[i] # NoSession}}

(* A request touches the session it reads, and sessions live longer than   *)
(* transactions and requests: it does not expire under one of them.        *)
Touched(id) ==
  \/ \E t \in Handlers : job[t].cookie = id /\ pc[t] \in {"remove", "store", "admin", "mark"}
  \/ \E s \in 1..MaxLogouts : /\ logoutTransactions[s] # NoTransaction
                              /\ <<"logout", s>> \notin expired
                              /\ logoutTransactions[s].sessionId = id

Expire ==
  /\ expiries < MaxExpiries
  /\ expiries' = expiries + 1
  /\ \E entry \in Entries \ expired :
       /\ entry[1] = "session" => ~Touched(entry[2])
       /\ expired' = expired \union {entry}
  /\ UNCHANGED <<connections, transactions, logoutTransactions, sessions, minted, ended,
                 browser, provider, pc, job, requests, changes>>

Changing == changes < MaxChanges /\ changes' = changes + 1

Reconfigure ==
  /\ Changing
  /\ \E slot \in Slots, realm \in Realms : connections' = [connections EXCEPT ![slot] = realm]
  /\ UNCHANGED <<store, browser, provider, pc, job, requests, expiries>>

(* The maps are in memory only; the browser keeps its cookie.              *)
Restart ==
  /\ Changing
  /\ transactions' = [s \in 1..MaxLogins |-> NoTransaction]
  /\ logoutTransactions' = [s \in 1..MaxLogouts |-> NoTransaction]
  /\ sessions' = [i \in Ids |-> NoSession]
  /\ expired' = {} /\ ended' = {}
  /\ pc' = [t \in Handlers |-> "idle"]
  /\ job' = [t \in Handlers |-> NoJob]
  /\ UNCHANGED <<connections, minted, browser, provider, requests, expiries>>

-----------------------------------------------------------------------------
Step(t) ==
  \/ Receive(t) \/ Authorize(t) \/ Take(t) \/ Exchange(t) \/ Establish(t) \/ ReadSession(t)
  \/ Remove(t) \/ StoreLogout(t) \/ Complete(t) \/ AdminLogout(t) \/ Mark(t)

Next ==
  \/ \E t \in Handlers : Request(t) \/ Step(t)
  \/ Expire \/ Reconfigure \/ Restart

Spec == Init /\ [][Next]_vars

-----------------------------------------------------------------------------
TypeOK ==
  /\ connections \in [Slots -> Realms \union {NoRealm}]
  /\ transactions \in [1..MaxLogins -> Transaction \union {NoTransaction}]
  /\ logoutTransactions \in [1..MaxLogouts -> LogoutTransaction \union {NoTransaction}]
  /\ sessions \in [Ids -> Session \union {NoSession}]
  /\ minted \in 0..MaxLogins
  /\ expired \subseteq {"login", "logout", "session"} \X (1..(MaxLogins + MaxLogouts))
  /\ ended \subseteq Ids
  /\ cookie \in Cookies
  /\ logins \in Seq([realm: Realms, kind: Kinds])
  /\ logouts \in Seq([realm: Realms, sid: Sids])
  /\ provider \in [Sids -> {"unborn", "live", "ended"}]
  /\ pc \in [Handlers -> Labels]
  /\ job \in [Handlers -> Job]
  /\ requests \in 0..MaxRequests
  /\ expiries \in 0..MaxExpiries
  /\ changes \in 0..MaxChanges

Exchanging(t) == pc[t] \in {"exchange", "establish"}

(* server.py:478, "missing, expired, or already used": of the callbacks    *)
(* that bring one state, at most one goes on to the token exchange.        *)
OneTimeState ==
  \A t \in Handlers : Exchanging(t) =>
    /\ transactions[job[t].state] = NoTransaction
    /\ \A u \in Handlers : Exchanging(u) /\ job[u].state = job[t].state => u = t

(* The tokens a session holds were all issued by the session's issuer,     *)
(* although one cookie serves the logins of both lab realms.               *)
SessionBoundToIssuer ==
  \A i \in Ids : sessions[i] # NoSession =>
    \A k \in Kinds : sessions[i].clients[k] # NoSid
                       => RealmOf[sessions[i].clients[k]] = sessions[i].realm

(* server.py:482, "Authorization callback lost its initiating RP session": *)
(* no callback brings a session back that a logout removed.                *)
LogoutIsFinal == \A i \in ended : sessions[i] = NoSession

(* server.py:703, "verified-session-cleared", and identity/README.md:      *)
(* 331-332: the session a Front-Channel Logout removes holds the Keycloak  *)
(* session it names.                                                       *)
FrontChannelVerified ==
  \A t \in Handlers :
    /\ Remove(t)
    /\ job[t].op = "frontchannel"
    /\ sessions[job[t].cookie] # NoSession
    => \E k \in Kinds : sessions[job[t].cookie].clients[k] = job[t].sid

(* server.py:654: the RP-logout callback of a realm removes no session of  *)
(* the other realm, whatever the browser logged into in between.           *)
RpLogoutOfRealm ==
  \A t \in Handlers : Complete(t) =>
    \A i \in Ids : PurgedSessions[i] # NoSession /\ sessions'[i] = NoSession
                     => sessions[i].realm = job[t].realm

(* The Keycloak sessions that a session holds of the user it names.        *)
HeldByItsUser(session) ==
  {sid \in {session.clients[k] : k \in Kinds} \ {NoSid} : UserOf[sid] = session.username}

(* server.py:756, "provider-session-ended-local-rp-session-retained": the  *)
(* Keycloak sessions that a session shown as terminated holds of the user  *)
(* it names have ended.  Of a user who logged in before that one under the *)
(* same session id, nothing is promised and nothing is ended.              *)
TerminatedSessionEnded ==
  \A i \in Ids : sessions[i] # NoSession /\ sessions[i].terminated
    => \A sid \in HeldByItsUser(sessions[i]) : provider[sid] = "ended"
=============================================================================
