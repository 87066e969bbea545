--------------------------- MODULE CustomerRecorded ---------------------------
(***************************************************************************)
(* CustomerLab with a history variable: whether two requests have ever     *)
(* been served at once.  The properties that a second request can break    *)
(* between two steps of a handler hold while requests come one at a time,  *)
(* with logins and logouts left open across other ones.                    *)
(***************************************************************************)
EXTENDS CustomerLab

CONSTANT OverlapRequests   \* bound: requests in a behaviour in which two overlap

VARIABLE overlapped

recordedVars == <<vars, overlapped>>

Overlap(where) ==
  \E t, u \in Handlers : t # u /\ where[t] # "idle" /\ where[u] # "idle"

RecordedInit == Init /\ overlapped = FALSE
RecordedNext ==
  /\ Next
  /\ overlapped' = (overlapped \/ Overlap(pc'))
  /\ overlapped' => requests' <= OverlapRequests
RecordedSpec == RecordedInit /\ [][RecordedNext]_recordedVars

(* server.py:482: no callback brings a session back that a logout removed. *)
LogoutIsFinalAlone == ~overlapped => LogoutIsFinal

(* server.py:756: the Keycloak sessions that a session shown as terminated *)
(* holds of the user it names, the one of the latest login, have ended.    *)
TerminatedSessionEndedAlone == ~overlapped => TerminatedSessionEnded

(* server.py:703: the session a Front-Channel Logout removes holds the     *)
(* Keycloak session it names.                                              *)
FrontChannelVerifiedAlone == [][~overlapped' => FrontChannelVerified]_recordedVars

(* server.py:654: the RP-logout callback of a realm removes no session of  *)
(* the other realm.                                                        *)
RpLogoutOfRealmAlone == [][~overlapped' => RpLogoutOfRealm]_recordedVars
=============================================================================
