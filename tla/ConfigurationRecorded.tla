------------------------ MODULE ConfigurationRecorded ------------------------
(***************************************************************************)
(* ConfigurationService under fairness, with a history variable that tells *)
(* when its pending document is bound to be truthful: Save marks nothing   *)
(* pending, and an edit or a profile apply that fails promises no retry.   *)
(***************************************************************************)
EXTENDS ConfigurationService

\* whether a request other than apply, a profile Save and verify has begun
VARIABLE others
ApplyOnly == {"apply", "saveProfile", "verify"}
Begun == \E t \in Handlers :
           pc[t] = "idle" /\ pc'[t] # "idle" /\ job'[t].op \notin ApplyOnly

RecordedInit == Init /\ others = FALSE
RecordedNext == Next /\ others' = (others \/ Begun)
RecordedSpec ==
  /\ RecordedInit /\ [][RecordedNext]_<<vars, others>>
  /\ Fairness

(* While only applies, profile Saves and verifications have been asked     *)
(* for, the document tells the truth after any failure and restart.        *)
TruthfulAfterApplies == ~others => TruthfulDocument

(* server.py:1501: while nobody saves, a failed apply leaves its own        *)
(* settings pending, whatever applies and reconciliations came before.     *)
FailedApplyStaysPendingAlone ==
  [][~others' => ApplyFailsPending]_<<vars, others>>

(* After every start the service becomes healthy (/configure/health): the  *)
(* pending document is applied, or the scopes are attached, unless an edit *)
(* or a profile apply was interrupted with the realm deleted.              *)
StartupAfterApplies == ~reconciled ~> (reconciled \/ others)
=============================================================================
