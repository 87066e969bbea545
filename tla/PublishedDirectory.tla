------------------------ MODULE PublishedDirectory ------------------------
(***************************************************************************)
(* What the configuration service promises about the people of the         *)
(* laboratory, whatever it does to keep the promise: there is a directory  *)
(* of users and groups, at most one copy of it is published to relying     *)
(* parties, an edit is followed by its publication before another edit     *)
(* starts, and "applied" is only ever answered while the published copy is *)
(* the directory itself.                                                   *)
(***************************************************************************)
VARIABLES
  directory,   \* the users and groups the service keeps
  published,   \* the copy a relying party sees: {} or {directory at a time}
  status       \* "working" on a request, or how the last one was answered

vars == <<directory, published, status>>

Init == /\ published = {directory}
        /\ status = "applied"

\* a request is accepted; an edit may change the directory
Accept == /\ status # "working" /\ status' = "working"
          /\ UNCHANGED published

Withdraw == /\ status = "working" /\ published' = {}
            /\ UNCHANGED <<directory, status>>

Publish == /\ status = "working" /\ published = {} /\ published' = {directory}
           /\ UNCHANGED <<directory, status>>

Confirm == /\ status = "working" /\ published = {directory}
           /\ status' = "applied" /\ UNCHANGED <<directory, published>>

\* an error answer, or none; the copy may have been withdrawn or published
Fail == /\ status = "working" /\ status' = "failed"
        /\ published' \in {published, {}, {directory}}
        /\ UNCHANGED directory

Next == Accept \/ Withdraw \/ Publish \/ Confirm \/ Fail

Spec == Init /\ [][Next]_vars
=============================================================================
