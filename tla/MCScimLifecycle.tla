--------------------------- MODULE MCScimLifecycle ---------------------------
(* ScimLifecycle with the constants TLC uses.                              *)
EXTENDS ScimLifecycle, TLC

CONSTANTS h1, h2, e1, e2

OneHandler  == {h1}
TwoHandlers == {h1, h2}
MCEndpoints == {e1, e2}
Everything  == AllOps
SaveVerify  == {"save", "verify"}
=============================================================================
