------------------------- MODULE MCIdentityEvidence -------------------------
(* Small instances of IdentityEvidence: the scenarios of                   *)
(* coverage-catalog.json, one of each kind.                                *)
EXTENDS IdentityEvidence

Command(id) == <<"command", id>>
Artifact(id) == <<"artifact", id>>
RestartFile == <<"restart", "restart-stability">>
Scenario(items, required, gap) ==
  [evidence |-> items, required |-> required, gap |-> gap]

CoverageCatalog ==
  {Scenario({Command("unit-tests")}, TRUE, FALSE),
   Scenario({Command("stable-promotion"), Artifact("stable-promotion")}, TRUE, FALSE),
   Scenario({Artifact("key-rotation")}, TRUE, TRUE),
   Scenario({Command("restart-stability"), RestartFile}, TRUE, FALSE),
   Scenario({Command("catalog-validation"), RestartFile}, TRUE, TRUE),
   Scenario({}, FALSE, TRUE)}
=============================================================================
