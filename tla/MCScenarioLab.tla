---------------------------- MODULE MCScenarioLab ----------------------------
(* ScenarioLab with the constants TLC uses.                                *)
EXTENDS ScenarioLab

CONSTANTS h1, h2, northlake, a, b, c

MCKeys      == {northlake, a, b, c}
MCDefault   == [labA |-> a, labB |-> b]
OneHandler  == {h1}
TwoHandlers == {h1, h2}

(* Each slot keeps to keys of its own.                                     *)
SeparateChoices == [labA |-> {a, c}, labB |-> {b}]
(* The two slots may exchange their keys.                                  *)
SwappedChoices == [labA |-> {a, b}, labB |-> {a, b}]

Everything == {"save", "apply", "reset", "verify", "bootstrap"}
ApplyOnly  == {"apply"}
=============================================================================
